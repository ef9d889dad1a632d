# Verification of hibro-node

Hibro Node is a local runtime for coding agents. It accepts *Runs* over HTTP, the command line or
a WebSocket to Hibro Core, gives each a working directory, has an engine (Claude Code, Codex,
OpenClaw) execute it, asks for approvals, records events in SQLite and reports to Core. This
directory holds TLA+ models of that program, the TLC runs that check them and TLAPS proofs.
`PROJECT.json` maps each definition to the lines it models and lists the hazards in the code.

## 1. The system

One Node.js process, one thread: what runs between two `await`s is atomic, and every `await` lets
other handlers in. All paths below are relative to `src/src/`.

| Component | State | Operations | Correct when |
|---|---|---|---|
| RunManager (`run-manager.ts`) | `activeRuns`, reservations, `controllers`, `sequences`, `stateWrites`, `shuttingDown` | `create`, `execute`, `cancel`, `shutdown`, `recoverInterruptedRuns` | limits hold, nothing leaks on any way out, every Run ends once and is announced once |
| WorkspaceManager (`workspace-manager.ts`) | `activeByAgent`, `activeByPath`; directories, git worktrees | `acquire`, `release`, `pruneOrphanRuns` | a directory has one owner |
| Store (`storage.ts`) | tables `runs`, `run_events`, Core outbox and inbox, artifact sync | `create`, `update`, `appendEvent`, `getEvents`, outbox operations | an event is never replaced; what was acknowledged is kept |
| Approvals (`run-manager.ts`, adapters, `execution-timeout.ts`) | `pendingApprovals`, `sessionApprovals`, the paused deadline | `requestApproval`, `decideApproval` | each request is answered once, with the answer that is recorded; the deadline stands while somebody is asked |
| CoreTransport (`core-transport.ts`) | socket, `sequence`, `incomingSequence`, `processing` chain, timers | connect, `handle`, `send`, `flushOutbox`, acknowledge | commands take effect once, messages arrive at least once, `node.hello` is first |
| Artifact sync (`core-transport.ts`) | sync record of each artifact | offer, authorise, upload, acknowledge | an artifact called synced is at Core |
| ConversationService (`conversation-service.ts`, `conversation-store.ts`) | conversations, messages, event claims, `pendingMessages` | `sendMessage`, `consumeRunEvent`, `archive`, `rename`, reconcile | at most one Run per conversation; each event applied once; no message open for ever |
| EngineManager (`engine-manager.ts`) | engine state file, versions on disk, operation chain | `install`, `activate`, `setEnabled`, `uninstall`, normalise at start | a failed or interrupted update keeps the old version usable |
| Agents, packages, settings (`agent-registry.ts`, `agent-package.ts`, `settings-store.ts`) | files and their images in memory | upsert, delete, deploy, activate, update | registry, `active.json` and memory agree; what one of them accepts the next one takes |
| Policies (`run-manager.ts`, the adapters) | none | `validateInput`, `effectiveRunOptions`, `automaticApprovalDecision`, options of the engines | a Run gets no more than its Agent and the Node allow |
| Process (`cli.ts`, the systemd unit) | started, stopping | `serve`, shutdown with deadlines | recovery precedes service; stop closes what is open |
| HTTP server, console, configuration, observability | subscriptions only | routing, queries | not modelled: no state of their own |

RunManager is the hub. It calls WorkspaceManager, the store and an engine adapter; the adapter
calls back (`onEvent`, `requestApproval`). CoreTransport and ConversationService subscribe to the
events `emit` publishes and call `create`, `cancel` and `decideApproval`. The HTTP server calls
all of them.

What makes it hard: several handlers of one Run stand between awaits at the same time; store
calls may fail anywhere; the process may die anywhere and is restarted by systemd; messages to
Core are lost and repeated.

## 2. Modules

| Module | Content |
|---|---|
| `RunContract` | What a Node promises about its stored Runs: the protocol's life of a Run (section 7), completed with the outcomes the code adds, and the bound on open Runs |
| `RunLifecycle` | RunManager, WorkspaceManager's leases, the run tables, the process. Implements `RunContract` (`ContractHolds`) |
| `MCRunLifecycle` | Small instances |
| `RunLifecycleProofs` | `TypeCorrect`, `SlotsNeverLeak`, `LimitsHold`, `DirectoriesAreExclusive` |
| `RunEventProofs` | `NumbersAreUnique`, `EnginesFallSilent` |
| `RunContractProofs` | `ContractIsKept`: `RunLifecycle` implements `RunContract`, step by step; `FinalStaysFinal`, `EndsAreAnnounced`, `CancellationWins`, `ShutdownLeavesNothingOpen` |
| `Approvals` | `requestApproval`, `decideApproval`, trust for a session, the pausable deadline, and what ends a Run as far as its requests notice |
| `MCApprovals` | Small instances |
| `CoreLink` | CoreTransport with its outbox and inbox, the WebSocket, and the Core it relies on |
| `MCCoreLink` | Small instances |
| `ApprovalProofs` | `ApprovalsTyped`, `DeadlineIsKept`, `AllowsAreChosen`, `WaitersAreAnswerable`, `AnswersAreRecorded` |
| `LinkProofs` | `LinkTyped`, `CommandsRunOnce`, `AcknowledgementsAreTrue`, `OutboxForgetsNothing`, `NumbersHaveNoGap` |
| `Conversations` | ConversationService and ConversationStore over an abstract Run: sending, the two consumers of events, the end of a turn, recovery |
| `MCConversations` | A small instance |
| `ConversationProofs` | The eight safety properties of `Conversations`, from the invariant `ConversationInv` (`ConversationInvariant`) |
| `Requests` | What configuration shares: requests under way, the process, the Runs that use it |
| `Engines` | EngineManager: install, activate, enable, uninstall, the state file, normalisation at start |
| `Agents` | FileAgentRegistry, AgentPackageManager and `deleteAgent` |
| `Provisioning` | Composes `Engines` and `Agents` with the settings, `RunManager.create` and the end of the process |
| `MCProvisioning` | A small instance |
| `ProvisioningProofs` | The nine properties of `Provisioning`, from the invariant `ConfigOK` (`ConfigIsSound`) |
| `RunPolicy` | Functions: which manifests, definitions, settings and options are accepted, what the engines get, what passes unasked |
| `RunPolicyChecks` | The theorems of `RunPolicyProofs` over small sets, as assumptions TLC evaluates |
| `RunPolicyProofs` | What follows from `RunPolicy` for all texts, tools, definitions and options |

### RunLifecycle and the code

`pc[r]` is the await at which `create`, and later `execute`, stands for Run `r`:

| `pc` | the code waits at |
|---|---|
| `acquiring`, `preparing` | `workspaces.acquire`; `packages.materialize`, inputs and `mkdir` |
| `recording`, `announcing` | `store.create`; `emit("run.created")` |
| `unwinding`, `unwound`, `rejected` | the catch and the finally of `create` |
| `starting`, `started` | `persist(running)`; `emit("run.started")` |
| `executing` | `adapter.execute` |
| `flushing` | `await eventWrites`, in the try or in the catch |
| `completing`, `completed` / `failing`, `failed` | `persist` / `emit` of the try, and of the catch |
| `settling`, `releasing`, `reporting`, `ending`, `done` | the finally of `execute`; `release`; `workspace.cleanup_failed` |
| `gone` | the process that had it has ended |

`mem` is the `status` field of the record that `create`, `execute` and `cancel` share while the
Run is active; `stored` is the record in the store. `writes` is the chain of persists of a Run
(`stateWrites`); `queued` and the emission `by` "engine" are the chain `eventWrites`. `emitting`
holds the events that have a number and are not stored; `cpc` is the call of `cancel`.
An error in the try goes to the catch, one in the catch to the finally (`Throw`, `Leave`), and
what leaves `execute` is an unhandled rejection, which ends a Node process (`UnhandledEnd`,
`UnhandledLink`).

The constant `StoreYields` says what `await store.x()` means. FALSE is `SqliteRunStore`, which
`cli.ts` builds: its calls are synchronous inside, so between two of them only other handlers
that are themselves between two store calls can run, and no timer, child process or request
(`Quiet`). TRUE is any `RunStore`: every other handler may run in between.

Abstractions, all on purpose:
- A Run's Agent and kind of directory are constants (`AgentOf`, `SharedHome`); so are the limits.
  The code reads settings at each `create`; a limit lowered later would not evict a Run.
- `acquire`'s own check of `maxConcurrency` is implied by the one of `reserveRunSlot`, which runs
  in the same synchronous segment, and is left out.
- Preparing the directory, the inputs and the options is one step that succeeds or fails.
- Reads of the store do not fail by themselves: a `store.get` that fails inside `emit` has the
  effect of a failed append, which is modelled.
- One call of `cancel` at a time for a Run, `MaxCancels` in all.
- The hard exits of `cli.ts` after 10 and 30 seconds are covered by `Stop`, which does not need
  the active Runs to be over.

### Approvals and the code

`Approvals` is a module of its own and not a part of `RunLifecycle`: what it needs of a Run is
three stages (`stage`: the engine executes, it has ended, `execute` is over) and whether its
signal is aborted. `Finish` is the finally of `execute`, which denies what is left.

| variable | the code |
|---|---|
| `rpc[q]` | the await at which `requestApproval` stands: the event `engine.approval.requested` (`announcing`) or, for an automatic decision, `engine.approval.resolved` (`recording`), the promise (`waiting`), or back in the adapter (`returned`) with `answer[q]` |
| `pending` | `pendingApprovals`, by Run and `externalId`; two requests of a Run may have the same id, and the engine chooses the ids |
| `trusted` | `sessionApprovals`; `Lapse` is the expiry that `requestApproval` tests |
| `resolved` | the `engine.approval.resolved` events in the store, where a repeated decision looks for the first |
| `calls` | the calls of `decideApproval`: `resolving` is the await of `emit` |
| `clock` | `PausableExecutionTimeout`: `Pause` is `pause`, `Return` and `Resumed` are `resume` |

Codex lets the deadline go on only when the engine has not completed, Claude Code always; since a
deadline of a Run that has ended can do nothing, both are `Return`. OpenClaw asks before its
engine starts and has no deadline then; that is an execution whose clock is not looked at.
A chunk of engine output may hold several requests, so one may begin while another of the same Run
is being stored, even with the synchronous store (`InChunk`). Which requests the policy lets
through is the constant `Automatic`; the rules behind it are `RunPolicy.LetsThrough`. The module states
no liveness: nothing makes an operator answer.

### CoreLink and the code

| variable | the code |
|---|---|
| `socket` | `this.socket` and its `readyState`; `hellos` counts the calls of `sendHello` that wait for `doctorEngines`, `timers` says whether `startTimers` ran after the last `stopTimers` |
| `sequence`, `incoming` | `sequence` and `incomingSequence`, reset by `open` |
| `chain`, `handling` | the frames in `processing`, and the await at which `handle` stands with the first: `sendSnapshot` (`snapshot`), or `create` before and after the Run is stored (`creating`, `created`) |
| `outbox`, `attempts`, `order` | `core_outbox`: `acknowledged_at`, `dead_letter_at`, `attempt_count`, and the order of rows |
| `inbox`, `runs` | `core_command_inbox`; the Runs whose metadata carry a `coreCommandId` |
| `toCore`, `toNode` | the two directions of the WebSocket: in order, and lost when it closes |
| `greeted`, `coreSeq`, `lastSeq`, `received`, `refused`, `issued`, `done` | Core, which is not in this repository: it welcomes a hello, keeps or rejects a message, and sends a command until it is acknowledged |

`Send` is `send`: a frame takes a number even when there is no socket, and more than
`MaxBuffered` frames in the socket stand for the 8 MiB after which it is closed (1013).
`forwardRunEvent` and every other `send` with `requiresAck` is `Emit`; the snapshots after a welcome
and the `run.snapshot` of an accepted command are such messages and have no action of their own.
Time is left out: a timer fires at any moment while it is set, and every pending message may be
due. That allows more than the delays of `deferCoreMessage` do. The timers of an old connection
survive when `reconcile` replaces a closing socket before its close event, as in the code.
`core.heartbeat`, registrations, settings and approvals change nothing the properties are about;
`agent.revision.deploy` and the conversation commands belong to their modules.

### Conversations and the code

| variable | the code |
|---|---|
| `db` | the tables of `ConversationStore`: `conv`, `user` and `reply` are conversations and messages, `act` the activities of a reply, `claimed` is `conversation_run_events`; `seen` is what a reader who applied all published `conversation_events` has |
| `run` | the Run of each turn as RunManager keeps it: its stored status and events, and whether it goes on in this process |
| `chain`, `inflight` | the promise chain `processing` of the subscription; the claimed events whose consumer waits for `manager.get` |
| `pending`, `pc`, `copy`, `todo` | `pendingMessages`; the await of `sendMessage`; its variable `conversation`; the stored events it has yet to replay |
| `node`, `listed` | whether the process is down, in `init` or serves; the conversations with an `activeRunId` that `reconcileActiveConversations` has yet to visit |

A turn is a message of the user, the reply and its Run. The text of a reply is the sequence of the
numbers of the events it comes from, so that an event applied twice, lost or out of order shows.
`ConversationStore` has no transactions: what a handler does between two awaits is a *plan*, the
databases after each of its statements, and a crash leaves any of them (`Short`). As in
`RunLifecycle`, the store is synchronous, so handlers that wait for it go on before a new request
is taken (`Quiet`); only `manager.create` waits for something else. At a start (`Boot`) `RunManager.init`
has ended every open Run before `reconcileActiveConversations` looks, and old Runs and old claims
may have been pruned; `Reconcile` is one round of its loop, `Ready` the moment from which requests
are served, and the process may die in between. Thinking, progress and tools are one activity (`work`). A statement that
fails while the process lives on is not modelled: statements fail for a full disk or a damaged
file, and then most of the service does.

### Provisioning and the code

A request of the HTTP API is an element of `Requests`: `req[q].at` is the await at which its
handler stands, `was` and `snap` are its local copies (the state to go back to, the text to be
written), `arg` what it was asked. `run` has for each Run the definition of its Agent that `create`
read, its engine, and where it stands: `preparing` (`materialize`), `fetching` (input artifacts),
`active`.

| variable | the code |
|---|---|
| `engines`, `engineFile`, `disk` | `EngineManager.state`, `state.json`, the versions whose executable is there |
| `req[q].save` | `persist`: the copy of all engines is taken after `mkdir` (`SaveTaken`) and renamed later (`SaveLands`) |
| `agents`, `agentFile` | the map of `FileAgentRegistry`, `agents.json` |
| `store`, `compiled`, `active` | of each Agent: `revision.json` files, compiled directories, the revision `active.json` names |
| `workspace` | the revision last copied to the persistent workspace |
| `settings`, `settingsFile` | `FileSettingsStore` |
| `partial` | the Agents of whose directory a removal has left a part |
| `told`, `toldSettings`, `overlapped` | history: what the requests have made of Agents and settings, and whether requests overlapped |
| `by` of a definition | history: what its revision comes from, an `activation` or the `body` of a PUT, or that a PUT `cleared` it |

`exclusive` orders the operations of one engine (`On(e) = {}`), not those of two. A write either
replaces its file or leaves it (`writeJsonAtomically`); the removal of a directory may be cut short
anywhere. An engine of the models has one executable per version; npm, hashes and the content of
packages are abstracted to steps that succeed or fail. An Agent's definition is whether it is
enabled and which revision it names; the other fields are in `RunPolicy`. Which engine it names is
left open: a PUT may change it at any time, so `CreateRun` takes any engine that is enabled.

`Put` is the PUT and POST of `/v1/agents`. The body is taken over the existing definition, its
`package` included, and the registry does not look whether such a revision is there; `active.json`
and the files stay as they are. A PUT can therefore put back the definition it read before a later deployment,
name a revision that does not exist, or take the revision away. `by` tells such an Agent from
one whose revision came from an activation, and `AtomicActivation` and `NamesExist` are about the
latter: an activation, its undoing and a PUT that keeps the revision.

Two requests may answer an error although they have done their work: `deleteAgent`, when the directory
cannot be removed (`PurgeBreaks`) or the Agent runs again (`PurgeBegins`), and `updateSettings`, when the
pruning that follows the save fails (`PruneBreaks`). `told` follows what a request did, from
the step after which it stands (`Commits`), and `AnswersHold` names both exceptions.
A removal that fails or is cut short leaves any part of a directory (`PartLeft`). A deployment that
meets such a part takes it for the revision (`EEXIST`), with or without its `revision.json`; without it
the activation that follows fails (`Compiled`, `CanActivate`).

### RunPolicy and the code

One operator per function: `ManifestOK` and `Checked` are what `validateAgentManifest` refuses and
returns, `ActivatedAs` what `activate` upserts, `Upserts` and `Upserted` what `upsert` accepts and
keeps, `ReadBack` what `init` makes of the file, `SettingsOK` and `SettingsKept` the same of
settings, `IsGranted` and `Options` what `effectiveRunOptions` refuses and returns, `LetsThrough`
when `automaticApprovalDecision` allows a request, and `CodexSandbox`, `ClaudeArgs` and
`OpenClawTools` what the adapters make of the options. Texts are known by what `trim` makes of
them, URLs by scheme and host, ids by their length; `Unset` is `undefined`.

## 3. Runs

| Run | Instance | Shows |
|---|---|---|
| `run_accounting` | 3 Runs, 2 want the directory of one Agent, 2 slots, SQLite, 1 failure | `TypeOK`, `CapacityRespected`, `WorkspaceExclusive`, `NothingLeaks` |
| `run_events` | 1 Run, 2 engine events, 2 cancels, 1 failure, 1 crash, store yields | `UniqueSequence`, `TerminalEventLast` |
| `run_contract` | 2 Runs, SQLite, 1 engine event each, 1 cancel, 1 crash, shutdown, fairness | `OutcomeAnnounced`, `CancelWins`, `CleanStop`, `ContractHolds`, `EveryRunSettles` |
| `run_final` | 1 Run, 1 failure | violates `TerminalIsFinal` (finding 1) |
| `run_admission` | 2 Runs of one Agent with `maxConcurrency` 2 | violates `RefusedOnlyWhenFull` (finding 2) |
| `run_approvals` | 1 Run, 4 requests (two with one id, two pairs with one trust key, one automatic), 2 decisions, 1 failure, store yields | `ApprovalTypeOK`, `Answerable`, `AnsweredAsRecorded`, `AllowedBySomebody`, `DeadlineGoesOn` |
| `run_clock` | 1 Run, 2 requests, SQLite | violates `ClockWaits` (finding 3) |
| `run_decision` | 1 Run, 2 requests, 1 failure | violates `PendingIsAccepted` (finding 4) |
| `run_link` | 1 message, 1 command sent twice, 2 attempts, 1 broken connection, 1 crash, fairness | `LinkTypeOK`, `OneRunPerCommand`, `AckedIsDone`, `NothingForgotten`, `NumberedWithoutGap`, `OutboxDrains` |
| `run_next` | 1 message, 1 command, 1 broken connection | violates `NextAccepted` (finding 5) |
| `run_conversations` | 1 conversation, 2 turns, 2 engine events in one and 1 in the other, 1 edit, 1 crash, fairness | `ConversationTypeOK`, `OneTurnAtATime`, `ReplyFollowsEvents`, `ReplyEndsAsItsRun`, `ActivitiesEnd`, `ReadersAgree`, `EditsLast`, `EndedStaysEnded`, `TurnsEnd` |
| `run_provisioning` | 2 requests (PUTs with any package), 1 Run, 2 engines, 2 versions, 1 Agent, 2 revisions, 2 settings, 1 failure, 1 crash | `ProvisioningTypeOK`, `KeepsUsable`, `HonestStatus`, `InterruptedIsMarked`, `EnginesPersist`, `AnswersHold`, `AtomicActivation`, `NamesExist`, `RunMatches`; evaluates `RunPolicyChecks` |

Why the bounds are enough. Slots and directories are contended by two Runs; the third shows that
a slot given back is used again, and by whom. The numbers of one Run do not depend on other Runs,
so one Run is enough for them; with two engine events one can be on its way while the other waits
behind it, and with two cancels one can be served from memory and the other from the store. One
failure reaches each catch, one crash each await, and a crash during recovery is the crash of a
process in state "booting". `run_accounting` is symmetric in the two Runs of the shared
directory; runs with liveness use no symmetry. `run_accounting` takes the synchronous store because
the other one makes it an order of magnitude larger; the theorems about the same properties cover
both.

`run_approvals` has every relation two requests may have: the same id, the same trust key, one
trusted by the decision on the other, one automatic. Two decisions are what a race takes; they are
alike, so the run is symmetric in them. Requests of different Runs meet only in `trusted` and in a
shutdown, which the theorems cover for every set of Runs. The runs of `MCApprovals` do not check
deadlock: they end when the Run is over and the calls are used up.

`run_link` has what the hazards of the link take: a command that arrives twice, with a crash at any
await of its handler; a message that is sent when it is enqueued and again by the timer; a
connection that breaks at any moment, so that frames, handlers and hellos of the old one meet the
new one; and a socket that is full after two frames. Messages do not depend on each other but for
their place in a flush. It does not check deadlock: when everything is delivered and nothing may
break any more, nothing happens.

`run_conversations` has two turns of one conversation, because what could go wrong is that one turn
touches the conversation while another has it: a second message during the creation of the first
Run, a late event of the first turn, a rename or an archive in between. Two events of the first
Run are enough for one to be applied by the replay of `sendMessage` while the other waits in the
subscription; the second Run says, works or asks. Conversations do not share state but for the
chain, where a long event of one delays those of another. One crash reaches each statement of a
process that serves. It takes a second one for recovery to die between its own statements and start
over, which makes the run too large; the theorems about the safety properties have any number of
crashes. Deadlock is not checked: when the turns are over nothing happens.

`run_provisioning` has two requests, the least that overlap, so every pair of operations meets at
every await, and one after the other makes every sequence of two, with the start of the process in
between. Two engines show that one file holds both; two revisions and two versions that the new
one replaces the old. One failure reaches every write; the write that undoes a failed activation
may fail in addition. The run starts with one engine installed and an Agent that has a revision and has
run, that is plain, or that is not there (`UsedInit`): the other initial states of `Init`, a Node without
an engine and a revision that never ran, make it too large and are left to the theorems, which
start from all of `Init`. It is symmetric in requests, versions, revisions
and engines. Deadlock is not checked: each request is made once. Properties that say `~overlapped` are about requests that do not overlap; what overlapping ones
can do is among the remarks.

Two properties need conditions. `ContractHolds`, `OutcomeAnnounced` and `CancelWins` are checked
without store failures, because a failure breaks them (finding 1), and with the synchronous
store, because with one that yields `cancel` may write the copy it read over a record that has
become terminal meanwhile (`run-manager.ts:837`). Nothing in the program builds such a store for
a Node that serves; the hazard is listed.

### Fairness

`FairSpec` has weak fairness for what the code goes on with by itself: each await of `create`,
`execute`, `cancel` and of recovery returns. An engine ends (`EngineEnd`): each Run gets a
deadline (`effectiveRunOptions`, `settings.defaultTimeoutMs`), and an adapter that passes it kills
the process group, first with SIGTERM and then with SIGKILL (`process-lifecycle.ts`). That
deadline stands still while an approval is pending, so this assumes that somebody answers.
Shutdown ends by its own deadline (`Stop`). A Node that failed is restarted (`Restart=on-failure`
in `deploy/hibro-node.service.template`); one that was stopped is not, and `EveryRunSettles` says
so. Nobody has to create, cancel or shut down, and neither crashes nor failures are fair.

`FairSpec` of `CoreLink` assumes that a Node connects again (`scheduleReconnect`, every 3 s), that
timers fire, awaits return, systemd restarts it, and that Core reads its socket. Connections need
not last: `OutboxDrains` speaks of behaviours in which one does at last, and in which `NextAccepted`
holds (finding 5).

`FairSpec` of `Conversations` has weak fairness for `Progress`: awaits return, consumers take the
next event, Runs end by their deadline, systemd restarts the process. Nobody has to send, decide
or cancel, and no engine has to say anything. Provisioning states no liveness: requests end unless
the process does.

## 4. Findings

1. **A completed Run can become failed** (`run_final`). `execute` persists `completed` and then
   emits `run.completed` in the same `try`. If that append fails the catch persists `failed` over
   the completed record. The protocol's diagram has no arrow out of Completed.
2. **A create in flight counts twice** (`run_admission`). `reserveRunSlot` adds the leases of the
   Agent, which already include Runs that are being created, to the reservations for the same
   Runs. An Agent with `maxConcurrency` 2 refuses a second Run while the first is prepared.

3. **The answer to one request starts the deadline for all** (`run_clock`).
   `PausableExecutionTimeout` does not count its pauses. With two requests waiting, the answer to
   the first lets the deadline go on while the second still waits. The tests
   (`test/codex-adapter.test.ts:67`, `test/claude-code-adapter.test.ts:81`) have one request.
4. **A decision that cannot be stored strands its request** (`run_decision`). `decideApproval`
   deletes the request before it awaits the event and resolves the promise after it. If the
   event fails, the engine waits, its deadline stands still, and every later decision is refused;
   only a cancel or a shutdown ends the Run.

5. **A late frame of the old connection locks the new one out** (`run_next`). The handlers of all
   connections form one chain, and all share `incomingSequence`, which `open` resets. A frame of
   the old connection that waits behind a long handler (a create, an upload of five minutes)
   is handled after the reset and raises it; the welcome of the new connection is then
   refused, and its timers never start.

`Answerable` and `AnsweredAsRecorded` hold under the conditions finding 4 leaves: a request may
also have lost its decision (`DecideFailed`), and two requests with one id are not both
answerable, since the second to be stored takes the place of the first.

### Remarks

What follows is in the code and, where it has a place there, in the models, which allow it; the
properties are stated so that they hold of the rest. It has no runs of its own.

The link and recovery. Events sent between `open` and the answer of `doctorEngines` leave before
`node.hello`, "the first application frame sent by Node" (protocol, line 106). Recovery emits its
events in `init`, before `CoreTransport` subscribes (`cli.ts:258,267`): Core gets the terminal
snapshot of a recovered Run, but not its event. And the protocol (`docs/hibro-core-node-protocol-v1.md:400`)
wants a Node to reject a duplicated decision; `decideApproval` accepts one that repeats the
recorded decision without doing anything, which is what redelivered commands need
(`DecideTooLate`, the end `repeated`).

Conversations.
- `sendMessage` writes back the conversation it read before `create` (`conversation-service.ts:161`):
  a rename or an archive in between is undone. `EditsLast` says that this is the only case.
- A cancel while a message is being created does nothing: there is no `activeRunId` yet.
- A crash before the first `save` of the conversation leaves the reply queued for ever; the message,
  sent again with its id, is taken for known (and a Core command acknowledged) without a Run.
- A crash can leave a reply that streams for ever. `sendMessage` stores the Run in the reply
  (`conversation-service.ts:156`) and in the conversation (:161) with two commits, and
  `reconcileActiveConversations` asks the conversation only: between the two the reply says `streaming`
  although its Run has failed. When the Run has been pruned, recovery opens the same gap: it clears
  `activeRunId` (:354) before it fails the reply (:359). The test of recovery
  (`test/conversation-service.test.ts:96`) sets up both sides. The second gap takes two crashes; it was
  found by the proof of `ConversationInv`: `ReplyFollowsEvents` and `TurnsEnd` said more than it allows, and
  now except a reply whose Run is gone.
- A crash between the statements of `finishRun` leaves activities running; if the Run has been
  pruned before the next start, a completed reply becomes failed.
- A pending approval stays pending in its activity after a cancel or a restart.
- A statement that fails between `pendingMessages.add` (line 116) and the `try` leaves the
  conversation refused until the process is started again.
- What reconciliation publishes at a start is not forwarded to Core.

Engines.
- The saves of two engines that overlap may be renamed in the other order: `state.json` lacks the
  later operation until the next save.
- `uninstall` asks for active Runs only (`http-server.ts:307`): a Run being created may lose its engine.
- `install` enables a disabled engine at its first save, so a crash or a failure leaves it enabled;
  when that first save fails, the status stays "installing" in memory.
- Enabling an engine whose executable is gone makes it "installed". Installing the version in use
  again removes it before the new one is in place.
- `hibro-node engine ...` is a second process with the same files: its start removes `.staging` and marks
  a running install as failed, and the server later writes its own state over it. Not modelled.

Agents, packages, settings.
- The protocol (`docs/hibro-core-node-protocol-v1.md:529`) calls activation atomic. It is two writes: a
  crash between them leaves the registry and `active.json` apart, and if the second write and the
  undoing of the first both fail, the failed activation stays.
- `PUT /v1/agents/:id` moves the registry alone (`http-server.ts:650`, `agent-registry.ts:143`). A
  console that sends back the whole definition it read before a later deployment makes the registry name
  the old revision while `active.json` names the new one. A body may name a revision that is
  not there: its Runs fail when they are created. One with `package: null` makes an Agent without
  a revision whose next Run in the persistent workspace works on the files of the old one.
- A deletion whose directory cannot be removed answers an error although the Agent is deleted, and
  so does a change of the settings after which pruning fails, although it is saved
  (`run-manager.ts:588,598`). The former, made again, answers that there is no such Agent.
- A delete that overlaps a deploy or an update may bring the Agent back naming a revision that was
  removed. A crash in the middle of the removal may leave `revision.json` without its compiled
  directory; the same revision deployed again is then not compiled, and its Runs fail.
- Two deploys of one revision id with different contents both succeed (`EEXIST` is tolerated).
  Staging directories left by a crash are listed as revisions.
- An Agent made anew after a deletion that failed or was cut short, or left by an activation that was
  undone, runs on leftover files of an old revision (the second disjunct of `RunMatches`).
- Two settings updates that overlap lose one.
- If `sendSnapshot` fails after `active` was sent, the same deployment also reports `failed`
  (`core-transport.ts:587`); the protocol (:210-213) wants one terminal status.
- An id of a package may have 80 characters (`agent-package.ts:83`), one of the registry 64
  (`agent-registry.ts:42`): such a package compiles, then fails, and leaves its files.

Policies.
- `defaultTimeoutMs` has no upper bound (`settings-store.ts:61`) and `setTimeout` keeps 32 bits: above
  2^31 - 1 ms every Run without a limit of its own times out at once (`DefaultLimitMayNotFit`).
  The limit a Run brings is at most seven days, which fit.
- An empty text as `approvalPolicy` is not checked, because `if` takes it for absent, but is kept,
  because `??` does not; it then acts as `workspace`, even if the Agent is `strict`. An empty text in an Agent's
  definition bounds nothing a Run asks for. Both are excluded in `OptionsKeepToTheAgent`.
- A sandbox name the Node does not know exceeds nothing: Codex then runs read-only, OpenClaw does
  not treat it as read-only (hypothesis of `ReadOnlyStaysReadOnly`).
- While the Node's switch is off, every Run of an `unrestricted` Agent is refused that does not ask
  for a stricter policy. Codex has no use for `allowedTools`.
- Settings that name a public Core without TLS are accepted while the environment allows it and
  keep the Node from starting when it no longer does.

## 5. Proofs

The theorems hold for every value of the constants, bounds included: any sets of Runs, Agents,
requests, messages, engines, and any number of failures and crashes. They assume only the named
assumptions of the modules (types of the constants; values that stand for "none" are no members
of the sets they stand beside), and `RunContractProofs` one more, `Reliable`, which is
explained there.

- `TypeCorrect == Spec => []TypeOK`. `TypeOK` is not inductive: `Write` looks up the event that
  follows a persist by the `pc` of the Run. `WritesOK` adds that a persist of `execute` is chained
  only while `execute` waits for it, and only one.
- `SlotsNeverLeak`, `LimitsHold` and `DirectoriesAreExclusive` follow from one invariant,
  `AccountsOK`: `NothingLeaks`, the limits, and the finiteness of the sets they count. The
  limits are inductive only together with the accounts: `reserveRunSlot` checks counters, and only
  because these equal the numbers of Runs in the places they stand for does its check bound the
  Runs. `WorkspaceExclusive` follows from `PathsOK`: `activeByPath` is a function of the path.

For the accounts there is one lemma for each group of steps that moves a Run between the classes
*creating*, *executing* and *holder of a lease*, and one for the steps that do not.

`RunEventProofs` is about the events of a Run, for either kind of store and any failures. Neither
theorem is inductive by itself; the invariant `EventsOK` has four parts. The numbers in use
differ and, while the Node is awake, none is above `nextSeq` (`SeqOK`). A Node that is not up does
nothing for a Run but to close it, one Run at a time (`PlaceOK`). An engine is silent once its
end is being written or announced (`SilenceOK`), and only an engine emits what engines say
(`VoicesOK`). `run_events` checks one Run with one failure and one crash; here they are any
number. A process that starts counts on from the largest stored number; that a bounded set of
numbers has one is taken from the well-foundedness of `<` on the naturals, in first-order form.

`RunContractProofs` proves that each step of `RunLifecycle` is a step of `RunContract` or leaves it
alone, from the invariant `ContractOK`: which of `execute`, `cancel`, `shutdown` and recovery may
still write the record of a Run (`ThreadsOK`, `SendingOK`), what record the store and the
memory have at each stage (`StagesOK`), what recovery has yet to close (`RecoveryOK`), and which
terminal records have been announced (`AnnouncementsOK`). All five results have the hypothesis
`Reliable`: no failure of the store, and a store that does not yield. It is needed: with one
failure a completed Run becomes failed (finding 1, `run_final`), and with a store that yields
`cancel` writes back a record that is out of date. Crashes, cancels, engine events, shutdowns
and the numbers of Runs and Agents are not limited. `FinalStaysFinal` states the arrow out of
"Completed" that finding 1 refutes, under the condition under which it holds.

In `ApprovalProofs`, for any Runs, requests, ids, trust keys, calls and failures:

- `DeadlineIsKept` is inductive by itself: what stops a deadline makes a request outstanding, and
  every way back goes through `Return`.
- `AllowsAreChosen` rests on `AllowInv`: each trusted key was chosen by a lasting decision, and a
  choice, once made, stays (`ChoicesKept`).
- `WaitersAreAnswerable` rests on `WaitInv`: a request whose decision is on its way is no longer
  in `pendingApprovals` and still waits or is back, so that nobody else resolves its promise
  and leaves the map pointing at it.
- `AnswersAreRecorded` rests on `SayInv`: a decision that awaits the store has no event yet, is the
  only one for its request, and a request that did not wait for it was turned down (`OnceOK`); the
  events of a Run say what its engine was told, each request at most once (`SaidOK`).

`LinkProofs` is about `CoreLink`, for any messages, commands, attempts, connections and crashes. Its
invariant `LinkOK` says that every acknowledgement on its way, in either direction, is true
(`FramesOK`), why a row of the outbox has the state it has (`RowsOK`), which command the handler
at the head of the chain works on and whether its Run exists (`HandlingOK`), and that the
frames in the socket are numbered one after the other up to `sequence` (`NumbersOK`). A command is
acknowledged only with its Run stored, and a command found without a Run keeps having none
while its handler waits: that is what makes a repeated command harmless (`CommandsRunOnce`). For these
proofs `FlushOutbox` lists the due messages as an increasing enumeration (`Listings`) instead
of with `SelectSeq` and `SubSeq`, whose recursive definitions the provers cannot open.

`ProvisioningProofs` proves everything `run_provisioning` checks, for any number of requests that
overlap, from one invariant, `ConfigOK`. A request is an async function; the invariant goes through
its awaits and says what memory, file and disk have in common at each, and what its local copies
would bring back.

- Engines (`EngineInv`): operations on one engine exclude each other, also while others overlap; the
  version before an installation is what the memory says until the new one is placed, and what the
  file says until the new one is saved; a copy that is being written is what the memory holds.
- Agents (`AgentInv`): every definition from an activation that the registry may come back to by an undo or
  by a restart names a revision that is there (`Exists`), with its files unless a removal left a part
  of the directory (`CompiledOK`); `told` and `active.json` follow the registry at each await.
- Runs (`RunInv`): an Agent has at most one Run, and none while it is deleted; what its
  workspace holds comes from a revision it names, or a PUT has cleared the revision since.

`PurgeBreaksStep` is the removal that fails: it ends the request with the Agent deleted, and `GoneFacts`
says that nothing the invariant speaks of needs what may be left of the directory.

The parts about files and answers hold while no requests overlap (`~overlapped`), like the
properties they serve; `AloneOK` says that then at most one request is under way, so that a lemma
for each step needs to look at one request and one engine or Agent only (`EngineStepOK`,
`AgentStepOK`). `EngineInvElsewhere`, `AgentInvElsewhere`, `RunInvElsewhere` and
`SettingsElsewhere` say that the steps of the other components disturb nothing.

`KeepsUsable` was wrong before it was proved: it exempted only an installation of the version in
memory. A larger instance showed an installation that removes the version `state.json` still
names, when an earlier save had failed. The property now speaks of both (`Usable`), and so does
the exemption.

`ConversationProofs` proves every safety property of `Conversations`, for any conversations, turns, engine
events, edits and crashes, from one invariant, `ConversationInv`. A plan is a sequence of databases,
so a first group of lemmas says what each plan leaves at its end and wherever it stops (`TurnPlanIs`,
`FinishPlanIs`, `NormalizePlanIs`, `LostPlanIs`), and a second that each of these databases is in order
(`Left`), which is what a crash needs. The parts of the invariant:

- `StoreOK` holds after every statement: a reply ends as its Run does, a conversation names only a turn of
  its own, and until it names a turn nothing is written to that turn's reply (`Bare`).
- `RunsOK` and `SendingOK`: what a log looks like, that one Run of a conversation is open, and what
  `sendMessage` may rely on while it awaits `create` and the replay.
- `QueuesOK`: the two consumers. Claims of a Run are a prefix of its log (`ClaimsOK`); of what the
  subscription offers, everything before is claimed or ahead in the chain (`ChainOK`); claimed events
  that wait are the last ones claimed, in order, one for each consumer (`InflightOK`); who is
  over has nothing left to apply (`OverOK`). From these `Arrives`: the event that is applied next is the
  one after those applied so far, whichever consumer claimed it. That is the step of
  `ReplyFollowsEvents`.
- `ActiveOK`: what serves has a Run behind each active turn, and recovery has listed each of them.

`EditsAreKept` and `EndsAreKept` are about steps: every database a plan may leave keeps titles, archives
and ended replies (`PlanKeeps`), so every step does (`StepKeeps`).

`RunPolicyProofs` is about functions, for all texts, tools, definitions, settings and options, from
`UnsetAssumption` (`undefined` is no value) and `TextAssumption` (`trim` is idempotent, and a URL
is parsed the same with blanks around it).

- Accepted once, accepted again: `ManifestIsTaken`, `RegistryReadsBack`, `SettingsReadBack`,
  `DefaultAgentsAreWellFormed`. Three validations in three files check the same values; these say
  that no value passes one and fails the next, or keeps the Node from starting.
- No more than allowed: `OptionsKeepToTheAgent`; `DangerNeedsBothSwitches`, from which follow
  `UnaskedIsOrdinary` and `HostIsAskedFor`; `ClaudeKeepsToTheTools`, `ReadOnlyStaysReadOnly`.
- Limits and the timer: `OwnLimitFitsTheTimer`, `DefaultLimitMayNotFit`.

`RunPolicyChecks` has the same statements over small sets; TLC evaluates them whenever
`run_provisioning` starts.

Only model-checked:

- `EveryRunSettles`, `OutboxDrains` and `TurnsEnd`. Liveness is out of the prover's reach, as
  is anything with ENABLED.

## 6. Not modelled

- *Artifact synchronisation* (`core-transport.ts`, `artifact_sync`): the offer, authorisation and
  upload of files. It is the next module of the plan. Reading it showed three things. The transport
  notices changed Core settings at its reconcile timer (3 s), but `setArtifactSync` writes the
  `coreUrl` of the settings into the record: an upload that the old Core completes after the change
  counts as known to the new one, which never gets it, although the protocol (:432-438) wants
  artifacts offered again to another Core. `acknowledgeSourceMessage` does not look at the status
  of an acknowledgement, so a rejected one counts too (:445-447). And any message of an artifact
  that is acknowledged while it uploads marks it synced (:454-455), from a copy of its record.
- Steps of modelled parts that are left out or made one: a welcome whose handler fails
  (`core-transport.ts:262,274`: the Node answers `message.error` and keeps the socket without timers, so
  what is queued waits for the next connection; `OutboxDrains` assumes that it does not fail); frames an
  old socket may still deliver while it closes (`Connect` drops them); the check of supported
  decisions (`run-manager.ts:872`; `Decide` allows more than the code); the read of a record and its
  check in `cancel` are one step; two engine events in one chunk of output with the synchronous
  store (the yielding store has them); and a statement of the replay loop of `sendMessage`
  that fails (`conversation-service.ts:164`), as all failing statements there.
- *HTTP server and console*: the routes that change configuration are the requests of
  `Provisioning`; the others parse and call what is modelled. Event streams and assets are not.
- *Configuration, data layout, identity, observability*: read at start, or read only.
- *Sessions, artifacts of Runs, pruning of history* in RunManager; git worktrees and copies in
  WorkspaceManager; the wire protocols of the engines.
- The content of packages (slugs, paths, sizes, hashes), `ensureMinimumAgents`, and the command line
  as a second process.

## 7. Plan

1. `RunLifecycle`, `RunContract` and their proofs (done).
2. `Approvals` and its proofs (done).
3. `CoreLink` and its proofs (done: the link itself and `run.create`). Left: an abstract form,
   at-least-once delivery to Core and commands executed once, with the refinement.
4. `Conversations` and its proofs (done).
5. `Requests`, `Engines`, `Agents`, `Provisioning` and their proofs (done).
6. `RunPolicy` and its proofs (done).
7. Artifact synchronisation, with the settings that may change.
