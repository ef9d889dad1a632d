--------------------------- MODULE RunPolicyProofs ---------------------------
(***************************************************************************)
(* What follows from RunPolicy for all texts, tools, definitions, settings *)
(* and options: what one component accepts the next one takes, and a Run   *)
(* gets no more than the Node and its Agent allow.                         *)
(***************************************************************************)
EXTENDS RunPolicy, TLAPS

-----------------------------------------------------------------------------
(* What is accepted is taken and read back *)

\* A manifest that validateAgentManifest accepts makes a definition that the registry accepts:
\* activating a stored revision does not fail for what the manifest says, as long as the id,
\* which a package may have longer, has no more than the 64 characters of the registry and an
\* Agent that is there has a source with a path (AgentPackageManager.deploy, activate,
\* FileAgentRegistry.upsert).
THEOREM ManifestIsTaken ==
    ASSUME NEW m \in Manifests, ManifestOK(m),
           NEW id \in Nat, StorageId(id), id <= 64,
           NEW previous, previous = Unset \/ previous.source = Unset \/ ~IsBlank(previous.source)
    PROVE  Upserts(ActivatedAs(Checked(m), id, previous), previous)
<1> DEFINE c     == Checked(m)
           input == ActivatedAs(c, id, previous)
           agent == Upserted(input, previous)
<1>1. /\ c.name = Trimmed[m.name] /\ c.engine = m.engine
      /\ c.strategy \in Strategies /\ c.access \in AccessModes
      /\ c.approval \in ApprovalPolicies
      /\ c.concurrency \in 1..32
      /\ c.modalities # {} /\ c.modalities \subseteq Modalities
  BY DEF Checked, ManifestOK, Manifests, Optional, OrElse
<1>2. c.approval = "unrestricted" => c.danger = TRUE /\ c.access = "workspace-write"
  BY DEF Checked, ManifestOK, Manifests, Optional, OrElse
<1>3. /\ input.id = id /\ input.name = c.name /\ input.engine = c.engine
      /\ input.workspace = [strategy |-> c.strategy, access |-> c.access]
      /\ input.concurrency = c.concurrency /\ input.modalities = c.modalities
      /\ input.approval = c.approval /\ input.danger = c.danger
  BY DEF ActivatedAs
<1>4. /\ agent.id = input.id /\ agent.engine = input.engine /\ agent.workspace = input.workspace
      /\ agent.concurrency = OrElse(input.concurrency, 1)
      /\ agent.approval = OrElse(input.approval, "workspace")
      /\ agent.danger = OrElse(input.danger, FALSE)
  BY DEF Upserted, ActivatedAs
<1>5. agent.modalities = c.modalities
  <2>1. c.modalities # Unset BY <1>1, UnsetAssumption
  <2> QED BY <2>1, <1>3 DEF Upserted, ActivatedAs, OrElse
<1>6. WellFormed(agent)
  <2>0. RegistryId(id)
    BY SMT DEF StorageId, RegistryId
  <2>1. agent.engine \in EngineTypes /\ RegistryId(agent.id)
    BY <1>1, <1>3, <1>4, <2>0 DEF ManifestOK
  <2>2. agent.workspace.strategy \in Strategies /\ agent.workspace.access = c.access
    BY <1>1, <1>3, <1>4
  <2>3. agent.approval = c.approval
    BY <1>1, <1>3, <1>4, UnsetAssumption DEF OrElse
  <2>4. agent.approval = "unrestricted" => agent.danger = TRUE
    BY <1>2, <1>3, <1>4, <2>3, UnsetAssumption DEF OrElse
  <2>5. agent.concurrency \in 1..32
    BY <1>1, <1>3, <1>4 DEF OrElse
  <2> QED BY <1>1, <1>2, <1>5, <2>1, <2>2, <2>3, <2>4, <2>5 DEF WellFormed, IsWritable
<1>7. ~IsBlank(input.name)
  BY <1>1, TextAssumption DEF ActivatedAs, ManifestOK, IsBlank, Manifests
<1>8. input.source = Unset \/ ~IsBlank(input.source)
  BY DEF ActivatedAs
<1> QED BY <1>6, <1>7, <1>8 DEF Upserts

\* A definition that upsert accepts is accepted at the next start and is read back as it was:
\* the registry never refuses its own file (FileAgentRegistry.init, normalize).
THEOREM RegistryReadsBack ==
    ASSUME NEW input \in Inputs, NEW previous, NEW mode, Upserts(input, previous)
    PROVE  LET agent == Upserted(input, previous)
           IN  ReadBack(agent, mode) = agent /\ WellFormed(ReadBack(agent, mode))
<1> DEFINE agent == Upserted(input, previous)
<1>1. WellFormed(agent) BY DEF Upserts
<1>2. agent.engine # Unset BY <1>1, UnsetAssumption DEF WellFormed
<1>3. agent.workspace # Unset
  <2>1. agent.workspace \in [strategy : STRING, access : STRING]
    BY DEF Upserted, Inputs
  <2>2. agent.workspace \in [strategy : Strategies, access : AccessModes]
    BY <1>1, <2>1 DEF WellFormed
  <2> QED BY <2>2, UnsetAssumption
<1>4. /\ OrElse(agent.enabled, TRUE) = agent.enabled
      /\ OrElse(agent.concurrency, 1) = agent.concurrency
      /\ OrElse(agent.approval, "workspace") = agent.approval
      /\ OrElse(agent.danger, FALSE) = agent.danger
  BY DEF Upserted, Inputs, OrElse
<1>5. agent.modalities # Unset
  BY <1>1, UnsetAssumption DEF WellFormed
<1>6. ReadBack(agent, mode) = agent
  <2>1. ReadBack(agent, mode) =
          [agent EXCEPT !.engine = agent.engine, !.enabled = agent.enabled,
                        !.workspace = agent.workspace, !.concurrency = agent.concurrency,
                        !.modalities = agent.modalities, !.approval = agent.approval,
                        !.danger = agent.danger]
    <3> HIDE DEF agent
    <3> QED BY <1>2, <1>3, <1>4, <1>5 DEF ReadBack, OrElse
  <2>2. agent = [field \in DOMAIN agent |-> agent[field]]
    BY DEF Upserted, Inputs
  <2> QED BY <2>1, <2>2
<1> QED BY <1>1, <1>6

\* The Agents of a first start are such definitions (FileAgentRegistry.createDefaultAgent).
THEOREM DefaultAgentsAreWellFormed ==
    ASSUME NEW engine \in EngineTypes, NEW variant \in DefaultVariants(engine),
           NEW id, RegistryId(id), NEW name
    PROVE  WellFormed(DefaultAgent(engine, variant, id, name))
<1>1. variant.access \in AccessModes
  BY DEF DefaultVariants, EngineTypes, AccessModes
<1> QED BY <1>1 DEF WellFormed, DefaultAgent, Strategies, ApprovalPolicies, Modalities, IsWritable

\* Settings that were saved are accepted at the next start and are read back as they were, in
\* the same environment: saving them never keeps the Node from starting
\* (FileSettingsStore.update, init).
THEOREM SettingsReadBack ==
    ASSUME NEW allowInsecure \in BOOLEAN,
           NEW s \in [nodeName : Texts, coreUrl : Texts, coreToken : Texts, coreEnabled : BOOLEAN,
                      defaultTimeoutMs : Int, maxConcurrentRuns : Int, eventRetentionDays : Int],
           SettingsOK(s, allowInsecure)
    PROVE  /\ SettingsOK(SettingsKept(s), allowInsecure)
           /\ SettingsKept(SettingsKept(s)) = SettingsKept(s)
<1> DEFINE k == SettingsKept(s)
<1>1. /\ k.nodeName = Trimmed[s.nodeName] /\ k.coreUrl = Trimmed[s.coreUrl]
      /\ k.coreToken = Trimmed[s.coreToken] /\ k.coreEnabled = s.coreEnabled
      /\ k.defaultTimeoutMs = s.defaultTimeoutMs /\ k.maxConcurrentRuns = s.maxConcurrentRuns
      /\ k.eventRetentionDays = s.eventRetentionDays
  BY DEF SettingsKept
<1>2. \A t \in Texts : IsBlank(Trimmed[t]) <=> IsBlank(t)
  BY TextAssumption DEF IsBlank
<1>3. k.coreUrl # Empty => CoreUrlOK(UrlOf[k.coreUrl], allowInsecure)
  BY <1>1, TextAssumption DEF SettingsOK, CoreUrlOK
<1>4. SettingsOK(k, allowInsecure)
  BY <1>1, <1>2, <1>3 DEF SettingsOK
<1>5. SettingsKept(k) = k
  BY TextAssumption DEF SettingsKept
<1> QED BY <1>4, <1>5

-----------------------------------------------------------------------------
(* A Run gets no more than the Node and its Agent allow *)

\* The switch of the Node, that of the Agent and a writable workspace are what the widest
\* sandbox, the widest approval policy and the widest permission mode need: "otherwise the Run
\* is refused" (README, Agent approval policies; RunManager.effectiveRunOptions).
THEOREM DangerNeedsBothSwitches ==
    ASSUME NEW asked, NEW agent, NEW settings, IsGranted(asked, agent, settings),
           IsDangerous(Options(asked, agent, settings))
    PROVE  DangerAllowed(agent, settings)
<1> DEFINE options == Options(asked, agent, settings)
<1>1. CASE options.sandbox = "danger-full-access"
  <2>1. CASE asked.sandbox = "danger-full-access"
    <3>1. SandboxRank["danger-full-access"] <= SandboxRank[PolicySandbox(agent, settings)]
      BY <2>1 DEF IsGranted, Sandboxes
    <3> QED BY <3>1 DEF SandboxRank, Sandboxes, PolicySandbox
  <2>2. CASE asked.sandbox # "danger-full-access"
    BY <1>1, <2>2 DEF Options, OrElse, PolicySandbox
  <2> QED BY <2>1, <2>2
<1>2. CASE options.approval = "unrestricted"
  BY <1>2 DEF Options, IsGranted
<1>3. CASE options.permissionMode = "bypassPermissions"
  BY <1>3 DEF Options, IsGranted
<1> QED BY <1>1, <1>2, <1>3 DEF IsDangerous

\* A Run may ask for less than its Agent's policy, and gets that; it never gets more: not the
\* sandbox, not the approval policy, not the tools (RunManager.effectiveRunOptions).  An empty
\* text is excluded: the checks take it for not given, and the options keep it.
THEOREM OptionsKeepToTheAgent ==
    ASSUME NEW asked, NEW agent, NEW settings,
           agent.approval \in Optional(ApprovalPolicies), asked.approval # Empty,
           IsGranted(asked, agent, settings)
    PROVE  OptionsWithin(Options(asked, agent, settings), agent, settings)
<1> DEFINE options == Options(asked, agent, settings)
<1>1. options.sandbox \in Sandboxes =>
         SandboxRank[options.sandbox] <= SandboxRank[PolicySandbox(agent, settings)]
  <2>1. PolicySandbox(agent, settings) \in Sandboxes
    BY DEF PolicySandbox, Sandboxes
  <2>2. SandboxRank[PolicySandbox(agent, settings)] \in 0..2
    BY <2>1 DEF SandboxRank, Sandboxes
  <2>3. CASE asked.sandbox = Unset
    BY <2>2, <2>3 DEF Options, OrElse
  <2>4. CASE asked.sandbox # Unset
    BY <2>4 DEF Options, OrElse, IsGranted
  <2> QED BY <2>3, <2>4
<1>2. /\ options.approval \in ApprovalPolicies
      /\ ApprovalRank[options.approval] <= ApprovalRank[OrElse(agent.approval, "workspace")]
  <2> DEFINE policy == OrElse(agent.approval, "workspace")
  <2>1. policy \in ApprovalPolicies
    BY DEF OrElse, Optional, ApprovalPolicies
  <2>2. ApprovalRank[policy] \in 0..2
    BY <2>1 DEF ApprovalRank, ApprovalPolicies
  <2>3. CASE asked.approval = Unset
    BY <2>1, <2>2, <2>3 DEF Options, ApprovalGranted, OrElse
  <2>4. CASE asked.approval # Unset
    BY <2>1, <2>4 DEF Options, ApprovalGranted, OrElse, IsGranted, IsGiven
  <2> QED BY <2>3, <2>4
<1>3. agent.tools # Unset => options.tools \subseteq agent.tools
  BY DEF Options, OrElse, IsGranted
<1> QED BY <1>1, <1>2, <1>3 DEF OptionsWithin

\* What passes without a person being asked is ordinary work in the workspace, and changes
\* nothing in one that is read-only, unless both switches are on (README, the table of the
\* policies; RunManager.automaticApprovalDecision).
THEOREM UnaskedIsOrdinary ==
    ASSUME NEW asked, NEW agent, NEW settings, NEW request,
           IsGranted(asked, agent, settings), ~DangerAllowed(agent, settings),
           LetsThrough(Options(asked, agent, settings), agent, request)
    PROVE  IsOrdinary(request, agent)
<1> DEFINE options == Options(asked, agent, settings)
<1>1. options.approval # "unrestricted"
  BY DangerNeedsBothSwitches DEF IsDangerous
<1> HIDE DEF options
<1> QED BY <1>1 DEF LetsThrough, IsOrdinary, options

\* Claude Code gets no tool its Agent does not list, and none at all where no list says so; the
\* mode that asks nothing needs both switches (ClaudeCodeAdapter.buildArgs).
THEOREM ClaudeKeepsToTheTools ==
    ASSUME NEW asked, NEW agent, NEW settings, IsGranted(asked, agent, settings)
    PROVE  LET args == ClaudeArgs(Options(asked, agent, settings))
           IN  /\ agent.tools # Unset => args.tools \subseteq agent.tools
               /\ asked.tools = Unset /\ agent.tools = Unset => args.tools = {}
               /\ args.permissionMode = "bypassPermissions" => DangerAllowed(agent, settings)
<1> DEFINE options == Options(asked, agent, settings)
           args    == ClaudeArgs(options)
<1>1. agent.tools # Unset => args.tools \subseteq agent.tools
  BY DEF ClaudeArgs, Options, OrElse, IsGranted
<1>2. asked.tools = Unset /\ agent.tools = Unset => args.tools = {}
  BY DEF ClaudeArgs, Options, OrElse
<1>3. args.permissionMode = "bypassPermissions" => DangerAllowed(agent, settings)
  BY DEF ClaudeArgs, Options, OrElse, IsGranted
<1> QED BY <1>1, <1>2, <1>3

\* OpenClaw runs commands on the host only after a person allowed it for this Run, unless both
\* switches are on: a refusal leaves them denied (OpenClawAdapter.execute, buildConfig).
THEOREM HostIsAskedFor ==
    ASSUME NEW asked, NEW agent, NEW settings, NEW decision,
           IsGranted(asked, agent, settings), ~DangerAllowed(agent, settings),
           OpenClawTools(Options(asked, agent, settings),
               HostApproved(Options(asked, agent, settings), agent, decision)).exec = "full"
    PROVE  decision # "deny"
<1> DEFINE options == Options(asked, agent, settings)
<1>1. HostApproved(options, agent, decision)
  BY DEF OpenClawTools
<1>2. ~LetsThrough(options, agent, HostRequest)
  <2>1. ASSUME LetsThrough(options, agent, HostRequest) PROVE IsOrdinary(HostRequest, agent)
    BY <2>1, UnaskedIsOrdinary
  <2> QED BY <2>1 DEF IsOrdinary, HostRequest
<1> QED BY <1>1, <1>2 DEF HostApproved

\* An Agent whose workspace is read-only stays so with every engine that has a sandbox: Codex
\* runs read-only and OpenClaw is denied what writes, whatever a Run asks for among the
\* sandboxes there are (CodexAdapter.sandboxPolicy, OpenClawAdapter.buildConfig).
THEOREM ReadOnlyStaysReadOnly ==
    ASSUME NEW asked, NEW agent, NEW settings, NEW approved \in BOOLEAN,
           asked.sandbox \in Optional(Sandboxes), ~IsWritable(agent),
           IsGranted(asked, agent, settings)
    PROVE  LET options == Options(asked, agent, settings)
           IN  /\ CodexSandbox(options) = "readOnly"
               /\ {"group:runtime", "write", "edit"} \subseteq OpenClawTools(options, approved).deny
<1> DEFINE options == Options(asked, agent, settings)
<1>1. PolicySandbox(agent, settings) = "read-only"
  BY DEF PolicySandbox, DangerAllowed
<1>2. options.sandbox = "read-only"
  <2>1. CASE asked.sandbox = Unset
    BY <1>1, <2>1 DEF Options, OrElse
  <2>2. CASE asked.sandbox # Unset
    <3>1. asked.sandbox \in Sandboxes
      BY <2>2 DEF Optional
    <3>2. SandboxRank[asked.sandbox] <= SandboxRank["read-only"]
      BY <1>1, <3>1 DEF IsGranted
    <3>3. asked.sandbox = "read-only"
      BY <3>1, <3>2 DEF SandboxRank, Sandboxes
    <3> QED BY <2>2, <3>3 DEF Options, OrElse
  <2> QED BY <2>1, <2>2
<1> QED BY <1>2 DEF CodexSandbox, OpenClawTools

\* A delay fits the 32 bits of the timer, or the timer fires after one millisecond.
LEMMA TimerFits ==
    ASSUME NEW ms \in Nat, ms >= 1
    PROVE  TimerDelay(ms) = IF ms <= 2147483647 THEN ms ELSE 1
BY SMT DEF TimerDelay

\* A Run that brings its own time limit is given just that: it fits the timer
\* (RunManager.validateInput, PausableExecutionTimeout).  The limit of the settings has no such
\* bound, see below.
THEOREM OwnLimitFitsTheTimer ==
    ASSUME NEW input, NEW limit, InputOK(input, limit), input.timeoutMs # Unset,
           NEW agent, NEW settings
    PROVE  LET ms == Options(input, agent, settings).timeoutMs
           IN  ms = input.timeoutMs /\ TimerDelay(ms) = ms
<1> DEFINE ms == Options(input, agent, settings).timeoutMs
<1>1. ms = input.timeoutMs
  BY DEF Options, OrElse
<1>2. ms \in Nat /\ ms >= 1 /\ ms <= 2147483647
  BY <1>1, SMT DEF InputOK, SevenDays
<1> HIDE DEF ms
<1>3. TimerDelay(ms) = ms
  BY <1>2, TimerFits, SMT
<1> QED BY <1>1, <1>3 DEF ms

\* The limit of the settings ends a Run at its time only up to 2^31 - 1 ms; beyond, after one
\* (FileSettingsStore.validate, PausableExecutionTimeout).
THEOREM DefaultLimitMayNotFit ==
    ASSUME NEW asked, NEW agent, NEW settings, asked.timeoutMs = Unset,
           settings.defaultTimeoutMs \in Nat, settings.defaultTimeoutMs >= 1000
    PROVE  LET ms == settings.defaultTimeoutMs
           IN  TimerDelay(Options(asked, agent, settings).timeoutMs) =
                   IF ms <= 2147483647 THEN ms ELSE 1
<1> DEFINE ms == settings.defaultTimeoutMs
<1>1. Options(asked, agent, settings).timeoutMs = ms
  BY SMT DEF Options, OrElse
<1>2. ms \in Nat /\ ms >= 1
  BY SMT
<1> HIDE DEF ms
<1>3. TimerDelay(ms) = IF ms <= 2147483647 THEN ms ELSE 1
  BY <1>2, TimerFits, SMT
<1> QED BY <1>1, <1>3, SMT DEF ms
=============================================================================
