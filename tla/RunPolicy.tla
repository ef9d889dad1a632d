------------------------------ MODULE RunPolicy ------------------------------
(***************************************************************************)
(* What a Run may do: how a manifest becomes the definition of an Agent    *)
(* (agent-package.ts), which definitions FileAgentRegistry takes and reads *)
(* back, which settings FileSettingsStore takes, what of the options a Run *)
(* asks for RunManager grants, what the engines get of it, and which of    *)
(* their requests pass without a person being asked.                       *)
(*                                                                         *)
(* These are functions: no state.  An optional value that is not given is  *)
(* Unset.  Texts are known by what trim() makes of them, URLs by what they *)
(* parse to, ids by their length.                                          *)
(***************************************************************************)
EXTENDS Integers, Sequences

CONSTANTS
    Unset,
    Texts, Empty, Trimmed,     \* String.prototype.trim
    UrlOf,                     \* new URL: scheme ("none" of what it refuses) and host
    HostTools                  \* the tools by which OpenClaw runs commands on the host

EngineTypes      == {"claude-code", "codex", "openclaw"}
Strategies       == {"persistent", "per-run", "scratch"}
AccessModes      == {"read-only", "workspace-write"}
ApprovalPolicies == {"strict", "workspace", "unrestricted"}
Modalities       == {"text", "image", "audio", "video"}
Sandboxes        == {"read-only", "workspace-write", "danger-full-access"}

ASSUME UnsetAssumption ==
    /\ Unset \notin EngineTypes /\ Unset \notin ApprovalPolicies /\ Unset \notin BOOLEAN
    /\ \A S \in SUBSET Modalities : Unset # S
    /\ Unset \notin [strategy : Strategies, access : AccessModes]
ASSUME TextAssumption ==
    /\ Empty \in Texts
    /\ Trimmed \in [Texts -> Texts] /\ Trimmed[Empty] = Empty
    /\ \A t \in Texts : Trimmed[Trimmed[t]] = Trimmed[t]
    /\ \A t \in Texts : UrlOf[t].scheme # "none" => UrlOf[Trimmed[t]] = UrlOf[t]
    /\ UrlOf[Empty].scheme = "none"
    /\ HostTools \subseteq Texts

Optional(S) == S \cup {Unset}
OrElse(value, default) == IF value = Unset THEN default ELSE value
\* What an if takes for given: an empty text is not, although ?? keeps it.
IsGiven(value) == value # Unset /\ value # Empty
IsBlank(text) == Trimmed[text] = Empty

-----------------------------------------------------------------------------
(* Definitions of Agents: FileAgentRegistry *)

\* What upsert is called with
Inputs == [id : Nat, name : Texts, source : Optional(Texts), engine : STRING,
           enabled : Optional(BOOLEAN), workspace : [strategy : STRING, access : STRING],
           concurrency : Optional(Int), modalities : Optional(SUBSET STRING),
           tools : Optional(SUBSET Texts), approval : Optional(STRING), danger : Optional(BOOLEAN)]

RegistryId(length) == length \in 2..64

\* WorkspaceManager.acquire: the workspace of a Run of this Agent can be written.
IsWritable(agent) == agent.workspace.access = "workspace-write"

\* validateNormalized
WellFormed(a) ==
    /\ RegistryId(a.id)
    /\ a.engine \in EngineTypes
    /\ a.workspace.strategy \in Strategies /\ a.workspace.access \in AccessModes
    /\ IsGiven(a.approval) => a.approval \in ApprovalPolicies
    /\ a.approval = "unrestricted" => a.danger = TRUE /\ IsWritable(a)
    /\ a.concurrency \in Nat \ {0}
    /\ a.modalities # {} /\ a.modalities \subseteq Modalities

\* upsert: previous is the definition there is, or Unset.
Upserted(input, previous) ==
    [input EXCEPT
        !.name        = Trimmed[@],
        !.enabled     = OrElse(@, TRUE),
        !.concurrency = OrElse(@, 1),
        !.modalities  = OrElse(@, IF previous = Unset THEN {"text"} ELSE previous.modalities),
        !.approval    = OrElse(@, "workspace"),
        !.danger      = OrElse(@, FALSE)]

Upserts(input, previous) ==
    /\ ~IsBlank(input.name)
    /\ input.source = Unset \/ ~IsBlank(input.source)
    /\ WellFormed(Upserted(input, previous))

\* migrateWorkspace
Migrated(mode) ==
    CASE mode = "shared-readonly"    -> [strategy |-> "persistent", access |-> "read-only"]
      [] mode = "ephemeral-worktree" -> [strategy |-> "per-run", access |-> "workspace-write"]
      [] mode = "scratch"            -> [strategy |-> "scratch", access |-> "workspace-write"]
      [] OTHER                       -> [strategy |-> "persistent", access |-> "workspace-write"]

\* normalize, but for a missing id or name: mode is the workspaceMode of older versions.
ReadBack(value, mode) ==
    [value EXCEPT
        !.engine      = OrElse(@, "claude-code"),
        !.enabled     = OrElse(@, TRUE),
        !.workspace   = OrElse(@, Migrated(mode)),
        !.concurrency = OrElse(@, 1),
        !.modalities  = OrElse(@, {"text"}),
        !.approval    = OrElse(@, "workspace"),
        !.danger      = OrElse(@, FALSE)]

\* createDefaultAgent: what differs between the variants of an engine
DefaultVariants(engine) ==
    CASE engine = "codex" -> {[access |-> "workspace-write", tools |-> Unset]}
      [] engine = "openclaw" -> {[access |-> m, tools |-> Unset] : m \in AccessModes}
      [] engine = "claude-code" ->
            LET reading == {"Read", "Grep", "Glob"}
            IN  {[access |-> "read-only", tools |-> reading],
                 [access |-> "workspace-write", tools |-> reading \cup {"Write", "Edit", "Bash"}]}

DefaultAgent(engine, variant, id, name) ==
    [id |-> id, name |-> name, source |-> Unset, engine |-> engine, enabled |-> TRUE,
     workspace |-> [strategy |-> "persistent", access |-> variant.access], concurrency |-> 1,
     modalities |-> {"text"}, tools |-> variant.tools, approval |-> "workspace", danger |-> FALSE]

-----------------------------------------------------------------------------
(* Manifests: agent-package.ts *)

Manifests == [name : Texts, engine : STRING, strategy : Optional(STRING), access : Optional(STRING),
              concurrency : Optional(Int), modalities : Optional(SUBSET STRING),
              skills : Optional(Seq([name : STRING, path : STRING])),
              tools : Optional(SUBSET Texts), approval : Optional(STRING),
              danger : Optional(BOOLEAN)]

\* validateAgentManifest: what it refuses, but for the forms of slugs and paths
ManifestOK(m) ==
    /\ ~IsBlank(m.name)
    /\ m.engine \in EngineTypes
    /\ OrElse(m.strategy, "persistent") \in Strategies
    /\ OrElse(m.access, "workspace-write") \in AccessModes
    /\ OrElse(m.approval, "workspace") \in ApprovalPolicies
    /\ m.approval = "unrestricted" =>
          m.danger = TRUE /\ OrElse(m.access, "workspace-write") = "workspace-write"
    /\ OrElse(m.concurrency, 1) \in 1..32
    /\ OrElse(m.modalities, {"text"}) # {} /\ OrElse(m.modalities, {"text"}) \subseteq Modalities
    /\ m.skills = Unset \/ \A i, j \in DOMAIN m.skills : m.skills[i].name = m.skills[j].name => i = j
    /\ m.tools = Unset \/ \A t \in m.tools : ~IsBlank(t)

\* validateAgentManifest: what it returns
Checked(m) ==
    [m EXCEPT
        !.name        = Trimmed[@],
        !.strategy    = OrElse(@, "persistent"),
        !.access      = OrElse(@, "workspace-write"),
        !.approval    = OrElse(@, "workspace"),
        !.danger      = (@ = TRUE),
        !.concurrency = OrElse(@, 1),
        !.modalities  = OrElse(@, {"text"}),
        !.tools       = IF @ = Unset THEN Unset ELSE {Trimmed[t] : t \in @}]

\* validateStorageId: longer than what the registry takes
StorageId(length) == length \in 2..80

\* AgentPackageManager.activate: what it upserts for a stored manifest
ActivatedAs(m, id, previous) ==
    [id |-> id, name |-> m.name, engine |-> m.engine,
     source |-> IF previous = Unset THEN Unset ELSE previous.source,
     enabled |-> IF previous = Unset THEN TRUE ELSE previous.enabled,
     workspace |-> [strategy |-> m.strategy, access |-> m.access], concurrency |-> m.concurrency,
     modalities |-> m.modalities, tools |-> m.tools, approval |-> m.approval, danger |-> m.danger]

-----------------------------------------------------------------------------
(* Settings: FileSettingsStore.validate, but for the form of nodeId; Empty is a url or token *)
(* not given *)

PrivateHost(h) ==
    CASE h.kind = "v4" -> \/ h.first \in {10, 127}
                          \/ h.first = 172 /\ h.second \in 16..31
                          \/ h.first = 192 /\ h.second = 168
      [] h.kind \in {"name", "v6"} -> h.local

CoreUrlOK(url, allowInsecure) ==
    /\ url.scheme \in {"http", "https", "ws", "wss"}
    /\ url.scheme \in {"http", "ws"} => PrivateHost(url.host) \/ allowInsecure

SettingsOK(s, allowInsecure) ==
    /\ ~IsBlank(s.nodeName)
    /\ s.defaultTimeoutMs \in Nat /\ s.defaultTimeoutMs >= 1000
    /\ s.maxConcurrentRuns \in Nat \ {0} /\ s.eventRetentionDays \in Nat \ {0}
    /\ s.coreEnabled => ~IsBlank(s.coreUrl) /\ ~IsBlank(s.coreToken)
    /\ s.coreUrl # Empty => CoreUrlOK(UrlOf[s.coreUrl], allowInsecure)

SettingsKept(s) ==
    [s EXCEPT !.nodeName = Trimmed[@], !.coreUrl = Trimmed[@], !.coreToken = Trimmed[@]]

-----------------------------------------------------------------------------
(* Options of a Run: RunManager *)

SevenDays == 604800000

\* validateInput, but for the source and for limits in fractions of a millisecond
InputOK(input, artifactLimit) ==
    /\ ~IsBlank(input.prompt)
    /\ input.timeoutMs # Unset =>
          input.timeoutMs \in Nat /\ 0 < input.timeoutMs /\ input.timeoutMs <= SevenDays
    /\ input.class \in {Unset, "interactive", "batch", "media"}
    /\ input.maxOutputBytes = Unset \/ input.maxOutputBytes \in 1..artifactLimit

DangerAllowed(agent, settings) ==
    settings.allowDangerousSandbox /\ agent.danger = TRUE /\ IsWritable(agent)

PolicySandbox(agent, settings) ==
    IF DangerAllowed(agent, settings) THEN "danger-full-access"
    ELSE IF IsWritable(agent) THEN "workspace-write" ELSE "read-only"

SandboxRank  == [s \in Sandboxes |->
    IF s = "read-only" THEN 0 ELSE IF s = "workspace-write" THEN 1 ELSE 2]
ApprovalRank == [p \in ApprovalPolicies |->
    IF p = "strict" THEN 0 ELSE IF p = "workspace" THEN 1 ELSE 2]

ApprovalGranted(asked, agent) == OrElse(asked.approval, OrElse(agent.approval, "workspace"))

\* effectiveRunOptions does not throw.  A sandbox it does not know exceeds nothing, and an
\* Agent's policy that is an empty text bounds nothing.
IsGranted(asked, agent, settings) ==
    /\ asked.sandbox \in Sandboxes =>
          SandboxRank[asked.sandbox] <= SandboxRank[PolicySandbox(agent, settings)]
    /\ asked.permissionMode = "bypassPermissions" => DangerAllowed(agent, settings)
    /\ IsGiven(asked.approval) =>
          /\ asked.approval \in ApprovalPolicies
          /\ OrElse(agent.approval, "workspace") \in ApprovalPolicies =>
                ApprovalRank[asked.approval] <= ApprovalRank[OrElse(agent.approval, "workspace")]
    /\ ApprovalGranted(asked, agent) = "unrestricted" => DangerAllowed(agent, settings)
    /\ asked.tools # Unset /\ agent.tools # Unset => asked.tools \subseteq agent.tools

\* effectiveRunOptions: what it returns
Options(asked, agent, settings) ==
    [sandbox        |-> OrElse(asked.sandbox, PolicySandbox(agent, settings)),
     approval       |-> ApprovalGranted(asked, agent),
     permissionMode |-> asked.permissionMode,
     tools          |-> OrElse(asked.tools, agent.tools),
     timeoutMs      |-> OrElse(asked.timeoutMs, settings.defaultTimeoutMs)]

\* setTimeout keeps its delay in 32 bits, and takes 1 for what does not fit.
TimerDelay(ms) == IF 1 <= ms /\ ms <= 2147483647 THEN ms ELSE 1

-----------------------------------------------------------------------------
(* What the engines get: the adapters *)

\* CodexAdapter.sandboxPolicy
CodexSandbox(options) ==
    IF options.sandbox = "danger-full-access" THEN "dangerFullAccess"
    ELSE IF options.sandbox = "workspace-write" THEN "workspaceWrite" ELSE "readOnly"

\* ClaudeCodeAdapter.buildArgs: --permission-mode and --tools
ClaudeArgs(options) ==
    [permissionMode |-> OrElse(options.permissionMode, "dontAsk"),
     tools          |-> OrElse(options.tools, {})]

\* OpenClawAdapter.execute: it asks before it starts the engine.
AsksForHost(options) ==
    \/ options.sandbox = "danger-full-access"
    \/ options.tools # Unset /\ options.tools \cap HostTools # {}

\* OpenClawAdapter.buildConfig
OpenClawTools(options, approved) ==
    [exec |-> IF approved THEN "full" ELSE "deny",
     deny |-> IF options.sandbox = "read-only"
              THEN {"group:runtime", "write", "edit", "apply_patch"}
              ELSE IF approved THEN {} ELSE {"exec", "process", "code_execution"}]

\* automaticApprovalDecision allows a request.  inside: its directory and all its paths are in
\* the workspace; command: what the patterns make of it, HIGH_RISK_COMMANDS first.
LetsThrough(options, agent, request) ==
    \/ options.approval = "unrestricted"
    \/ /\ options.approval # "strict"
       /\ request.inside
       /\ \/ request.kind = "file_change" /\ IsWritable(agent)
          \/ /\ request.kind = "command"
             /\ \/ request.command = "reading"
                \/ request.command = "other" /\ IsWritable(agent)
          \/ request.kind = "tool" /\ request.readingTool

HostRequest == [kind |-> "permission", inside |-> TRUE, command |-> "none", readingTool |-> FALSE]

\* How an execution of OpenClaw may go: decision is what a person would say.
HostApproved(options, agent, decision) ==
    AsksForHost(options) /\ (LetsThrough(options, agent, HostRequest) \/ decision # "deny")

-----------------------------------------------------------------------------
(* What the theorems speak of *)

\* No more than the Agent's policy
OptionsWithin(options, agent, settings) ==
    /\ options.sandbox \in Sandboxes =>
          SandboxRank[options.sandbox] <= SandboxRank[PolicySandbox(agent, settings)]
    /\ options.approval \in ApprovalPolicies
    /\ ApprovalRank[options.approval] <= ApprovalRank[OrElse(agent.approval, "workspace")]
    /\ agent.tools # Unset => options.tools \subseteq agent.tools

\* What needs the switch of the Node and that of the Agent
IsDangerous(options) ==
    \/ options.sandbox = "danger-full-access" \/ options.approval = "unrestricted"
    \/ options.permissionMode = "bypassPermissions"

\* "Ordinary reads, writes and development commands within the workspace" (README)
IsOrdinary(request, agent) ==
    /\ request.inside
    /\ request.kind \in {"file_change", "command", "tool"}
    /\ request.kind = "file_change" => IsWritable(agent)
    /\ request.kind = "command" => \/ request.command = "reading"
                                   \/ request.command = "other" /\ IsWritable(agent)
    /\ request.kind = "tool" => request.readingTool
=============================================================================
