--------------------------- MODULE RunPolicyChecks ---------------------------
(***************************************************************************)
(* What RunPolicyProofs proves of RunPolicy, evaluated over small sets of  *)
(* manifests, definitions, settings and options.                           *)
(***************************************************************************)
EXTENDS RunPolicy

SomeManifests ==
    [name : {"a", " a", " "}, engine : {"codex", "other"}, strategy : {Unset, "scratch", "other"},
     access : Optional(AccessModes), concurrency : {Unset, 0, 1, 33},
     modalities : {Unset, {}, {"text", "audio"}}, skills : {Unset},
     tools : {Unset, {" a"}, {" "}}, approval : Optional(ApprovalPolicies), danger : Optional(BOOLEAN)]

SomeAgents ==
    {[DefaultAgent("codex", [access |-> m, tools |-> t], 20, "a") EXCEPT !.approval = p, !.danger = d] :
        m \in AccessModes, t \in {Unset, {}, {"a"}}, p \in Optional(ApprovalPolicies), d \in BOOLEAN}

SomeOptions ==
    [sandbox : Sandboxes \cup {Unset, "other"}, approval : ApprovalPolicies \cup {Unset, Empty, "other"},
     permissionMode : {Unset, "plan", "bypassPermissions"}, tools : {Unset, {}, {"a"}, {"exec"}},
     timeoutMs : {Unset, SevenDays}]

SomeSettings == [allowDangerousSandbox : BOOLEAN, defaultTimeoutMs : {1000}]

SomeRequests ==
    [kind : {"command", "file_change", "network", "tool", "permission"}, inside : BOOLEAN,
     command : {"none", "reading", "risky", "other"}, readingTool : BOOLEAN]

\* The Runs that are created: options asked for, an Agent the registry has, settings
Created(Holds(_, _, _)) ==
    \A agent \in {a \in SomeAgents : WellFormed(a)}, settings \in SomeSettings, asked \in SomeOptions :
        IsGranted(asked, agent, settings) => Holds(asked, agent, settings)

\* Theorems ManifestIsTaken and RegistryReadsBack
ASSUME ManifestsAreTaken ==
    \A m \in {n \in SomeManifests : ManifestOK(n)} :
        LET input == ActivatedAs(Checked(m), 20, Unset)
        IN  /\ Upserts(input, Unset)
            /\ ReadBack(Upserted(input, Unset), Unset) = Upserted(input, Unset)

\* Theorem SettingsReadBack
ASSUME SettingsAreReadBack ==
    \A allowInsecure \in BOOLEAN :
        \A s \in [nodeName : Texts, coreUrl : Texts, coreToken : Texts, coreEnabled : BOOLEAN,
                  defaultTimeoutMs : {999, 1000}, maxConcurrentRuns : {0, 1}, eventRetentionDays : {1}] :
            SettingsOK(s, allowInsecure) =>
                SettingsOK(SettingsKept(s), allowInsecure) /\ SettingsKept(SettingsKept(s)) = SettingsKept(s)

\* Theorem OptionsKeepToTheAgent
ASSUME OptionsKeep ==
    LET Holds(asked, agent, settings) ==
            asked.approval # Empty => OptionsWithin(Options(asked, agent, settings), agent, settings)
    IN  Created(Holds)

\* Theorem DangerNeedsBothSwitches
ASSUME DangerIsAllowed ==
    LET Holds(asked, agent, settings) ==
            IsDangerous(Options(asked, agent, settings)) => DangerAllowed(agent, settings)
    IN  Created(Holds)

\* Theorems UnaskedIsOrdinary and HostIsAskedFor
ASSUME UnaskedStaysOrdinary ==
    LET Holds(asked, agent, settings) ==
            LET options == Options(asked, agent, settings)
            IN  ~DangerAllowed(agent, settings) =>
                    /\ \A q \in SomeRequests : LetsThrough(options, agent, q) => IsOrdinary(q, agent)
                    /\ ~HostApproved(options, agent, "deny")
    IN  Created(Holds)
=============================================================================
