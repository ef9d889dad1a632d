----------------------------- MODULE Provisioning -----------------------------
(***************************************************************************)
(* The configuration of a Node and the Runs that use it: the managed       *)
(* engines (Engines), the Agents with their packages (Agents), the         *)
(* settings (FileSettingsStore), and RunManager.create.  Requests overlap  *)
(* at every await; a write can fail, and the process can end anywhere.     *)
(***************************************************************************)
EXTENDS Engines, Agents

CONSTANTS Settings    \* what can be set, once each

VARIABLES
    settings, settingsFile,   \* the settings that are not their defaults
    toldSettings              \* history: those that were ever saved

settingsVars == <<settings, settingsFile, toldSettings>>
vars == <<req, run, up, crashes, failures, overlapped, engineVars, agentVars, settingsVars>>

Node == "node"        \* what a change of the settings is a request for

\* The Agents are plain or have one revision, and may have run; at most one engine is installed.
Init ==
    /\ req = [q \in Requests |-> NoRequest]
    /\ run = [x \in Runs |-> NoRun]
    /\ up = TRUE /\ crashes = 0 /\ failures = 0 /\ overlapped = FALSE
    /\ \E there \in {{}} \cup {{e} : e \in EngineIds}, v \in Versions :
          /\ disk = [e \in EngineIds |-> IF e \in there THEN {v} ELSE {}]
          /\ engines = [e \in EngineIds |-> IF e \in there THEN Installed(v, {}) ELSE Absent]
    /\ engineFile = engines
    /\ \E known \in SUBSET AgentIds : \E r \in Revisions \cup {NoRevision} :
          /\ agents = [a \in AgentIds |->
                 IF a \in known
                 THEN Definition(TRUE, r, IF r = NoRevision THEN "body" ELSE "activation") ELSE NoAgent]
          /\ active = [a \in AgentIds |-> IF a \in known THEN r ELSE NoRevision]
    /\ store = [a \in AgentIds |-> {active[a]} \ {NoRevision}] /\ compiled = store
    /\ \E ran \in SUBSET AgentIds : workspace = [a \in AgentIds |-> IF a \in ran THEN active[a] ELSE NoRevision]
    /\ partial = {}
    /\ agentFile = agents /\ told = agents
    /\ settings = {} /\ settingsFile = {} /\ toldSettings = {}

-----------------------------------------------------------------------------
(* RunManager.updateSettings; FileSettingsStore.update: the file, then the memory *)

\* What the request leaves out is what the memory holds when it begins.
UpdateSettings(q, s) ==
    /\ Begins(q, "settings", Node, settings \cup {s}, "saving", settings)
    /\ UNCHANGED settingsVars

SettingsSaved(q) ==
    /\ Steps(q, "saving")
    /\ settingsFile' = req[q].arg /\ settings' = req[q].arg /\ toldSettings' = toldSettings \cup req[q].arg
    /\ req' = [req EXCEPT ![q].at = "pruning"]

SettingsBreak(q) ==
    /\ Breaks(q, "saving")
    /\ Ends(q)
    /\ UNCHANGED settingsVars

\* pruneExpiredHistory, of Runs that are over
Pruned(q) == Steps(q, "pruning") /\ Ends(q) /\ UNCHANGED settingsVars

\* An error, although the settings are saved
PruneBreaks(q) == Breaks(q, "pruning") /\ Ends(q) /\ UNCHANGED settingsVars

-----------------------------------------------------------------------------
(* RunManager.create *)

unrequested == <<req, failures, overlapped>>

\* The Agent and its engine are looked at, and the slot taken, before the first await.
\* Which engine the Agent names is left open: a PUT may change it at any time.
CreateRun(x, a, e) ==
    /\ up /\ run[x].at = "none"
    /\ agents[a] # NoAgent /\ agents[a].on
    /\ engines[e].on
    /\ ~Running(a)
    /\ run' = [run EXCEPT ![x] = [at |-> "preparing", agent |-> a, def |-> agents[a], engine |-> e]]
    /\ UNCHANGED <<unrequested, up, crashes, engineVars, agentVars, settingsVars>>

\* materialize copies the revision the Run was created with, if it is there.
Prepared(x) ==
    /\ up /\ run[x].at = "preparing"
    /\ LET a == run[x].agent  r == run[x].def.rev
       IN  IF r \in compiled[a] \cup {NoRevision}
           THEN /\ workspace' = [workspace EXCEPT ![a] = IF r = NoRevision THEN @ ELSE r]
                /\ run' = [run EXCEPT ![x].at = "fetching"]
           ELSE /\ run' = [run EXCEPT ![x] = [at |-> "ended"]]
                /\ UNCHANGED workspace
    /\ UNCHANGED <<unrequested, up, crashes, engineVars, agents, agentFile, store, compiled, active,
                   partial, told, settingsVars>>

\* The files of the compiler are gone, and the copy fails.
PrepareBreaks(x) ==
    /\ up /\ run[x].at = "preparing" /\ run[x].def.rev \in compiled[run[x].agent]
    /\ failures < MaxFailures /\ failures' = failures + 1
    /\ workspace' = [workspace EXCEPT ![run[x].agent] = NoRevision]
    /\ run' = [run EXCEPT ![x] = [at |-> "ended"]]
    /\ UNCHANGED <<req, overlapped, up, crashes, engineVars, agents, agentFile, store, compiled,
                   active, partial, told, settingsVars>>

\* Its input artifacts are downloaded, or there are none.
InputsTaken(x) ==
    /\ up /\ run[x].at = "fetching"
    /\ run' = [run EXCEPT ![x].at = "active"]
    /\ UNCHANGED <<unrequested, up, crashes, engineVars, agentVars, settingsVars>>

\* One cannot be had, or is not what was declared: the Run is not created.
InputsBreak(x) ==
    /\ up /\ run[x].at = "fetching"
    /\ run' = [run EXCEPT ![x] = [at |-> "ended"]]
    /\ UNCHANGED <<unrequested, up, crashes, engineVars, agentVars, settingsVars>>

RunEnds(x) ==
    /\ up /\ run[x].at = "active"
    /\ run' = [run EXCEPT ![x] = [at |-> "ended"]]
    /\ UNCHANGED <<unrequested, up, crashes, engineVars, agentVars, settingsVars>>

-----------------------------------------------------------------------------
(* The process ends and is started again *)

Crash ==
    /\ up /\ crashes < MaxCrashes
    /\ up' = FALSE /\ crashes' = crashes + 1
    /\ EnginesCrash /\ AgentsCrash
    /\ UNCHANGED <<unrequested, run, settingsVars>>

Restart ==
    /\ ~up /\ up' = TRUE
    /\ EnginesRestart /\ AgentsRestart
    /\ settings' = settingsFile
    /\ toldSettings' = IF On(Node) # {} THEN settingsFile ELSE toldSettings
    /\ req' = [q \in Requests |-> IF Handled(q) THEN [at |-> "done"] ELSE req[q]]
    /\ run' = [x \in Runs |-> IF run[x].at = "none" THEN NoRun ELSE [at |-> "ended"]]
    /\ UNCHANGED <<crashes, failures, overlapped, settingsFile>>

EngineRequest(q) ==
    /\ EngineStep(q) \/ \E e \in EngineIds : EngineAsked(q, e)
    /\ UNCHANGED <<shared, agentVars, settingsVars>>

AgentRequest(q) ==
    /\ AgentStep(q) \/ \E a \in AgentIds : AgentAsked(q, a)
    /\ UNCHANGED <<shared, engineVars, settingsVars>>

SettingsRequest(q) ==
    /\ \/ SettingsSaved(q) \/ SettingsBreak(q) \/ Pruned(q) \/ PruneBreaks(q)
       \/ \E s \in Settings : UpdateSettings(q, s)
    /\ UNCHANGED <<shared, engineVars, agentVars>>

Next ==
    \/ \E q \in Requests : EngineRequest(q) \/ AgentRequest(q) \/ SettingsRequest(q)
    \/ \E x \in Runs :
          \/ Prepared(x) \/ PrepareBreaks(x) \/ InputsTaken(x) \/ InputsBreak(x) \/ RunEnds(x)
          \/ \E a \in AgentIds, e \in EngineIds : CreateRun(x, a, e)
    \/ Crash \/ Restart

Spec == Init /\ [][Next]_vars

-----------------------------------------------------------------------------
(* Properties *)

\* Values have their types, and the version an engine runs is one of those it lists
\* (EngineManager.normalizeState drops what it cannot read).
ProvisioningTypeOK ==
    /\ engines \in [EngineIds -> [on : BOOLEAN,
           status : {"absent", "installing", "updating", "installed", "disabled", "failed"},
           version : Versions \cup {NoVersion}, versions : SUBSET Versions]]
    /\ \A e \in EngineIds : engines[e].version \in engines[e].versions \cup {NoVersion}
    /\ disk \in [EngineIds -> SUBSET Versions]
    /\ agents \in [AgentIds -> Defs \cup {NoAgent}] /\ agentFile \in [AgentIds -> Defs \cup {NoAgent}]
    /\ store \in [AgentIds -> SUBSET Revisions] /\ compiled \in [AgentIds -> SUBSET Revisions]
    /\ settings \subseteq Settings /\ settingsFile \subseteq Settings

Runnable(e) == engines[e].version \in disk[e]

\* Also after the next start, which reads the file
Usable(e) == {engines[e].version, engineFile[e].version} \subseteq disk[e]

\* An engine that can be run stays one that can be run, whatever fails and whenever the process
\* ends, unless it is uninstalled or a version it runs, or would run after a start, is being
\* installed again (EngineManager.install keeps the other versions; two operations that overlap
\* may lose one).
KeepsUsable ==
    [][\A e \in EngineIds :
          /\ Usable(e) /\ ~overlapped'
          /\ ~\E q \in On(e) :
                \/ req[q].kind = "uninstall"
                \/ req[q].kind = "install" /\ req[q].arg \in {engines[e].version, engineFile[e].version}
          => Usable(e)']_vars

\* What an operation or a start of the process says is installed has its executable there,
\* except that enabling an engine does not look (EngineManager.setEnabled, init).
HonestStatus ==
    [][\A e \in EngineIds :
          /\ engines'[e] # engines[e] \/ (~up /\ up')
          /\ engines'[e].status = "installed"
          /\ ~\E q \in On(e)' : req'[q].kind = "enable"
          => Runnable(e)']_vars

\* An engine says it is being installed only while it is: an installation the end of the
\* process cut short shows as failed (EngineManager.normalizeState).
InterruptedIsMarked ==
    \A e \in EngineIds :
        up /\ failures = 0 /\ engines[e].status \in {"installing", "updating"}
        => \E q \in On(e) : req[q].kind = "install"

\* Enabled or disabled, and the version run: what an operation made of an engine stays until
\* the next one, over the end of the process too (EngineManager.update, init).
EnginesPersist ==
    [][\A e \in EngineIds :
          On(e) = {} /\ On(e)' = {} /\ ~overlapped' /\ failures = 0
          => engines'[e].on = engines[e].on /\ engines'[e].version = engines[e].version]_vars

\* Requests that did not overlap, and of which one write at most failed
Orderly == ~overlapped /\ failures < 2
Idle    == up /\ InFlight = {}

\* The Agents and the settings are what the requests made of them, whatever failed since and over
\* the end of the process.  A request that answered an error left nothing, with two exceptions:
\* an Agent whose directory could not be removed is deleted, and settings after which pruning
\* failed are saved (FileAgentRegistry.upsert, delete; RunManager.deleteAgent, updateSettings).
AnswersHold == Idle /\ Orderly => agents = told /\ settings = toldSettings

FromActivation(def) == def # NoAgent /\ def.by = "activation"

\* "Activation is atomic": an Agent names the revision its active.json names, activations that
\* failed included, as long as the process did not end and no PUT has given the Agent another,
\* which moves the registry alone (AgentPackageManager.activate).
AtomicActivation ==
    Idle /\ Orderly /\ crashes = 0 =>
        \A a \in AgentIds : FromActivation(agents[a]) => agents[a].rev = active[a]

\* The revision an activation gave an Agent is there to be read at every await, undone
\* activations, deletions that fail and PUTs that keep it included, and to be copied to a
\* workspace unless a removal has left a part of the directory; what a PUT names need not be
\* there (AgentPackageManager.deploy, RunManager.deleteAgent).
NamesExist ==
    up /\ ~overlapped =>
        \A a \in AgentIds : FromActivation(agents[a]) =>
            /\ agents[a].rev \in store[a]
            /\ a \notin partial => agents[a].rev \in compiled[a]

\* A Run works on the files of the revision it was created with, whatever is activated, saved
\* or deleted meanwhile; one without a revision on none, unless a PUT has taken the revision from
\* its Agent, or a deletion or an activation failed or was cut short before (RunManager.create,
\* deleteAgent).
RunMatches ==
    ~overlapped => \A x \in Runs : run[x].at \in {"fetching", "active"} =>
        \/ workspace[run[x].agent] = run[x].def.rev
        \/ run[x].def.rev = NoRevision /\ (run[x].def.by = "cleared" \/ crashes + failures > 0)
=============================================================================
