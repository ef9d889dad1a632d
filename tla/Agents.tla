-------------------------------- MODULE Agents --------------------------------
(***************************************************************************)
(* FileAgentRegistry and AgentPackageManager behind the guards of          *)
(* RunManager.  The registry is a map in memory and one file, written as a *)
(* whole; the revisions of an Agent, its active.json and its workspace are *)
(* directories of that Agent, which its deletion removes.                  *)
(* writeJsonAtomically either replaces its file or leaves it as it was.    *)
(***************************************************************************)
EXTENDS Requests

CONSTANT NoAgent

\* by is history: what the revision of an Agent, or that it has none, comes from
Origins == {"activation", "body", "cleared"}
Defs    == [on : BOOLEAN, rev : Revisions \cup {NoRevision}, by : Origins]

ASSUME AgentAssumption == NoAgent \notin Defs

VARIABLES
    agents, agentFile,   \* FileAgentRegistry.agents, agents.json
    store,               \* the revision.json files of each Agent
    compiled,            \* the compiled directories of each Agent
    active,              \* the revision active.json names
    workspace,           \* the revision last copied to the persistent workspace
    partial,             \* the Agents of whose directory a removal has left a part
    told                 \* history: the Agents as the requests have left them

agentVars == <<agents, agentFile, store, compiled, active, workspace, partial, told>>

Definition(on, rev, by) == [on |-> on, rev |-> rev, by |-> by]

Asked(q, kind, a, arg, at) ==
    /\ Begins(q, kind, a, arg, at, NoAgent)
    /\ UNCHANGED agentVars

\* What the request has made of the Agent stands, whatever its answer will be.
Commits(q) == told' = [told EXCEPT ![req[q].on] = agents[req[q].on]]

-----------------------------------------------------------------------------
(* FileAgentRegistry *)

\* upsert and delete: the memory now, and the file with what the memory holds now
Registered(q, def) ==
    /\ agents' = [agents EXCEPT ![req[q].on] = def]
    /\ req' = [req EXCEPT ![q].at = "registering", ![q].was = agents[req[q].on], ![q].snap = agents']

AfterRegistry(kind) ==
    CASE kind \in {"deploy", "activateRevision"} -> "marking"
      [] kind = "delete" -> "purging"
      [] kind = "put" -> "answered"

\* A deletion stands from here on, an activation not yet.
RegistryLands(q) ==
    LET next == AfterRegistry(req[q].kind)
    IN  /\ Steps(q, "registering")
        /\ agentFile' = req[q].snap
        /\ IF next = "marking" THEN UNCHANGED told ELSE Commits(q)
        /\ IF next = "answered" THEN Ends(q) ELSE req' = [req EXCEPT ![q].at = next]
        /\ UNCHANGED <<agents, store, compiled, active, workspace, partial>>

\* The catch of AgentPackageManager.activate; now is what the memory holds.
\* Mutant: the activation that failed stays registered.
Undo_Nothing(q, now) == Ends(q) /\ agents' = [agents EXCEPT ![req[q].on] = now]
Undo(q, now) ==
    /\ agents' = [agents EXCEPT ![req[q].on] = req[q].was]
    /\ IF req[q].was = NoAgent /\ now = NoAgent
       THEN Ends(q)
       ELSE req' = [req EXCEPT ![q].at = "undoing", ![q].was = now, ![q].snap = agents']

\* Mutant: the memory keeps what the file does not have.
RegistryBreaks_Kept(q) ==
    /\ Breaks(q, "registering")
    /\ Ends(q)
    /\ UNCHANGED agentVars
RegistryBreaks(q) ==
    /\ Breaks(q, "registering")
    /\ IF AfterRegistry(req[q].kind) = "marking"
       THEN Undo(q, req[q].was)
       ELSE Ends(q) /\ agents' = [agents EXCEPT ![req[q].on] = req[q].was]
    /\ UNCHANGED <<agentFile, store, compiled, active, workspace, partial, told>>

UndoLands(q) ==
    /\ Steps(q, "undoing")
    /\ agentFile' = req[q].snap
    /\ Ends(q)
    /\ UNCHANGED <<agents, store, compiled, active, workspace, partial, told>>

\* The second failure of one request, which MaxFailures does not bound
UndoBreaks(q) ==
    /\ up /\ req[q].at = "undoing"
    /\ failures' = failures + 1 /\ UNCHANGED overlapped
    /\ agents' = [agents EXCEPT ![req[q].on] = req[q].was]
    /\ Ends(q)
    /\ UNCHANGED <<agentFile, store, compiled, active, workspace, partial, told>>

\* The request reaches the registry before its first await.
RegisteredAtOnce(q, kind, a, arg, def) ==
    /\ up /\ req[q].at = "new"
    /\ agents' = [agents EXCEPT ![a] = def]
    /\ req' = [req EXCEPT ![q] = [kind |-> kind, on |-> a, arg |-> arg, at |-> "registering",
                                  was |-> agents[a], save |-> "none", snap |-> agents']]
    /\ overlapped' = (overlapped \/ InFlight # {})
    /\ UNCHANGED <<failures, agentFile, store, compiled, active, workspace, partial, told>>

\* PUT and POST /v1/agents: no guard.  The package of the body is what the Agent names from then
\* on, whether it is there or not; a body may keep it, and one that clears it leaves the files.
Put(q, a, on, rev) ==
    LET was == agents[a]
        by  == IF was # NoAgent /\ was.rev = rev THEN was.by
               ELSE IF was # NoAgent /\ rev = NoRevision THEN "cleared" ELSE "body"
    IN  RegisteredAtOnce(q, "put", a, NoRevision, Definition(on, rev, by))

-----------------------------------------------------------------------------
(* AgentPackageManager.deploy, activate *)

Deploy(q, a, r) == ~Running(a) /\ Asked(q, "deploy", a, r, "looking")

\* A revision that is there is not compiled again.
Looked(q) ==
    /\ Steps(q, "looking")
    /\ req' = [req EXCEPT ![q].at = IF req[q].arg \in store[req[q].on] THEN "reading" ELSE "compiling"]
    /\ UNCHANGED agentVars

\* The staging directory becomes the revision, unless a directory of that name is there:
\* that of another deployment, or what a removal has left, with or without its revision.json.
Compiled(q) ==
    LET a == req[q].on  r == req[q].arg
    IN  /\ Steps(q, "compiling")
        /\ \/ /\ r \notin store[a] \cup compiled[a]
              /\ store' = [store EXCEPT ![a] = @ \cup {r}]
              /\ compiled' = [compiled EXCEPT ![a] = @ \cup {r}]
           \/ /\ r \in store[a] \cup compiled[a] \/ a \in partial
              /\ UNCHANGED <<store, compiled>>
        /\ req' = [req EXCEPT ![q].at = "reading"]
        /\ UNCHANGED <<agents, agentFile, active, workspace, partial, told>>

CompileBreaks(q) ==
    /\ Breaks(q, "compiling")
    /\ Ends(q)
    /\ UNCHANGED agentVars

ActivateRevision(q, a, r) == ~Running(a) /\ Asked(q, "activateRevision", a, r, "reading")

\* Mutant: a revision is activated whether it is there or not.
CanActivate_Any(a, r) == TRUE
CanActivate(a, r) == r \in store[a]

\* Activating a revision keeps the Agent as enabled or disabled as it was.
RevisionRegistered(q) ==
    LET a == req[q].on
    IN  /\ Steps(q, "reading")
        /\ IF CanActivate(a, req[q].arg)
           THEN Registered(q, Definition(IF agents[a] = NoAgent THEN TRUE ELSE agents[a].on,
                                         req[q].arg, "activation"))
           ELSE Ends(q) /\ UNCHANGED agents
        /\ UNCHANGED <<agentFile, store, compiled, active, workspace, partial, told>>

MarkLands(q) ==
    /\ Steps(q, "marking")
    /\ active' = [active EXCEPT ![req[q].on] = req[q].arg]
    /\ Commits(q) /\ Ends(q)
    /\ UNCHANGED <<agents, agentFile, store, compiled, workspace, partial>>

MarkBreaks(q) ==
    /\ Breaks(q, "marking")
    /\ Undo(q, agents[req[q].on])
    /\ UNCHANGED <<agentFile, store, compiled, active, workspace, partial, told>>

-----------------------------------------------------------------------------
(* RunManager.deleteAgent, WorkspaceManager.purgeAgent *)

Delete(q, a) ==
    /\ ~Running(a) /\ agents[a] # NoAgent
    /\ RegisteredAtOnce(q, "delete", a, NoRevision, NoAgent)

\* Busy again: an error, although the Agent is deleted; its directory stays.
PurgeBegins(q) ==
    /\ Steps(q, "purging")
    /\ IF Running(req[q].on) THEN Ends(q) ELSE req' = [req EXCEPT ![q].at = "clearing"]
    /\ UNCHANGED agentVars

Purged(q) ==
    LET a == req[q].on
    IN  /\ Steps(q, "clearing")
        /\ store' = [store EXCEPT ![a] = {}]
        /\ compiled' = [compiled EXCEPT ![a] = {}]
        /\ active' = [active EXCEPT ![a] = NoRevision]
        /\ workspace' = [workspace EXCEPT ![a] = NoRevision]
        /\ partial' = partial \ {a}
        /\ Ends(q)
        /\ UNCHANGED <<agents, agentFile, told>>

\* Of the directories of these Agents any part is left.
PartLeft(gone) ==
    /\ store' \in [AgentIds -> SUBSET Revisions]
    /\ compiled' \in [AgentIds -> SUBSET Revisions]
    /\ active' \in [AgentIds -> Revisions \cup {NoRevision}]
    /\ workspace' \in [AgentIds -> Revisions \cup {NoRevision}]
    /\ \A a \in AgentIds :
          /\ store'[a] \subseteq store[a] /\ compiled'[a] \subseteq compiled[a]
          /\ active'[a] \in {active[a], NoRevision} /\ workspace'[a] \in {workspace[a], NoRevision}
          /\ a \notin gone => /\ store'[a] = store[a] /\ compiled'[a] = compiled[a]
                             /\ active'[a] = active[a] /\ workspace'[a] = workspace[a]
    /\ partial' = partial \cup gone

\* Something cannot be removed: an error, although the Agent is deleted.
PurgeBreaks(q) ==
    /\ Breaks(q, "clearing")
    /\ PartLeft({req[q].on})
    /\ Ends(q)
    /\ UNCHANGED <<agents, agentFile, told>>

-----------------------------------------------------------------------------
(* init *)

\* A request that the end of the process cut short may have taken effect.
AgentsRestart ==
    /\ agents' = agentFile
    /\ told' = [a \in AgentIds |-> IF On(a) # {} THEN agentFile[a] ELSE told[a]]
    /\ UNCHANGED <<agentFile, store, compiled, active, workspace, partial>>

\* The Agents whose directories are being removed
Torn == {a \in AgentIds : \E q \in On(a) : req[q].at = "clearing"}

AgentsCrash == PartLeft(Torn) /\ UNCHANGED <<agents, agentFile, told>>

AgentAsked(q, a) ==
    \/ \E on \in BOOLEAN, rev \in Revisions \cup {NoRevision} : Put(q, a, on, rev)
    \/ \E r \in Revisions : Deploy(q, a, r) \/ ActivateRevision(q, a, r)
    \/ Delete(q, a)

AgentStep(q) ==
    \/ RevisionRegistered(q)
    \/ RegistryLands(q) \/ RegistryBreaks(q) \/ UndoLands(q) \/ UndoBreaks(q)
    \/ Looked(q) \/ Compiled(q) \/ CompileBreaks(q)
    \/ MarkLands(q) \/ MarkBreaks(q)
    \/ PurgeBegins(q) \/ Purged(q) \/ PurgeBreaks(q)
=============================================================================
