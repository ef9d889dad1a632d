--------------------------- MODULE ProvisioningProofs ---------------------------
(***************************************************************************)
(* The configuration of a Node, for any engines, Agents, revisions, Runs,  *)
(* settings and requests, with any number of failures and crashes.         *)
(*                                                                         *)
(* A request is an async function that stops at its awaits.  The invariant *)
(* says of each await what memory, file and disk have in common there, and *)
(* what a failure would bring back (was, snap).                            *)
(***************************************************************************)
EXTENDS Provisioning, TLAPS

-----------------------------------------------------------------------------
(* Requests under way *)

EngineKinds == {"install", "enable", "activate", "uninstall"}
AgentKinds  == {"put", "deploy", "activateRevision", "delete"}

Places(kind) ==
    CASE kind = "install"          -> {"checking", "opening", "fetching", "cleared", "closing", "ending"}
      [] kind = "enable"           -> {"ending"}
      [] kind = "activate"         -> {"checking", "ending"}
      [] kind = "uninstall"        -> {"removing", "ending"}
      [] kind = "put"              -> {"registering"}
      [] kind = "deploy"           -> {"looking", "compiling", "reading", "registering", "marking", "undoing"}
      [] kind = "activateRevision" -> {"reading", "registering", "marking", "undoing"}
      [] kind = "delete"           -> {"registering", "purging", "clearing"}
      [] kind = "settings"         -> {"saving", "pruning"}

\* What can be said of an engine that is installed, or not
EngineStates ==
    [on : BOOLEAN, status : {"absent", "installing", "updating", "installed", "disabled", "failed"},
     version : Versions \cup {NoVersion}, versions : SUBSET Versions]
EngineOK(s) == /\ s \in EngineStates /\ s.version \in s.versions \cup {NoVersion}
               /\ s.status = "installed" => s.version # NoVersion
EnginesOK(f) == f \in [EngineIds -> EngineStates] /\ \A e \in EngineIds : EngineOK(f[e])

AgentStates == Defs \cup {NoAgent}

OnEngine(q) == Handled(q) /\ req[q].kind \in EngineKinds
OnAgent(q)  == Handled(q) /\ req[q].kind \in AgentKinds
OnSettings(q) == Handled(q) /\ req[q].kind = "settings"

EngineRequestOK(m) ==
    /\ m.on \in EngineIds /\ EngineOK(m.was)
    /\ m.kind \in {"install", "activate"} => m.arg \in Versions
    /\ m.save \in {"none", "making", "written"}
    /\ m.save # "none" <=> m.at \in {"opening", "closing", "ending"}
    /\ m.save = "written" => EnginesOK(m.snap)

AgentRequestOK(m) ==
    /\ m.on \in AgentIds /\ m.save = "none"
    /\ m.kind \in {"deploy", "activateRevision"} => m.arg \in Revisions
    /\ m.at \in {"registering", "marking", "undoing"} => m.was \in AgentStates
    /\ m.at \in {"registering", "undoing"} => m.snap \in [AgentIds -> AgentStates]

IsRequest(m) == m = [kind |-> m.kind, on |-> m.on, arg |-> m.arg, at |-> m.at,
                    was |-> m.was, save |-> m.save, snap |-> m.snap]
IsOver(m) == m \in {NoRequest, [at |-> "done"]}

RequestOK(m) ==
    /\ IsRequest(m) /\ m.at \in Places(m.kind)
    /\ \/ m.kind \in EngineKinds /\ EngineRequestOK(m)
       \/ m.kind \in AgentKinds /\ AgentRequestOK(m)
       \/ m.kind = "settings" /\ m.arg \subseteq Settings /\ m.save = "none"

Going(x) == run[x].at \in {"preparing", "fetching", "active"}
RunOK(x) ==
    \/ run[x] = NoRun \/ run[x] = [at |-> "ended"]
    \/ /\ run[x] = [at |-> run[x].at, agent |-> run[x].agent, def |-> run[x].def, engine |-> run[x].engine]
       /\ Going(x) /\ run[x].agent \in AgentIds /\ run[x].def \in Defs /\ run[x].engine \in EngineIds

RequestsTyped ==
    /\ DOMAIN req = Requests /\ req = [q \in Requests |-> req[q]]
    /\ \A q \in Requests : IsOver(req[q]) \/ RequestOK(req[q])
RunsTyped ==
    /\ DOMAIN run = Runs /\ run = [x \in Runs |-> run[x]]
    /\ \A x \in Runs : RunOK(x)
CountersTyped ==
    /\ up \in BOOLEAN /\ overlapped \in BOOLEAN /\ crashes \in Nat /\ failures \in Nat
    /\ ~up => crashes > 0
EnginesTyped == EnginesOK(engines) /\ EnginesOK(engineFile) /\ disk \in [EngineIds -> SUBSET Versions]
AgentsTyped ==
    /\ agents \in [AgentIds -> AgentStates] /\ agentFile \in [AgentIds -> AgentStates]
    /\ told \in [AgentIds -> AgentStates]
    /\ store \in [AgentIds -> SUBSET Revisions] /\ compiled \in [AgentIds -> SUBSET Revisions]
    /\ active \in [AgentIds -> Revisions \cup {NoRevision}]
    /\ workspace \in [AgentIds -> Revisions \cup {NoRevision}] /\ partial \subseteq AgentIds
SettingsTyped == settings \subseteq Settings /\ settingsFile \subseteq Settings /\ toldSettings \subseteq Settings

TypesOK == RequestsTyped /\ RunsTyped /\ CountersTyped /\ EnginesTyped /\ AgentsTyped /\ SettingsTyped

-----------------------------------------------------------------------------
(* Engines *)

Busy == {"installing", "updating"}

\* Requests for one engine exclude each other.
ExclusiveOK == \A p, q \in Requests : OnEngine(p) /\ OnEngine(q) /\ req[p].on = req[q].on => p = q

\* An engine is busy only while it is opened for an installation.
BusyOK ==
    up /\ failures = 0 =>
       /\ InterruptedIsMarked
       /\ \A q \in Requests : OnEngine(q) /\ req[q].at \notin {"opening", "fetching", "cleared"} =>
             engines[req[q].on].status \notin Busy

\* An installation keeps the version until the new one is in its place.
OpenedOK ==
    up => \A q \in Requests : OnEngine(q) /\ req[q].at \in {"checking", "opening", "fetching", "cleared"} =>
       req[q].was.version = engines[req[q].on].version

\* Placed, until it is on file or undone.
PlacedOK ==
    up => \A q \in Requests : OnEngine(q) /\ req[q].at = "closing" =>
       req[q].arg = engines[req[q].on].version

\* Without another request nobody changes what is being saved, what is not is on file, and the
\* version before an installation is on file until the new one is.
SavedOK ==
    ~overlapped =>
       /\ \A q \in Requests : OnEngine(q) /\ req[q].save = "written" => req[q].snap = engines
       /\ \A q \in Requests : OnEngine(q) /\ req[q].at \in {"fetching", "cleared", "closing"} =>
             engineFile[req[q].on].version = req[q].was.version
       /\ failures = 0 => \A e \in EngineIds :
             (\A q \in Requests : OnEngine(q) /\ req[q].on = e => req[q].at \in {"checking", "removing"})
             => engineFile[e] = engines[e]

\* history: a request is made alone unless overlapped says otherwise.
AloneOK == ~overlapped => \A p, q \in Requests : Handled(p) /\ Handled(q) => p = q

-----------------------------------------------------------------------------
(* Agents *)

NoneOn(a) == \A q \in Requests : OnAgent(q) => req[q].on # a

Exists(a, def) == FromActivation(def) => def.rev \in store[a]

\* Whatever the registry may become, the revision of an activation is there.
ExistOK(q) ==
    /\ req[q].at \in {"registering", "marking", "undoing"} => Exists(req[q].on, req[q].was)
    /\ req[q].at \in {"registering", "undoing"} => req[q].snap = agents
    /\ req[q].kind = "delete" => agents[req[q].on] = NoAgent
    /\ req[q].at \in {"purging", "clearing"} => agentFile[req[q].on] = NoAgent

ExistsOK ==
    ~overlapped =>
       /\ \A a \in AgentIds : Exists(a, agents[a]) /\ Exists(a, agentFile[a])
       /\ \A q \in Requests : OnAgent(q) => ExistOK(q)

\* A revision is moved into its place as a whole, and is whole until a removal breaks off.
CompiledOK == \A a \in AgentIds : a \notin partial => store[a] = compiled[a]

\* What memory, file and answers say of an Agent at each await
AnswerOK(q) ==
    LET a == req[q].on
    IN  /\ req[q].at \in {"looking", "compiling", "reading"} => agents[a] = told[a] /\ agentFile[a] = told[a]
        /\ req[q].at = "registering" => req[q].was = told[a] /\ agentFile[a] = told[a]
        /\ req[q].at = "marking"     => agents[a] = agentFile[a] /\ req[q].was = told[a]
        /\ req[q].at = "undoing"     => agents[a] = told[a] /\ failures > 0
        /\ req[q].at \in {"purging", "clearing"} => agents[a] = told[a] /\ agentFile[a] = told[a]

AnswersOK ==
    Orderly =>
       /\ \A a \in AgentIds : NoneOn(a) => agents[a] = told[a] /\ agentFile[a] = told[a]
       /\ \A q \in Requests : OnAgent(q) => AnswerOK(q)

SettingsOK ==
    Orderly =>
       /\ settings = settingsFile /\ settings = toldSettings
       /\ \A q \in Requests : OnSettings(q) => settings \subseteq req[q].arg

\* active.json names what an activation has registered, or had before.
Marked(a, def) == FromActivation(def) => active[a] = def.rev

MarkOK(q) ==
    LET a == req[q].on
    IN  /\ req[q].at \in {"looking", "compiling", "reading", "undoing"} => Marked(a, agents[a])
        /\ req[q].at \in {"registering", "marking"} => Marked(a, req[q].was)
        /\ req[q].kind = "put" => Marked(a, agents[a])
        /\ req[q].kind \in {"deploy", "activateRevision"} /\ req[q].at \in {"registering", "marking"} =>
             agents[a] # NoAgent /\ agents[a].rev = req[q].arg

MarksOK ==
    Orderly /\ crashes = 0 =>
       /\ \A a \in AgentIds : NoneOn(a) => Marked(a, agents[a])
       /\ \A q \in Requests : OnAgent(q) => MarkOK(q)

-----------------------------------------------------------------------------
(* Runs *)

\* An Agent has one Run, and none while it is being deleted.
OneRunOK ==
    /\ \A x, y \in Runs : Going(x) /\ Going(y) /\ run[x].agent = run[y].agent => x = y
    /\ ~overlapped => \A q \in Requests, x \in Runs :
          OnAgent(q) /\ req[q].kind = "delete" /\ Going(x) => run[x].agent # req[q].on

\* An Agent whose workspace may hold a revision
Used(def) == def # NoAgent /\ (def.rev # NoRevision \/ def.by = "cleared")
Named(a)  == Used(agents[a])
BeingDeleted(a) == \E q \in Requests : OnAgent(q) /\ req[q].kind = "delete" /\ req[q].on = a

\* As long as nothing fails, an Agent that never had a revision has nothing in its workspace.
WorkspacesOK ==
    ~overlapped =>
       /\ RunMatches
       /\ crashes + failures = 0 =>
             /\ \A a \in AgentIds : workspace[a] # NoRevision => Named(a) \/ BeingDeleted(a)
             /\ \A x \in Runs : Going(x) =>
                   /\ agents[run[x].agent] # NoAgent
                   /\ run[x].def.rev # NoRevision => Named(run[x].agent)
                   /\ ~Used(run[x].def) /\ run[x].at = "preparing" =>
                         workspace[run[x].agent] = NoRevision

EngineInv == ExclusiveOK /\ BusyOK /\ OpenedOK /\ PlacedOK /\ SavedOK
AgentInv == ExistsOK /\ CompiledOK /\ AnswersOK /\ MarksOK
RunInv == OneRunOK /\ WorkspacesOK
ConfigOK == TypesOK /\ AloneOK /\ EngineInv /\ AgentInv /\ SettingsOK /\ RunInv

USE RequestAssumption, VersionAssumption, AgentAssumption

-----------------------------------------------------------------------------
(* One request steps *)

\* All other requests stay where they are.
OnlyMoves(q) == \A p \in Requests \ {q} : req'[p] = req[p]

\* A request that is made notices the others.
Notices(q) == overlapped' = (overlapped \/ (~Handled(q) /\ InFlight # {}))

\* q is the only request under way, and was so from its start.
Alone(q) == ~overlapped /\ \A p \in Requests : Handled(p) => p = q

\* The record of a request that began or moved on
HasFields(m, k, o, a, t, w, s, n) ==
    /\ IsRequest(m)
    /\ m.kind = k /\ m.on = o /\ m.arg = a /\ m.at = t /\ m.was = w /\ m.save = s /\ m.snap = n

Record(k, o, a, t, w, s, n) ==
    [kind |-> k, on |-> o, arg |-> a, at |-> t, was |-> w, save |-> s, snap |-> n]

\* g is f with r for q.
Puts(g, f, q, r) == DOMAIN g = Requests /\ g = [p \in Requests |-> IF p = q THEN r ELSE f[p]]

LEMMA SetField ==
    ASSUME NEW f, NEW f0, NEW q \in Requests,
           NEW k, NEW o, NEW a, NEW t, NEW w, NEW s, NEW n,
           Puts(f, f0, q, Record(k, o, a, t, w, s, n)), NEW x
    PROVE  /\ Puts([f EXCEPT ![q].at = x], f0, q, Record(k, o, a, x, w, s, n))
           /\ Puts([f EXCEPT ![q].was = x], f0, q, Record(k, o, a, t, x, s, n))
           /\ Puts([f EXCEPT ![q].save = x], f0, q, Record(k, o, a, t, w, x, n))
           /\ Puts([f EXCEPT ![q].snap = x], f0, q, Record(k, o, a, t, w, s, x))
<1>0. DOMAIN f = Requests /\ f[q] = Record(k, o, a, t, w, s, n) /\ \A p \in Requests : p # q => f[p] = f0[p]
  BY DEF Puts
<1>1. /\ [f[q] EXCEPT !.at = x] = Record(k, o, a, x, w, s, n)
      /\ [f[q] EXCEPT !.was = x] = Record(k, o, a, t, x, s, n)
      /\ [f[q] EXCEPT !.save = x] = Record(k, o, a, t, w, x, n)
      /\ [f[q] EXCEPT !.snap = x] = Record(k, o, a, t, w, s, x)
  <2>1. [f[q] EXCEPT !.at = x] = Record(k, o, a, x, w, s, n) BY <1>0 DEF Record
  <2>2. [f[q] EXCEPT !.was = x] = Record(k, o, a, t, x, s, n) BY <1>0 DEF Record
  <2>3. [f[q] EXCEPT !.save = x] = Record(k, o, a, t, w, x, n) BY <1>0 DEF Record
  <2>4. [f[q] EXCEPT !.snap = x] = Record(k, o, a, t, w, s, x) BY <1>0 DEF Record
  <2> QED BY <2>1, <2>2, <2>3, <2>4
<1>2. ASSUME NEW r PROVE Puts([f EXCEPT ![q] = r], f0, q, r) BY <1>0 DEF Puts
<1>3. /\ [f EXCEPT ![q].at = x] = [f EXCEPT ![q] = [f[q] EXCEPT !.at = x]]
      /\ [f EXCEPT ![q].was = x] = [f EXCEPT ![q] = [f[q] EXCEPT !.was = x]]
      /\ [f EXCEPT ![q].save = x] = [f EXCEPT ![q] = [f[q] EXCEPT !.save = x]]
      /\ [f EXCEPT ![q].snap = x] = [f EXCEPT ![q] = [f[q] EXCEPT !.snap = x]]
   BY Zenon
<1> QED BY <1>1, <1>2, <1>3, Zenon

\* Fields that are set one after the other
LEMMA SetFields ==
    ASSUME RequestsTyped, NEW q \in Requests,
           NEW k, NEW o, NEW a, NEW t, NEW w, NEW s, NEW n, req[q] = Record(k, o, a, t, w, s, n),
           NEW x, NEW y, NEW z
    PROVE  /\ Puts([req EXCEPT ![q].at = x], req, q, Record(k, o, a, x, w, s, n))
           /\ Puts([req EXCEPT ![q].at = x, ![q].save = y], req, q, Record(k, o, a, x, w, y, n))
           /\ Puts([req EXCEPT ![q].save = x, ![q].snap = y], req, q, Record(k, o, a, t, w, x, y))
           /\ Puts([req EXCEPT ![q].at = x, ![q].save = y, ![q].snap = z], req, q, Record(k, o, a, x, w, y, z))
           /\ Puts([req EXCEPT ![q].at = x, ![q].was = y, ![q].snap = z], req, q, Record(k, o, a, x, y, s, z))
<1>1. Puts(req, req, q, Record(k, o, a, t, w, s, n)) BY DEF Puts, RequestsTyped
<1>2. Puts([req EXCEPT ![q].at = x], req, q, Record(k, o, a, x, w, s, n)) BY <1>1, SetField, Zenon
<1>3. Puts([req EXCEPT ![q].save = x], req, q, Record(k, o, a, t, w, x, n)) BY <1>1, SetField, Zenon
<1>4. PICK at : at = [req EXCEPT ![q].at = x] BY Zenon
<1>5. PICK save : save = [req EXCEPT ![q].save = x] BY Zenon
<1>6. Puts(at, req, q, Record(k, o, a, x, w, s, n)) BY <1>2, <1>4, Zenon
<1>7. Puts(save, req, q, Record(k, o, a, t, w, x, n)) BY <1>3, <1>5, Zenon
<1>8. Puts([at EXCEPT ![q].save = y], req, q, Record(k, o, a, x, w, y, n)) BY <1>6, SetField, Zenon
<1>9. Puts([at EXCEPT ![q].was = y], req, q, Record(k, o, a, x, y, s, n)) BY <1>6, SetField, Zenon
<1>10. Puts([save EXCEPT ![q].snap = y], req, q, Record(k, o, a, t, w, x, y)) BY <1>7, SetField, Zenon
<1>11. PICK atSave : atSave = [at EXCEPT ![q].save = y] BY Zenon
<1>12. PICK atWas : atWas = [at EXCEPT ![q].was = y] BY Zenon
<1>13. Puts(atSave, req, q, Record(k, o, a, x, w, y, n)) BY <1>8, <1>11, Zenon
<1>14. Puts(atWas, req, q, Record(k, o, a, x, y, s, n)) BY <1>9, <1>12, Zenon
<1>15. Puts([atSave EXCEPT ![q].snap = z], req, q, Record(k, o, a, x, w, y, z)) BY <1>13, SetField, Zenon
<1>16. Puts([atWas EXCEPT ![q].snap = z], req, q, Record(k, o, a, x, y, s, z)) BY <1>14, SetField, Zenon
<1> QED BY <1>2, <1>4, <1>5, <1>8, <1>10, <1>11, <1>12, <1>15, <1>16, Zenon

\* What a step makes of the record of q, with the others where they were
Stands(q, k, o, a, t, w, s, n) ==
    /\ DOMAIN req' = Requests /\ req' = [p \in Requests |-> req'[p]]
    /\ OnlyMoves(q) /\ HasFields(req'[q], k, o, a, t, w, s, n)
Over(q) ==
    /\ DOMAIN req' = Requests /\ req' = [p \in Requests |-> req'[p]]
    /\ OnlyMoves(q) /\ req'[q] = [at |-> "done"]

LEMMA RecordFields ==
    ASSUME NEW k, NEW o, NEW a, NEW t, NEW w, NEW s, NEW n
    PROVE  HasFields(Record(k, o, a, t, w, s, n), k, o, a, t, w, s, n)
BY DEF HasFields, IsRequest, Record

LEMMA Replaced ==
    ASSUME RequestsTyped, NEW q \in Requests, NEW m
    PROVE  /\ DOMAIN [req EXCEPT ![q] = m] = Requests
           /\ [req EXCEPT ![q] = m] = [p \in Requests |-> IF p = q THEN m ELSE req[p]]
BY DEF RequestsTyped

\* A request begins.
LEMMA Begun ==
    ASSUME RequestsTyped, NEW q \in Requests,
           NEW k, NEW o, NEW a, NEW t, NEW w, NEW s, NEW n,
           req' = [req EXCEPT ![q] = [kind |-> k, on |-> o, arg |-> a, at |-> t,
                                      was |-> w, save |-> s, snap |-> n]]
    PROVE  Stands(q, k, o, a, t, w, s, n)
<1>1. req' = [req EXCEPT ![q] = Record(k, o, a, t, w, s, n)] BY DEF Record
<1>2. req' = [p \in Requests |-> IF p = q THEN Record(k, o, a, t, w, s, n) ELSE req[p]]
  BY <1>1, Replaced
<1>3. HasFields(Record(k, o, a, t, w, s, n), k, o, a, t, w, s, n) BY RecordFields
<1> QED BY <1>2, <1>3 DEF Stands, OnlyMoves

LEMMA Ended ==
    ASSUME RequestsTyped, NEW q \in Requests, Ends(q)
    PROVE  Over(q)
<1>1. req' = [p \in Requests |-> IF p = q THEN [at |-> "done"] ELSE req[p]] BY Replaced DEF Ends
<1> QED BY <1>1 DEF Over, OnlyMoves

\* A request moves on.
LEMMA Moved ==
    ASSUME RequestsTyped, NEW q \in Requests, IsRequest(req[q]), NEW x, NEW y, NEW z
    PROVE  LET r == req[q]
           IN  /\ req' = [req EXCEPT ![q].at = x] => Stands(q, r.kind, r.on, r.arg, x, r.was, r.save, r.snap)
               /\ req' = [req EXCEPT ![q].at = x, ![q].save = y] =>
                     Stands(q, r.kind, r.on, r.arg, x, r.was, y, r.snap)
               /\ req' = [req EXCEPT ![q].save = x, ![q].snap = y] =>
                     Stands(q, r.kind, r.on, r.arg, r.at, r.was, x, y)
               /\ req' = [req EXCEPT ![q].at = x, ![q].save = y, ![q].snap = z] =>
                     Stands(q, r.kind, r.on, r.arg, x, r.was, y, z)
               /\ req' = [req EXCEPT ![q].at = x, ![q].was = y, ![q].snap = z] =>
                     Stands(q, r.kind, r.on, r.arg, x, y, r.save, z)
<1>1. \E k, o, a, t, w, s, n : /\ k = req[q].kind /\ o = req[q].on /\ a = req[q].arg /\ t = req[q].at
                               /\ w = req[q].was /\ s = req[q].save /\ n = req[q].snap
  BY Zenon
<1>2. PICK k, o, a, t, w, s, n : /\ k = req[q].kind /\ o = req[q].on /\ a = req[q].arg /\ t = req[q].at
                                 /\ w = req[q].was /\ s = req[q].save /\ n = req[q].snap
  BY <1>1, Zenon
<1>3. req[q] = Record(k, o, a, t, w, s, n) BY <1>2, Zenon DEF IsRequest, Record
<1>4. ASSUME NEW g, req' = g, NEW t1, NEW w1, NEW s1, NEW n1, Puts(g, req, q, Record(k, o, a, t1, w1, s1, n1))
      PROVE  Stands(q, k, o, a, t1, w1, s1, n1)
  <2>1. req' = [p \in Requests |-> IF p = q THEN Record(k, o, a, t1, w1, s1, n1) ELSE req[p]]
    BY <1>4, Zenon DEF Puts
  <2>2. HasFields(Record(k, o, a, t1, w1, s1, n1), k, o, a, t1, w1, s1, n1) BY RecordFields
  <2> QED BY <2>1, <2>2 DEF Stands, OnlyMoves
<1>5. /\ Puts([req EXCEPT ![q].at = x], req, q, Record(k, o, a, x, w, s, n))
      /\ Puts([req EXCEPT ![q].at = x, ![q].save = y], req, q, Record(k, o, a, x, w, y, n))
      /\ Puts([req EXCEPT ![q].save = x, ![q].snap = y], req, q, Record(k, o, a, t, w, x, y))
      /\ Puts([req EXCEPT ![q].at = x, ![q].save = y, ![q].snap = z], req, q, Record(k, o, a, x, w, y, z))
      /\ Puts([req EXCEPT ![q].at = x, ![q].was = y, ![q].snap = z], req, q, Record(k, o, a, x, y, s, z))
  BY <1>3, SetFields, Zenon
<1>6. req' = [req EXCEPT ![q].at = x] => Stands(q, k, o, a, x, w, s, n) BY <1>4, <1>5, Zenon
<1>7. req' = [req EXCEPT ![q].at = x, ![q].save = y] => Stands(q, k, o, a, x, w, y, n) BY <1>4, <1>5, Zenon
<1>8. req' = [req EXCEPT ![q].save = x, ![q].snap = y] => Stands(q, k, o, a, t, w, x, y) BY <1>4, <1>5, Zenon
<1>9. req' = [req EXCEPT ![q].at = x, ![q].save = y, ![q].snap = z] => Stands(q, k, o, a, x, w, y, z)
  BY <1>4, <1>5, Zenon
<1>10. req' = [req EXCEPT ![q].at = x, ![q].was = y, ![q].snap = z] => Stands(q, k, o, a, x, y, s, z)
  BY <1>4, <1>5, Zenon
<1> QED BY <1>2, <1>6, <1>7, <1>8, <1>9, <1>10, Zenon

\* Where a request stands says of which kind it is.
LEMMA PlaceFacts ==
    ASSUME NEW m, RequestOK(m)
    PROVE  /\ m.at \notin {"new", "done"}
           /\ m.at \in {"opening", "fetching", "cleared", "closing"} => m.kind = "install"
           /\ m.at = "removing" => m.kind = "uninstall"
           /\ m.at = "checking" => m.kind \in {"install", "activate"}
           /\ m.at = "ending" => m.kind \in EngineKinds
           /\ m.at \in {"looking", "compiling"} => m.kind = "deploy"
           /\ m.at \in {"reading", "marking", "undoing"} => m.kind \in {"deploy", "activateRevision"}
           /\ m.at = "registering" => m.kind \in AgentKinds
           /\ m.at \in {"purging", "clearing"} => m.kind = "delete"
           /\ m.at \in {"saving", "pruning"} => m.kind = "settings"
           /\ m.save # "none" => m.kind \in EngineKinds
           /\ m.kind \in EngineKinds => m.kind \notin AgentKinds \cup {"settings"} /\ EngineRequestOK(m)
           /\ m.kind \in AgentKinds => m.kind # "settings" /\ AgentRequestOK(m)
           /\ m.kind = "settings" => m.arg \subseteq Settings
           /\ m.kind \in EngineKinds \cup AgentKinds \cup {"settings"}
BY DEF RequestOK, Places, EngineKinds, AgentKinds, AgentRequestOK

\* A request that is under way has its record.
LEMMA HandledFacts ==
    ASSUME RequestsTyped, NEW q \in Requests
    PROVE  /\ Handled(q) <=> ~IsOver(req[q])
           /\ Handled(q) => RequestOK(req[q])
           /\ req[q].at = "new" => req[q] = NoRequest
<1>1. \A m : IsOver(m) => m.at \in {"new", "done"} /\ (m.at = "new" => m = NoRequest)
  BY DEF IsOver, NoRequest
<1>2. \A m : RequestOK(m) => m.at \notin {"new", "done"} BY PlaceFacts
<1> QED BY <1>1, <1>2 DEF RequestsTyped, Handled

\* As long as no request was made while another was handled, the one that steps
\* is alone before and after.
LEMMA StepsAlone ==
    ASSUME AloneOK, NEW q \in Requests, OnlyMoves(q), Notices(q), Handled(q) \/ Handled(q)'
    PROVE  AloneOK' /\ (~overlapped' => Alone(q) /\ Alone(q)')
<1>1. \A p \in Requests \ {q} : Handled(p)' <=> Handled(p) BY DEF OnlyMoves, Handled
<1>2. ASSUME ~overlapped' PROVE Alone(q)
  <2>1. ~overlapped BY <1>2 DEF Notices
  <2>2. CASE Handled(q) BY <2>1, <2>2 DEF AloneOK, Alone
  <2>3. CASE ~Handled(q)
    <3>1. InFlight = {} BY <1>2, <2>3 DEF Notices
    <3> QED BY <2>1, <3>1 DEF InFlight, Alone
  <2> QED BY <2>2, <2>3
<1>3. ~overlapped' => Alone(q)' BY <1>1, <1>2 DEF Alone
<1> QED BY <1>2, <1>3 DEF AloneOK, Alone

-----------------------------------------------------------------------------
(* Engines: what one request leaves of one engine *)

Opening == {"opening", "fetching", "cleared"}

\* What holds of q, which is for e, or could be made for e.
EngineHere(q, e) ==
    /\ failures = 0 =>
          /\ engines[e].status \in Busy => Handled(q) /\ req[q].kind = "install"
          /\ Handled(q) /\ req[q].at \notin Opening => engines[e].status \notin Busy
    /\ Handled(q) /\ req[q].at \in Opening \cup {"checking"} => req[q].was.version = engines[e].version
    /\ Handled(q) /\ req[q].at = "closing" => req[q].arg = engines[e].version
    /\ Alone(q) =>
          /\ Handled(q) /\ req[q].save = "written" => req[q].snap = engines
          /\ Handled(q) /\ req[q].at \in {"fetching", "cleared", "closing"} =>
                engineFile[e].version = req[q].was.version
          /\ failures = 0 => \A d \in EngineIds :
                d # e \/ ~Handled(q) \/ req[q].at \in {"checking", "removing"}
                => engineFile[d] = engines[d]

For(q, e) == Handled(q) => req[q].kind \in EngineKinds /\ req[q].on = e

\* A step of q touches no other engine, and keeps what can be run of this one.
Touches(q, e) ==
    /\ \A d \in EngineIds \ {e} : engines'[d] = engines[d] /\ disk'[d] = disk[d]
    /\ OnlyMoves(q) /\ Notices(q) /\ For(q, e) /\ For(q, e)'
    /\ Handled(q) \/ (Handled(q)' /\ On(e) = {})
    /\ failures' \in Nat /\ failures <= failures'
    /\ engines'[e] # engines[e] /\ engines'[e].status = "installed" =>
          engines'[e].version \in disk'[e] \/ (Handled(q)' /\ req'[q].kind = "enable")
    /\ Usable(e) /\ Alone(q) /\ Handled(q) =>
          \/ req[q].kind = "uninstall"
          \/ req[q].kind = "install" /\ req[q].arg \in {engines[e].version, engineFile[e].version}
          \/ Usable(e)'
    /\ Usable(e) /\ ~Handled(q) => Usable(e)'
    /\ \A d \in EngineIds \ {e} : engineFile'[d] = engineFile[d] \/ (Alone(q) => engineFile'[d] = engines[d])

\* What every step of a request for an engine establishes.
EngineStepOK(q, e) == RequestsTyped' /\ EnginesTyped' /\ EngineHere(q, e)' /\ Touches(q, e)


\* Requests and engines before a step of q, which is for e or could be made for e
EngineBefore(q, e) ==
    /\ RequestsTyped /\ EnginesTyped /\ failures \in Nat /\ overlapped \in BOOLEAN
    /\ EngineHere(q, e) /\ For(q, e) /\ (Handled(q) \/ On(e) = {})

-----------------------------------------------------------------------------
(* The states of an engine *)

LEMMA EngineStatesOK ==
    ASSUME NEW s, EngineOK(s)
    PROVE  /\ EngineOK(Opened(s)) /\ Opened(s).version = s.version /\ Opened(s).status \in Busy
           /\ EngineOK([s EXCEPT !.status = "failed"])
           /\ [s EXCEPT !.status = "failed"].version = s.version
           /\ [s EXCEPT !.status = "failed"].status = "failed"
           /\ [s EXCEPT !.status = "failed"].on = s.on
           /\ EngineOK(Absent) /\ Absent.status = "absent" /\ Absent.version = NoVersion
<1>1. s \in EngineStates /\ s.version \in s.versions \cup {NoVersion}
      /\ (s.status = "installed" => s.version # NoVersion)
  BY DEF EngineOK
<1>2. EngineOK(Opened(s)) /\ Opened(s).version = s.version /\ Opened(s).status \in Busy
  <2>1. Opened(s) \in EngineStates /\ Opened(s).version = s.version /\ Opened(s).versions = s.versions
        /\ Opened(s).status \in Busy
    BY <1>1 DEF Opened, EngineStates, Busy
  <2> QED BY <1>1, <2>1 DEF EngineOK, Busy
<1>3. /\ EngineOK([s EXCEPT !.status = "failed"])
      /\ [s EXCEPT !.status = "failed"].version = s.version
      /\ [s EXCEPT !.status = "failed"].status = "failed"
      /\ [s EXCEPT !.status = "failed"].on = s.on
  BY <1>1 DEF EngineOK, EngineStates
<1>4. EngineOK(Absent) /\ Absent.status = "absent" /\ Absent.version = NoVersion
  BY DEF Absent, EngineOK, EngineStates
<1> QED BY <1>2, <1>3, <1>4

LEMMA InstalledOK ==
    ASSUME NEW vs \in SUBSET Versions, NEW v \in Versions, NEW s, s = Installed(v, vs)
    PROVE  EngineOK(s) /\ s.version = v /\ s.status = "installed"
BY DEF Installed, EngineOK, EngineStates

LEMMA EngineSet ==
    ASSUME EnginesOK(engines), NEW e \in EngineIds, NEW s, EngineOK(s), engines' = [engines EXCEPT ![e] = s]
    PROVE  EnginesOK(engines') /\ engines'[e] = s /\ \A d \in EngineIds \ {e} : engines'[d] = engines[d]
BY DEF EnginesOK, EngineOK

\* What is known of a request for an engine
LEMMA EngineRequestFacts ==
    ASSUME NEW q \in Requests, NEW e, EngineBefore(q, e), Handled(q)
    PROVE  /\ IsRequest(req[q]) /\ req[q].on = e /\ e \in EngineIds /\ EngineOK(req[q].was)
           /\ EngineOK(engines[e])
           /\ engines[e].versions \in SUBSET Versions /\ req[q].was.versions \in SUBSET Versions
           /\ req[q].kind \in EngineKinds /\ req[q].at \in Places(req[q].kind)
           /\ req[q].kind \in {"install", "activate"} => req[q].arg \in Versions
           /\ req[q].save \in {"none", "making", "written"}
           /\ req[q].save # "none" <=> req[q].at \in {"opening", "closing", "ending"}
           /\ req[q].save = "written" => EnginesOK(req[q].snap)
           /\ RequestOK(req[q]) /\ ~IsOver(req[q])
<1>1. RequestOK(req[q]) /\ ~IsOver(req[q]) BY HandledFacts DEF EngineBefore
<1>2. req[q].kind \in EngineKinds /\ req[q].on = e BY DEF EngineBefore, For
<1>3. EngineRequestOK(req[q]) BY <1>1, <1>2, PlaceFacts
<1>4. EngineOK(engines[e]) BY <1>2, <1>3 DEF EngineBefore, EnginesTyped, EnginesOK, EngineRequestOK
<1>5. \A s : EngineOK(s) => s.versions \in SUBSET Versions BY DEF EngineOK, EngineStates
<1> QED BY <1>1, <1>2, <1>3, <1>4, <1>5 DEF RequestOK, EngineRequestOK

\* A request that stands at one of its awaits is under way.
LEMMA StandsTyped ==
    ASSUME RequestsTyped, NEW q \in Requests, NEW k, NEW o, NEW a, NEW t, NEW w, NEW s, NEW n,
           Stands(q, k, o, a, t, w, s, n), RequestOK(req'[q])
    PROVE  RequestsTyped' /\ Handled(q)' /\ OnlyMoves(q)
<1>1. RequestsTyped' BY DEF Stands, RequestsTyped, OnlyMoves
<1> QED BY <1>1, PlaceFacts DEF Handled, Stands

LEMMA IsEnded ==
    ASSUME RequestsTyped, NEW q \in Requests, Over(q)
    PROVE  RequestsTyped' /\ ~Handled(q)'
BY DEF Over, RequestsTyped, OnlyMoves, IsOver, Handled

\* Alone after the step, and so before
LEMMA AloneBefore ==
    ASSUME NEW q \in Requests, OnlyMoves(q), Notices(q), Alone(q)'
    PROVE  Alone(q)
<1>1. \A p \in Requests \ {q} : Handled(p)' <=> Handled(p) BY DEF OnlyMoves, Handled
<1> QED BY <1>1 DEF Alone, Notices

\* update: q goes on to the await t, with state for its engine in memory.
Updated(q, e, t, state) ==
    /\ Stands(q, req[q].kind, req[q].on, req[q].arg, t, req[q].was, "making", req[q].snap)
    /\ RequestsTyped' /\ Handled(q)'
    /\ EnginesOK(engines') /\ engines'[e] = state
    /\ \A d \in EngineIds \ {e} : engines'[d] = engines[d]

LEMMA EngineUpdates ==
    ASSUME NEW q \in Requests, NEW e, EngineBefore(q, e), Handled(q),
           NEW t \in {"opening", "closing", "ending"}, t \in Places(req[q].kind),
           NEW state, EngineOK(state), Updates(q, state, t)
    PROVE  Updated(q, e, t, state)
<1>0. /\ req[q].on = e /\ e \in EngineIds /\ IsRequest(req[q]) /\ req[q].kind \in EngineKinds
      /\ EngineOK(req[q].was) /\ (req[q].kind \in {"install", "activate"} => req[q].arg \in Versions)
      /\ RequestsTyped /\ EnginesOK(engines)
  BY EngineRequestFacts DEF EngineBefore, EnginesTyped
<1>1. req' = [req EXCEPT ![q].at = t, ![q].save = "making"] BY Zenon DEF Updates
<1>2. Stands(q, req[q].kind, req[q].on, req[q].arg, t, req[q].was, "making", req[q].snap)
  BY <1>0, <1>1, Moved, Zenon
<1>3. RequestsTyped' /\ Handled(q)'
  <2>1. RequestOK(req'[q]) BY <1>0, <1>2 DEF Stands, HasFields, RequestOK, EngineRequestOK
  <2> QED BY <1>0, <1>2, <2>1, StandsTyped
<1>4. engines' = [engines EXCEPT ![e] = state] BY <1>0, Zenon DEF Updates, Under
<1>5. EnginesOK(engines') /\ engines'[e] = state /\ \A d \in EngineIds \ {e} : engines'[d] = engines[d]
  BY <1>0, <1>4, EngineSet
<1> QED BY <1>2, <1>3, <1>5 DEF Updated

\* What a step of a request leaves of the counters and of the other engines' files
Steady == failures' = failures /\ engineFile' = engineFile /\ overlapped' = overlapped

LEMMA SteadyNotices ==
    ASSUME NEW q \in Requests, Handled(q), overlapped \in BOOLEAN, overlapped' = overlapped
    PROVE  Notices(q)
BY DEF Notices

\* The step ends q and changes nothing else but the count of failures.
LEMMA EngineGivesUp ==
    ASSUME NEW q \in Requests, NEW e, EngineBefore(q, e), Handled(q), req[q].at \notin Opening,
           req[q].at \in {"checking", "removing"} \/ failures' > 0,
           Ends(q), engines' = engines, engineFile' = engineFile, disk' = disk, overlapped' = overlapped,
           failures' \in Nat, failures <= failures'
    PROVE  EngineStepOK(q, e)
<1>0. req[q].on = e /\ e \in EngineIds /\ RequestsTyped /\ EnginesTyped /\ failures \in Nat
  BY EngineRequestFacts DEF EngineBefore
<1>1. Notices(q) BY SteadyNotices DEF EngineBefore
<1>2. RequestsTyped' /\ ~Handled(q)' /\ OnlyMoves(q) BY <1>0, Ended, IsEnded DEF Over
<1>3. EnginesTyped' BY <1>0 DEF EnginesTyped
<1>4. Alone(q)' => Alone(q) BY <1>1, <1>2, AloneBefore
<1>5. EngineHere(q, e)' BY <1>0, <1>2, <1>4 DEF EngineHere, EngineBefore, Opening
<1>6. Touches(q, e) BY <1>0, <1>1, <1>2 DEF Touches, For, EngineBefore, Usable
<1> QED BY <1>2, <1>3, <1>5, <1>6 DEF EngineStepOK

\* The catch of an installation: back to the state before, as failed
LEMMA EngineReverts ==
    ASSUME NEW q \in Requests, NEW e, EngineBefore(q, e), Handled(q),
           req[q].at \in {"fetching", "cleared", "closing"},
           Revert(q), engineFile' = engineFile, disk' = disk, overlapped' = overlapped,
           failures' \in Nat, failures <= failures'
    PROVE  EngineStepOK(q, e)
<1>0. /\ req[q].on = e /\ e \in EngineIds /\ RequestsTyped /\ EnginesTyped /\ failures \in Nat
      /\ req[q].kind = "install" /\ EngineOK(req[q].was) /\ IsRequest(req[q])
  BY EngineRequestFacts, PlaceFacts DEF EngineBefore
<1>1. Notices(q) BY SteadyNotices DEF EngineBefore
<1>2. PICK s : s = [req[q].was EXCEPT !.status = "failed"] BY Zenon
<1>3. EngineOK(s) /\ s.version = req[q].was.version /\ s.status = "failed" BY <1>0, <1>2, EngineStatesOK
<1>4. Updated(q, e, "ending", s) BY <1>0, <1>2, <1>3, EngineUpdates DEF Revert, Places
<1>5. EnginesTyped' BY <1>0, <1>4 DEF EnginesTyped, Updated
<1>6. OnlyMoves(q) /\ (Alone(q)' => Alone(q)) BY <1>1, <1>4, AloneBefore DEF Updated, Stands
<1>7. req[q].at # "closing" => req[q].was.version = engines[e].version BY <1>0 DEF EngineHere, EngineBefore, Opening
<1>8. Alone(q) => req[q].was.version = engineFile[e].version BY DEF EngineHere, EngineBefore
<1>9. EngineHere(q, e)'
  BY <1>0, <1>3, <1>4, <1>6 DEF EngineHere, EngineBefore, Opening, Updated, Stands, HasFields, Busy
<1>10. Touches(q, e)
  BY <1>0, <1>1, <1>3, <1>4, <1>6, <1>8
  DEF Touches, For, EngineBefore, Usable, Updated, Stands, HasFields, EngineKinds
<1> QED BY <1>4, <1>5, <1>9, <1>10 DEF EngineStepOK, Updated

-----------------------------------------------------------------------------
(* The steps of a request for an engine *)

LEMMA CheckedStep ==
    ASSUME NEW q \in Requests, NEW e, EngineBefore(q, e), Handled(q), InstallChecked(q)
    PROVE  EngineStepOK(q, e)
<1>0. req[q].on = e /\ e \in EngineIds /\ IsRequest(req[q]) /\ req[q].kind = "install" /\ req[q].at = "checking"
      /\ EngineOK(req[q].was) /\ EngineOK(engines[e]) /\ req[q].arg \in Versions
      /\ RequestsTyped /\ EnginesTyped /\ failures \in Nat
  BY EngineRequestFacts DEF InstallChecked, Steps, EngineBefore
<1>1. Notices(q) /\ failures' = failures /\ engineFile' = engineFile /\ disk' = disk
  BY DEF InstallChecked, Steps, Notices, EngineBefore
<1>2. CASE req[q].arg \in disk[e]
  BY <1>0, <1>1, <1>2, EngineGivesUp DEF InstallChecked, Steps, Under, Opening
<1>3. CASE req[q].arg \notin disk[e]
  <2> DEFINE m == req[q]
  <2>0. Updates(q, Opened(m.was), "opening") BY <1>0, <1>3 DEF InstallChecked, Under
  <2>1. /\ EngineOK(Opened(m.was)) /\ Opened(m.was).version = m.was.version
        /\ Opened(m.was).status \in Busy /\ "opening" \in Places(m.kind)
    BY <1>0, EngineStatesOK DEF Places
  <2>2. PICK s : s = Opened(m.was) BY Zenon
  <2>3. Updated(q, e, "opening", s) BY <2>0, <2>1, <2>2, EngineUpdates
  <2>4. engines'[e].version = m.was.version /\ engines'[e].status \in Busy BY <2>1, <2>2, <2>3 DEF Updated
  <2>5. EnginesTyped' BY <1>0, <1>1, <2>3 DEF EnginesTyped, Updated
  <2>6. OnlyMoves(q) /\ (Alone(q)' => Alone(q)) BY <1>1, <2>3, AloneBefore DEF Stands, Updated
  <2>7. m.was.version = engines[e].version BY <1>0 DEF EngineHere, EngineBefore
  <2>8. EngineHere(q, e)'
    BY <1>0, <1>1, <2>3, <2>4, <2>6 DEF EngineHere, EngineBefore, Opening, Updated, Stands, HasFields
  <2>9. Touches(q, e)
    BY <1>0, <1>1, <2>3, <2>4, <2>6, <2>7
    DEF Touches, For, EngineBefore, Usable, Updated, Stands, HasFields, EngineKinds, Busy
  <2> QED BY <2>3, <2>5, <2>8, <2>9 DEF EngineStepOK, Updated
<1> QED BY <1>2, <1>3

LEMMA ClearedStep ==
    ASSUME NEW q \in Requests, NEW e, EngineBefore(q, e), Handled(q), Cleared(q)
    PROVE  EngineStepOK(q, e)
<1> DEFINE m == req[q]
<1>0. /\ m.on = e /\ e \in EngineIds /\ IsRequest(m) /\ m.kind = "install" /\ m.at = "fetching"
      /\ RequestOK(m) /\ EngineRequestOK(m) /\ m.save = "none"
      /\ RequestsTyped /\ EnginesTyped /\ failures \in Nat
  BY EngineRequestFacts, PlaceFacts DEF Cleared, Steps, EngineBefore
<1>1. Notices(q) /\ failures' = failures /\ engines' = engines /\ engineFile' = engineFile
  BY SteadyNotices DEF Cleared, Steps, EngineBefore
<1>2. Stands(q, m.kind, m.on, m.arg, "cleared", m.was, m.save, m.snap) BY <1>0, Moved, Zenon DEF Cleared
<1>3. RequestsTyped' /\ Handled(q)' /\ OnlyMoves(q)
  <2>1. IsRequest(req'[q]) /\ req'[q].kind = "install" /\ req'[q].at = "cleared"
    BY <1>0, <1>2 DEF Stands, HasFields
  <2>2. EngineRequestOK(req'[q]) BY <1>0, <1>2 DEF Stands, HasFields, EngineRequestOK
  <2>3. RequestOK(req'[q]) BY <2>1, <2>2 DEF RequestOK, EngineKinds, Places
  <2> QED BY <1>0, <1>2, <2>3, StandsTyped
<1>4. /\ disk' \in [EngineIds -> SUBSET Versions] /\ disk'[e] = disk[e] \ {m.arg}
      /\ \A d \in EngineIds \ {e} : disk'[d] = disk[d]
  <2>1. disk' = [disk EXCEPT ![e] = disk[e] \ {m.arg}] BY <1>0 DEF Cleared, Under
  <2>2. disk[e] \ {m.arg} \in SUBSET Versions BY <1>0 DEF EnginesTyped
  <2> QED BY <1>0, <2>1, <2>2 DEF EnginesTyped
<1>5. EnginesTyped' BY <1>0, <1>1, <1>4 DEF EnginesTyped
<1>6. Alone(q)' => Alone(q) BY <1>1, <1>3, AloneBefore
<1>7. EngineHere(q, e)'
  BY <1>0, <1>1, <1>2, <1>3, <1>6 DEF EngineHere, EngineBefore, Opening, Stands, HasFields
<1>8. Touches(q, e)
  BY <1>0, <1>1, <1>2, <1>3, <1>4 DEF Touches, For, EngineBefore, Usable, Stands, HasFields, EngineKinds
<1> QED BY <1>3, <1>5, <1>7, <1>8 DEF EngineStepOK

LEMMA PlacedStep ==
    ASSUME NEW q \in Requests, NEW e, EngineBefore(q, e), Handled(q), Placed(q)
    PROVE  EngineStepOK(q, e)
<1> DEFINE m == req[q]
<1>0. /\ m.on = e /\ e \in EngineIds /\ m.kind = "install" /\ m.at = "cleared"
      /\ m.was.versions \in SUBSET Versions /\ m.arg \in Versions
      /\ RequestsTyped /\ EnginesTyped /\ failures \in Nat
  BY EngineRequestFacts, PlaceFacts DEF Placed, Steps, EngineBefore
<1>1. Notices(q) /\ failures' = failures /\ engineFile' = engineFile
  BY SteadyNotices DEF Placed, Steps, EngineBefore
<1>2. PICK s : s = Installed(m.arg, m.was.versions) BY Zenon
<1>3. EngineOK(s) /\ s.version = m.arg /\ s.status = "installed" BY <1>0, <1>2, InstalledOK, SMT
<1>4. Updated(q, e, "closing", s) BY <1>0, <1>2, <1>3, EngineUpdates DEF Placed, Places
<1>5. /\ disk' \in [EngineIds -> SUBSET Versions] /\ disk'[e] = disk[e] \cup {m.arg}
      /\ \A d \in EngineIds \ {e} : disk'[d] = disk[d]
  <2>1. disk' = [disk EXCEPT ![e] = disk[e] \cup {m.arg}] BY <1>0 DEF Placed, Under
  <2>2. disk[e] \cup {m.arg} \in SUBSET Versions BY <1>0 DEF EnginesTyped
  <2> QED BY <1>0, <2>1, <2>2 DEF EnginesTyped
<1>6. EnginesTyped' BY <1>0, <1>1, <1>4, <1>5 DEF EnginesTyped, Updated
<1>7. OnlyMoves(q) /\ (Alone(q)' => Alone(q)) BY <1>1, <1>4, AloneBefore DEF Updated, Stands
<1>8. EngineHere(q, e)'
  BY <1>0, <1>1, <1>3, <1>4, <1>7 DEF EngineHere, EngineBefore, Opening, Updated, Stands, HasFields, Busy
<1>9. Touches(q, e)
  BY <1>0, <1>1, <1>3, <1>4, <1>5, <1>7
  DEF Touches, For, EngineBefore, Usable, Updated, Stands, HasFields, EngineKinds
<1> QED BY <1>4, <1>6, <1>8, <1>9 DEF EngineStepOK, Updated

LEMMA InstallFailsStep ==
    ASSUME NEW q \in Requests, NEW e, EngineBefore(q, e), Handled(q), InstallFails(q)
    PROVE  EngineStepOK(q, e)
BY EngineReverts DEF InstallFails, Steps, EngineBefore

LEMMA ActivatedStep ==
    ASSUME NEW q \in Requests, NEW e, EngineBefore(q, e), Handled(q), Activated(q)
    PROVE  EngineStepOK(q, e)
<1> DEFINE m == req[q]
<1>0. /\ m.on = e /\ e \in EngineIds /\ m.kind = "activate" /\ m.at = "checking"
      /\ engines[e].versions \in SUBSET Versions /\ m.arg \in Versions
      /\ RequestsTyped /\ EnginesTyped /\ failures \in Nat
  BY EngineRequestFacts DEF Activated, Steps, EngineBefore
<1>1. Notices(q) /\ failures' = failures /\ engineFile' = engineFile /\ disk' = disk /\ overlapped' = overlapped
  BY SteadyNotices DEF Activated, Steps, EngineBefore
<1>2. CASE m.arg \notin disk[e]
  BY <1>0, <1>1, <1>2, EngineGivesUp DEF Activated, Under, Opening
<1>3. CASE m.arg \in disk[e]
  <2>1. PICK s : s = Installed(m.arg, engines[e].versions) BY Zenon
  <2>2. EngineOK(s) /\ s.version = m.arg /\ s.status = "installed" BY <1>0, <2>1, InstalledOK, SMT
  <2>3. Updated(q, e, "ending", s) BY <1>0, <1>3, <2>1, <2>2, EngineUpdates DEF Activated, Under, Places
  <2>4. EnginesTyped' BY <1>0, <1>1, <2>3 DEF EnginesTyped, Updated
  <2>5. OnlyMoves(q) /\ (Alone(q)' => Alone(q)) BY <1>1, <2>3, AloneBefore DEF Updated, Stands
  <2>6. EngineHere(q, e)'
    BY <1>0, <1>1, <2>2, <2>3, <2>5 DEF EngineHere, EngineBefore, Opening, Updated, Stands, HasFields, Busy
  <2>7. Touches(q, e)
    BY <1>0, <1>1, <1>3, <2>2, <2>3, <2>5
    DEF Touches, For, EngineBefore, Usable, Updated, Stands, HasFields, EngineKinds
  <2> QED BY <2>3, <2>4, <2>6, <2>7 DEF EngineStepOK, Updated
<1> QED BY <1>2, <1>3

LEMMA RemovedStep ==
    ASSUME NEW q \in Requests, NEW e, EngineBefore(q, e), Handled(q), Removed(q)
    PROVE  EngineStepOK(q, e)
<1> DEFINE m == req[q]
<1>0. /\ m.on = e /\ e \in EngineIds /\ m.kind = "uninstall" /\ m.at = "removing"
      /\ EngineOK(engines[e])
      /\ RequestsTyped /\ EnginesTyped /\ failures \in Nat
  BY EngineRequestFacts DEF Removed, Steps, EngineBefore
<1>1. Notices(q) /\ failures' = failures /\ engineFile' = engineFile /\ overlapped' = overlapped
  BY SteadyNotices DEF Removed, Steps, EngineBefore
<1>2. PICK s : s = Absent BY Zenon
<1>3. EngineOK(s) /\ s.status = "absent" BY <1>0, <1>2, EngineStatesOK
<1>4. Updated(q, e, "ending", s) BY <1>0, <1>2, <1>3, EngineUpdates DEF Removed, Places
<1>5. /\ disk' \in [EngineIds -> SUBSET Versions] /\ \A d \in EngineIds \ {e} : disk'[d] = disk[d]
  <2>1. disk' = [disk EXCEPT ![e] = {}] BY <1>0 DEF Removed, Under
  <2> QED BY <1>0, <2>1 DEF EnginesTyped
<1>6. EnginesTyped' BY <1>0, <1>1, <1>4, <1>5 DEF EnginesTyped, Updated
<1>7. OnlyMoves(q) /\ (Alone(q)' => Alone(q)) BY <1>1, <1>4, AloneBefore DEF Updated, Stands
<1>8. EngineHere(q, e)'
  BY <1>0, <1>1, <1>3, <1>4, <1>7 DEF EngineHere, EngineBefore, Opening, Updated, Stands, HasFields, Busy
<1>9. Touches(q, e)
  BY <1>0, <1>1, <1>3, <1>4, <1>5, <1>7
  DEF Touches, For, EngineBefore, Usable, Updated, Stands, HasFields, EngineKinds
<1> QED BY <1>4, <1>6, <1>8, <1>9 DEF EngineStepOK, Updated

LEMMA SaveTakenStep ==
    ASSUME NEW q \in Requests, NEW e, EngineBefore(q, e), Handled(q), SaveTaken(q)
    PROVE  EngineStepOK(q, e)
<1> DEFINE m == req[q]
<1>0. /\ m.on = e /\ e \in EngineIds /\ IsRequest(m) /\ m.kind \in EngineKinds /\ m.at \in Places(m.kind)
      /\ EngineRequestOK(m) /\ m.save = "making" /\ m.at \notin Opening \ {"opening"} /\ m.at # "checking"
      /\ RequestsTyped /\ EnginesTyped /\ failures \in Nat
  BY EngineRequestFacts, PlaceFacts DEF SaveTaken, Saving, EngineBefore, Opening
<1>1. /\ Notices(q) /\ failures' = failures /\ engines' = engines /\ engineFile' = engineFile /\ disk' = disk
  BY SteadyNotices DEF SaveTaken, EngineBefore, engineVars
<1>2. Stands(q, m.kind, m.on, m.arg, m.at, m.was, "written", engines) BY <1>0, Moved, Zenon DEF SaveTaken
<1>3. RequestsTyped' /\ Handled(q)' /\ OnlyMoves(q)
  <2>1. IsRequest(req'[q]) /\ req'[q].kind = m.kind /\ req'[q].at = m.at BY <1>2 DEF Stands, HasFields
  <2>2. EngineRequestOK(req'[q]) BY <1>0, <1>2 DEF Stands, HasFields, EngineRequestOK, EnginesTyped
  <2>3. RequestOK(req'[q]) BY <1>0, <2>1, <2>2 DEF RequestOK
  <2> QED BY <1>0, <1>2, <2>3, StandsTyped
<1>4. EnginesTyped' BY <1>0, <1>1 DEF EnginesTyped
<1>5. Alone(q)' => Alone(q) BY <1>1, <1>3, AloneBefore
<1>6. EngineHere(q, e)'
  BY <1>0, <1>1, <1>2, <1>3, <1>5 DEF EngineHere, EngineBefore, Opening, Stands, HasFields
<1>7. Touches(q, e)
  BY <1>0, <1>1, <1>2, <1>3 DEF Touches, For, EngineBefore, Usable, Stands, HasFields
<1> QED BY <1>3, <1>4, <1>6, <1>7 DEF EngineStepOK

LEMMA SaveLandsStep ==
    ASSUME NEW q \in Requests, NEW e, EngineBefore(q, e), Handled(q), SaveLands(q)
    PROVE  EngineStepOK(q, e)
<1> DEFINE m == req[q]
<1>0. /\ m.on = e /\ e \in EngineIds /\ IsRequest(m) /\ m.kind \in EngineKinds
      /\ RequestOK(m) /\ EngineRequestOK(m) /\ m.save = "written" /\ EnginesOK(m.snap)
      /\ m.at \in {"opening", "closing", "ending"}
      /\ RequestsTyped /\ EnginesTyped /\ failures \in Nat
  BY EngineRequestFacts, PlaceFacts DEF SaveLands, Saving, EngineBefore
<1>1. /\ Notices(q) /\ failures' = failures /\ engines' = engines /\ engineFile' = m.snap /\ disk' = disk
  BY SteadyNotices DEF SaveLands, EngineBefore
<1>2. EnginesTyped' BY <1>0, <1>1 DEF EnginesTyped
<1>3. Alone(q) => engineFile' = engines BY <1>0, <1>1 DEF EngineHere, EngineBefore
<1>4. CASE m.at = "opening"
  <2>0. m.kind = "install" BY <1>0, <1>4, PlaceFacts
  <2>1. Stands(q, m.kind, m.on, m.arg, "fetching", m.was, "none", <<>>)
    BY <1>0, <1>4, Moved, Zenon DEF SaveLands
  <2>2. RequestsTyped' /\ Handled(q)' /\ OnlyMoves(q)
    <3>1. IsRequest(req'[q]) /\ req'[q].kind = "install" /\ req'[q].at = "fetching"
      BY <2>0, <2>1 DEF Stands, HasFields
    <3>2. EngineRequestOK(req'[q]) BY <1>0, <2>1 DEF Stands, HasFields, EngineRequestOK
    <3>3. RequestOK(req'[q]) BY <3>1, <3>2 DEF RequestOK, Places, EngineKinds
    <3> QED BY <1>0, <2>1, <3>3, StandsTyped
  <2>3. Alone(q)' => Alone(q) BY <1>1, <2>2, AloneBefore
  <2>4. EngineHere(q, e)'
    BY <1>0, <1>1, <1>3, <1>4, <2>0, <2>1, <2>2, <2>3 DEF EngineHere, EngineBefore, Opening, Stands, HasFields
  <2>5. Touches(q, e)
    BY <1>0, <1>1, <1>3, <1>4, <2>0, <2>1, <2>2 DEF Touches, For, EngineBefore, Usable, Stands, HasFields
  <2> QED BY <1>2, <2>2, <2>4, <2>5 DEF EngineStepOK
<1>5. CASE m.at # "opening"
  <2>1. RequestsTyped' /\ ~Handled(q)' /\ OnlyMoves(q) BY <1>0, <1>5, Ended, IsEnded DEF Over, SaveLands
  <2>2. Alone(q)' => Alone(q) BY <1>1, <2>1, AloneBefore
  <2>3. EngineHere(q, e)'
    BY <1>0, <1>1, <1>3, <1>5, <2>1, <2>2 DEF EngineHere, EngineBefore, Opening
  <2>4. Touches(q, e)
    BY <1>0, <1>1, <1>3, <1>5, <2>1 DEF Touches, For, EngineBefore, Usable
  <2> QED BY <1>2, <2>1, <2>3, <2>4 DEF EngineStepOK
<1> QED BY <1>4, <1>5

\* A save that fails leaves the memory ahead of the file, but for the last of an installation.
LEMMA SaveFailsStep ==
    ASSUME NEW q \in Requests, NEW e, EngineBefore(q, e), Handled(q), SaveFails(q)
    PROVE  EngineStepOK(q, e)
<1>0. RequestsTyped /\ EnginesTyped /\ failures \in Nat /\ req[q].on = e /\ e \in EngineIds
  BY EngineRequestFacts DEF EngineBefore
<1>1. failures' = failures + 1 /\ overlapped' = overlapped /\ engineFile' = engineFile /\ disk' = disk
  BY DEF SaveFails, Breaks
<1>2. CASE req[q].at = "closing"
  BY <1>0, <1>1, <1>2, EngineReverts DEF SaveFails
<1>3. CASE req[q].at # "closing"
  <2>0. Ends(q) /\ engines' = engines BY <1>3 DEF SaveFails
  <2>1. Notices(q) BY <1>1, SteadyNotices DEF EngineBefore
  <2>2. RequestsTyped' /\ ~Handled(q)' /\ OnlyMoves(q) BY <1>0, <2>0, Ended, IsEnded DEF Over
  <2>3. EnginesTyped' BY <1>0, <1>1, <2>0 DEF EnginesTyped
  <2>4. EngineHere(q, e)' BY <1>0, <1>1, <2>2 DEF EngineHere
  <2>5. Touches(q, e) BY <1>0, <1>1, <2>0, <2>1, <2>2 DEF Touches, For, EngineBefore, Usable
  <2> QED BY <2>2, <2>3, <2>4, <2>5 DEF EngineStepOK
<1> QED BY <1>2, <1>3

-----------------------------------------------------------------------------
(* A request for an engine is made *)

\* Its first await changes nothing.
LEMMA EngineBegins ==
    ASSUME NEW q \in Requests, NEW e \in EngineIds, EngineBefore(q, e), ~Handled(q),
           NEW k \in {"install", "activate", "uninstall"}, NEW a, NEW t \in {"checking", "removing"},
           t \in Places(k), k \in {"install", "activate"} => a \in Versions,
           Begins(q, k, e, a, t, engines[e]), UNCHANGED engineVars
    PROVE  EngineStepOK(q, e)
<1>0. RequestsTyped /\ EnginesTyped /\ failures \in Nat /\ EngineOK(engines[e])
  BY DEF EngineBefore, EnginesTyped, EnginesOK
<1>1. /\ Notices(q) /\ failures' = failures /\ engines' = engines /\ engineFile' = engineFile /\ disk' = disk
  BY DEF Begins, engineVars, Notices
<1>2. Stands(q, k, e, a, t, engines[e], "none", <<>>) BY <1>0, Begun, Zenon DEF Begins
<1>3. RequestsTyped' /\ Handled(q)' /\ OnlyMoves(q)
  <2>1. IsRequest(req'[q]) /\ req'[q].kind = k /\ req'[q].at = t BY <1>2 DEF Stands, HasFields
  <2>2. EngineRequestOK(req'[q]) BY <1>0, <1>2 DEF Stands, HasFields, EngineRequestOK
  <2>3. RequestOK(req'[q]) BY <2>1, <2>2 DEF RequestOK, EngineKinds
  <2> QED BY <1>0, <1>2, <2>3, StandsTyped
<1>4. EnginesTyped' BY <1>0, <1>1 DEF EnginesTyped
<1>5. Alone(q)' => Alone(q) BY <1>1, <1>3, AloneBefore
<1>6. EngineHere(q, e)'
  BY <1>0, <1>1, <1>2, <1>3, <1>5 DEF EngineHere, EngineBefore, Opening, Stands, HasFields
<1>7. Touches(q, e)
  BY <1>0, <1>1, <1>2, <1>3 DEF Touches, For, EngineBefore, Usable, Stands, HasFields, EngineKinds
<1> QED BY <1>3, <1>4, <1>6, <1>7 DEF EngineStepOK

\* Or it reaches update before its first await.
LEMMA EngineBeginsUpdated ==
    ASSUME NEW q \in Requests, NEW e \in EngineIds, EngineBefore(q, e), ~Handled(q),
           NEW k, NEW a, NEW t, \/ k = "install" /\ t = "opening" /\ a \in Versions
                                \/ k = "enable" /\ t = "ending",
           NEW s, EngineOK(s), s.version = engines[e].version,
           k = "enable" => s.status \notin Busy, k = "install" => s.status # "installed",
           UpdatesAtOnce(q, k, e, a, s, t)
    PROVE  EngineStepOK(q, e)
<1>0. RequestsTyped /\ EnginesTyped /\ failures \in Nat /\ EngineOK(engines[e])
  BY DEF EngineBefore, EnginesTyped, EnginesOK
<1>1. /\ Notices(q) /\ failures' = failures /\ engineFile' = engineFile /\ disk' = disk
  BY DEF UpdatesAtOnce, Notices
<1>2. Stands(q, k, e, a, t, engines[e], "making", <<>>) BY <1>0, Begun, Zenon DEF UpdatesAtOnce
<1>3. RequestsTyped' /\ Handled(q)' /\ OnlyMoves(q)
  <2>1. IsRequest(req'[q]) /\ req'[q].kind = k /\ req'[q].at = t BY <1>2 DEF Stands, HasFields
  <2>2. EngineRequestOK(req'[q]) BY <1>0, <1>2 DEF Stands, HasFields, EngineRequestOK
  <2>3. RequestOK(req'[q]) BY <2>1, <2>2 DEF RequestOK, EngineKinds, Places
  <2> QED BY <1>0, <1>2, <2>3, StandsTyped
<1>4. EnginesOK(engines') /\ engines'[e] = s /\ \A d \in EngineIds \ {e} : engines'[d] = engines[d]
  BY <1>0, EngineSet DEF UpdatesAtOnce, EnginesTyped
<1>5. EnginesTyped' BY <1>0, <1>1, <1>4 DEF EnginesTyped
<1>6. Alone(q)' => Alone(q) BY <1>1, <1>3, AloneBefore
<1>7. EngineHere(q, e)'
  BY <1>0, <1>1, <1>2, <1>3, <1>4, <1>6 DEF EngineHere, EngineBefore, Opening, Stands, HasFields
<1>8. Touches(q, e)
  BY <1>0, <1>1, <1>2, <1>3, <1>4 DEF Touches, For, EngineBefore, Usable, Stands, HasFields, EngineKinds
<1> QED BY <1>3, <1>5, <1>7, <1>8 DEF EngineStepOK

LEMMA EngineAskedStep ==
    ASSUME NEW q \in Requests, NEW e \in EngineIds, EngineBefore(q, e), ~Handled(q), EngineAsked(q, e)
    PROVE  EngineStepOK(q, e)
<1>0. EngineOK(engines[e]) /\ engines[e] \in EngineStates
  BY DEF EngineBefore, EnginesTyped, EnginesOK, EngineOK
<1>1. ASSUME NEW v \in Versions, Install(q, e, v) PROVE EngineStepOK(q, e)
  <2>1. CASE Begins(q, "install", e, v, "checking", engines[e]) /\ UNCHANGED engineVars
    BY <2>1, EngineBegins DEF Places
  <2>2. CASE UpdatesAtOnce(q, "install", e, v, Opened(engines[e]), "opening")
    <3>1. PICK s : s = Opened(engines[e]) BY Zenon
    <3>2. EngineOK(s) /\ s.version = engines[e].version /\ s.status # "installed"
      BY <1>0, <3>1, EngineStatesOK DEF Busy
    <3> QED BY <2>2, <3>1, <3>2, EngineBeginsUpdated
  <2> QED BY <1>1, <2>1, <2>2 DEF Install
<1>2. ASSUME NEW v \in Versions, Activate(q, e, v) PROVE EngineStepOK(q, e)
  BY <1>2, EngineBegins DEF Activate, Places
<1>3. ASSUME NEW on \in BOOLEAN, SetEnabled(q, e, on) PROVE EngineStepOK(q, e)
  <2>1. PICK s : s = [engines[e] EXCEPT !.on = on,
                           !.status = IF ~on THEN "disabled"
                                      ELSE IF engines[e].version = NoVersion THEN "absent"
                                      ELSE "installed"] BY Zenon
  <2>2. EngineOK(s) /\ s.version = engines[e].version /\ s.status \notin Busy
    BY <1>0, <2>1 DEF EngineOK, EngineStates, Busy
  <2> QED BY <1>3, <2>1, <2>2, EngineBeginsUpdated DEF SetEnabled
<1>4. ASSUME Uninstall(q, e) PROVE EngineStepOK(q, e)
  BY <1>4, EngineBegins DEF Uninstall, Places
<1> QED BY <1>1, <1>2, <1>3, <1>4 DEF EngineAsked

-----------------------------------------------------------------------------
(* From one engine to all of them *)

LEMMA HereFromInv ==
    ASSUME TypesOK, EngineInv, up, NEW q \in Requests, NEW e \in EngineIds,
           (OnEngine(q) /\ req[q].on = e) \/ (~Handled(q) /\ On(e) = {})
    PROVE  EngineBefore(q, e)
<1>1. RequestsTyped /\ EnginesTyped /\ failures \in Nat /\ overlapped \in BOOLEAN
  BY DEF TypesOK, CountersTyped
<1>2. For(q, e) /\ (Handled(q) \/ On(e) = {}) BY DEF For, OnEngine
<1>3. ASSUME failures = 0, engines[e].status \in Busy PROVE Handled(q) /\ req[q].kind = "install"
  <2>1. PICK p \in On(e) : req[p].kind = "install" BY <1>3 DEF EngineInv, BusyOK, InterruptedIsMarked, Busy
  <2>2. p \in Requests /\ OnEngine(p) /\ req[p].on = e BY <2>1 DEF On, InFlight, OnEngine, EngineKinds
  <2>3. p = q BY <1>2, <2>1, <2>2 DEF EngineInv, ExclusiveOK, OnEngine
  <2> QED BY <2>1, <2>2, <2>3 DEF OnEngine
<1>4. failures = 0 /\ Handled(q) /\ req[q].at \notin Opening => engines[e].status \notin Busy
  BY DEF EngineInv, BusyOK, Opening, OnEngine
<1>5. /\ Handled(q) /\ req[q].at \in Opening \cup {"checking"} => req[q].was.version = engines[e].version
      /\ Handled(q) /\ req[q].at = "closing" => req[q].arg = engines[e].version
  BY DEF EngineInv, OpenedOK, PlacedOK, Opening, OnEngine
<1>6. ASSUME Alone(q)
      PROVE  /\ Handled(q) /\ req[q].save = "written" => req[q].snap = engines
             /\ Handled(q) /\ req[q].at \in {"fetching", "cleared", "closing"} =>
                   engineFile[e].version = req[q].was.version
             /\ failures = 0 => \A d \in EngineIds :
                   d # e \/ ~Handled(q) \/ req[q].at \in {"checking", "removing"}
                   => engineFile[d] = engines[d]
  <2>1. ~overlapped /\ \A p \in Requests : Handled(p) => p = q BY <1>6 DEF Alone
  <2>2. ASSUME failures = 0, NEW d \in EngineIds,
               d # e \/ ~Handled(q) \/ req[q].at \in {"checking", "removing"}
        PROVE  engineFile[d] = engines[d]
    <3>1. \A p \in Requests : OnEngine(p) /\ req[p].on = d => req[p].at \in {"checking", "removing"}
      BY <2>1, <2>2 DEF OnEngine
    <3> QED BY <2>1, <2>2, <3>1 DEF EngineInv, SavedOK
  <2> QED BY <2>1, <2>2 DEF EngineInv, SavedOK, OnEngine
<1> QED BY <1>1, <1>2, <1>3, <1>4, <1>5, <1>6 DEF EngineBefore, EngineHere

LEMMA EngineInvStep ==
    ASSUME TypesOK, AloneOK, EngineInv, up, NEW q \in Requests, NEW e \in EngineIds,
           EngineBefore(q, e), EngineStepOK(q, e)
    PROVE  EngineInv'
<1>0. /\ EngineHere(q, e)' /\ OnlyMoves(q) /\ Notices(q) /\ For(q, e) /\ For(q, e)' /\ failures \in Nat
      /\ Handled(q) \/ (Handled(q)' /\ On(e) = {})
      /\ \A d \in EngineIds \ {e} : engines'[d] = engines[d]
      /\ failures' \in Nat /\ failures <= failures'
      /\ RequestsTyped /\ RequestsTyped'
  BY DEF EngineStepOK, Touches, EngineBefore
<1>1. \A p \in Requests \ {q} : req'[p] = req[p] /\ (Handled(p)' <=> Handled(p)) /\ (OnEngine(p)' <=> OnEngine(p))
  BY <1>0 DEF OnlyMoves, Handled, OnEngine
<1>2. Handled(q)' <=> OnEngine(q)' BY <1>0 DEF For, OnEngine
<1>3. ~overlapped' => Alone(q)' BY <1>0, StepsAlone
<1>4. \A p \in Requests : OnEngine(p) => req[p].on \in EngineIds
  BY HandledFacts, PlaceFacts, <1>0 DEF OnEngine, EngineRequestOK
<1>5. ExclusiveOK'
  <2>1. \A p \in Requests \ {q} : OnEngine(p) => req[p].on # e
    BY <1>0 DEF EngineInv, ExclusiveOK, For, OnEngine, On, InFlight
  <2>2. \A p, r \in Requests \ {q} : OnEngine(p)' /\ OnEngine(r)' /\ req'[p].on = req'[r].on => p = r
    BY <1>1 DEF EngineInv, ExclusiveOK
  <2>3. OnEngine(q)' => req'[q].on = e BY <1>0 DEF For, OnEngine
  <2> QED BY <1>1, <2>1, <2>2, <2>3 DEF ExclusiveOK
<1>6. \A p \in Requests \ {q} : OnEngine(p)' => req'[p].on \in EngineIds \ {e}
  BY <1>0, <1>1, <1>4 DEF EngineInv, ExclusiveOK, For, OnEngine, On, InFlight
<1>7. BusyOK'
  <2> SUFFICES ASSUME failures' = 0
               PROVE  /\ InterruptedIsMarked'
                      /\ \A p \in Requests : OnEngine(p)' /\ req'[p].at \notin {"opening", "fetching", "cleared"} =>
                            engines'[req'[p].on].status \notin Busy
    BY DEF BusyOK
  <2>1. failures = 0 BY <1>0
  <2>2. ASSUME NEW d \in EngineIds, engines'[d].status \in Busy
        PROVE  \E p \in On(d)' : req'[p].kind = "install"
    <3>1. CASE d = e
      <4>1. Handled(q)' /\ req'[q].kind = "install" BY <1>0, <2>2, <3>1 DEF EngineHere
      <4> QED BY <1>0, <3>1, <4>1 DEF For, On, InFlight
    <3>2. CASE d # e
      <4>1. engines[d].status \in Busy BY <1>0, <2>2, <3>2
      <4>2. PICK p \in On(d) : req[p].kind = "install"
        BY <2>1, <4>1 DEF EngineInv, BusyOK, InterruptedIsMarked, Busy
      <4>3. p \in Requests /\ p # q BY <1>0, <3>2, <4>2 DEF For, On, InFlight
      <4> QED BY <1>1, <4>2, <4>3 DEF On, InFlight
    <3> QED BY <3>1, <3>2
  <2>3. InterruptedIsMarked' BY <2>2 DEF InterruptedIsMarked, Busy
  <2>4. ASSUME NEW p \in Requests, OnEngine(p)', req'[p].at \notin {"opening", "fetching", "cleared"}
        PROVE  engines'[req'[p].on].status \notin Busy
    <3>1. CASE p = q BY <1>0, <2>4, <3>1 DEF EngineHere, Opening, For, OnEngine
    <3>2. CASE p # q BY <1>0, <1>1, <1>6, <2>1, <2>4, <3>2 DEF EngineInv, BusyOK
    <3> QED BY <3>1, <3>2
  <2> QED BY <2>3, <2>4
<1>8. OpenedOK'
  <2> SUFFICES ASSUME NEW p \in Requests, OnEngine(p)', req'[p].at \in {"checking", "opening", "fetching", "cleared"}
               PROVE  req'[p].was.version = engines'[req'[p].on].version
    BY DEF OpenedOK
  <2>1. CASE p = q BY <1>0, <2>1 DEF EngineHere, Opening, For, OnEngine
  <2>2. CASE p # q BY <1>0, <1>1, <1>6, <2>2 DEF EngineInv, OpenedOK
  <2> QED BY <2>1, <2>2
<1>9. PlacedOK'
  <2> SUFFICES ASSUME NEW p \in Requests, OnEngine(p)', req'[p].at = "closing"
               PROVE  req'[p].arg = engines'[req'[p].on].version
    BY DEF PlacedOK
  <2>1. CASE p = q BY <1>0, <2>1 DEF EngineHere, For, OnEngine
  <2>2. CASE p # q BY <1>0, <1>1, <1>6, <2>2 DEF EngineInv, PlacedOK
  <2> QED BY <2>1, <2>2
<1>10. SavedOK'
  <2> SUFFICES ASSUME ~overlapped'
               PROVE  /\ \A p \in Requests : OnEngine(p)' /\ req'[p].save = "written" => req'[p].snap = engines'
                      /\ \A p \in Requests : OnEngine(p)' /\ req'[p].at \in {"fetching", "cleared", "closing"} =>
                            engineFile'[req'[p].on].version = req'[p].was.version
                      /\ failures' = 0 => \A d \in EngineIds :
                            (\A p \in Requests : OnEngine(p)' /\ req'[p].on = d => req'[p].at \in {"checking", "removing"})
                            => engineFile'[d] = engines'[d]
    BY DEF SavedOK
  <2>1. Alone(q)' BY <1>3
  <2>2. \A p \in Requests : OnEngine(p)' => p = q BY <2>1 DEF Alone, OnEngine
  <2>3. /\ Handled(q)' /\ req'[q].save = "written" => req'[q].snap = engines'
        /\ Handled(q)' /\ req'[q].at \in {"fetching", "cleared", "closing"} =>
              engineFile'[e].version = req'[q].was.version
        /\ failures' = 0 => \A d \in EngineIds :
              d # e \/ ~Handled(q)' \/ req'[q].at \in {"checking", "removing"} => engineFile'[d] = engines'[d]
    BY <1>0, <2>1 DEF EngineHere
  <2>4. Handled(q)' => req'[q].on = e BY <1>0 DEF For
  <2>5. ASSUME failures' = 0, NEW d \in EngineIds,
               \A p \in Requests : OnEngine(p)' /\ req'[p].on = d => req'[p].at \in {"checking", "removing"}
        PROVE  engineFile'[d] = engines'[d]
    BY <1>2, <2>3, <2>4, <2>5
  <2> QED BY <1>2, <2>2, <2>3, <2>4, <2>5
<1> QED BY <1>5, <1>7, <1>8, <1>9, <1>10 DEF EngineInv

\* No request of a kind in K begins, moves or ends.
Same(K) ==
    \A p \in Requests :
       (Handled(p) /\ req[p].kind \in K) \/ (Handled(p) /\ req[p].kind \in K)' =>
          Handled(p) /\ Handled(p)' /\ req[p].kind \in K /\ req'[p] = req[p]

LEMMA SameOthers ==
    ASSUME NEW q \in Requests, OnlyMoves(q), NEW K,
           Handled(q) => req[q].kind \notin K, Handled(q)' => req'[q].kind \notin K
    PROVE  Same(K)
BY DEF Same, OnlyMoves, Handled

\* What concerns something else leaves the engines alone.
LEMMA EngineInvElsewhere ==
    ASSUME EngineInv, Same(EngineKinds), ~overlapped' => ~overlapped,
           UNCHANGED engineVars, up' = up, failures \in Nat, failures' \in Nat, failures <= failures'
    PROVE  EngineInv'
<1>1. \A p \in Requests : OnEngine(p)' => OnEngine(p) /\ req'[p] = req[p]
  BY DEF Same, OnEngine
<1>2. \A p \in Requests : OnEngine(p) => OnEngine(p)' /\ req'[p] = req[p]
  BY DEF Same, OnEngine
<1>3. engines' = engines /\ engineFile' = engineFile /\ (failures' = 0 => failures = 0) BY DEF engineVars
<1>4. ExclusiveOK' BY <1>1 DEF EngineInv, ExclusiveOK
<1>5. ASSUME up', failures' = 0 PROVE InterruptedIsMarked'
  <2> SUFFICES ASSUME NEW e \in EngineIds, engines'[e].status \in Busy
               PROVE  \E p \in On(e)' : req'[p].kind = "install"
    BY DEF InterruptedIsMarked, Busy
  <2>1. PICK p \in On(e) : req[p].kind = "install"
    BY <1>3, <1>5 DEF EngineInv, BusyOK, InterruptedIsMarked, Busy
  <2>2. p \in Requests /\ OnEngine(p) /\ req[p].on = e BY <2>1 DEF On, InFlight, OnEngine, EngineKinds
  <2> QED BY <1>2, <2>1, <2>2 DEF On, InFlight, OnEngine
<1>6. BusyOK' BY <1>1, <1>3, <1>5 DEF EngineInv, BusyOK
<1>7. OpenedOK' /\ PlacedOK' BY <1>1, <1>3 DEF EngineInv, OpenedOK, PlacedOK
<1>8. SavedOK'
  <2>1. ASSUME ~overlapped', failures' = 0, NEW e \in EngineIds,
               \A p \in Requests : OnEngine(p)' /\ req'[p].on = e => req'[p].at \in {"checking", "removing"}
        PROVE  engineFile'[e] = engines'[e]
    <3>1. \A p \in Requests : OnEngine(p) /\ req[p].on = e => req[p].at \in {"checking", "removing"}
      BY <1>2, <2>1
    <3> QED BY <1>3, <2>1, <3>1 DEF EngineInv, SavedOK
  <2>2. ASSUME ~overlapped', NEW p \in Requests, OnEngine(p)'
        PROVE  /\ req'[p].save = "written" => req'[p].snap = engines'
               /\ req'[p].at \in {"fetching", "cleared", "closing"} =>
                     engineFile'[req'[p].on].version = req'[p].was.version
    BY <1>1, <1>3, <2>2 DEF EngineInv, SavedOK
  <2> QED BY <2>1, <2>2 DEF SavedOK
<1> QED BY <1>4, <1>6, <1>7, <1>8 DEF EngineInv

-----------------------------------------------------------------------------
(* Agents: what one request leaves, when it is the only one *)

Free(q, a) == Handled(q) => req[q].on # a

\* What holds of the Agents while q is alone
AgentHere(q) ==
    Alone(q) =>
       /\ \A a \in AgentIds : Exists(a, agents[a]) /\ Exists(a, agentFile[a])
       /\ Handled(q) => ExistOK(q)
       /\ failures < 2 =>
             /\ \A a \in AgentIds : Free(q, a) => agents[a] = told[a] /\ agentFile[a] = told[a]
             /\ Handled(q) => AnswerOK(q)
             /\ crashes = 0 =>
                   /\ \A a \in AgentIds : Free(q, a) => Marked(a, agents[a])
                   /\ Handled(q) => MarkOK(q)

ForAgent(q, a) == Handled(q) => req[q].kind \in AgentKinds /\ req[q].on = a

AgentBefore(q, a) ==
    /\ a \in AgentIds /\ RequestsTyped /\ AgentsTyped /\ failures \in Nat /\ crashes \in Nat /\ overlapped \in BOOLEAN
    /\ AgentHere(q) /\ CompiledOK /\ ForAgent(q, a)
    /\ Alone(q) /\ Handled(q) /\ req[q].kind = "delete" => ~Running(a)

\* A step of q leaves the other Agents alone, and says what it does to the workspace and the Runs of a.
AgentTouches(q, a) ==
    /\ OnlyMoves(q) /\ Notices(q) /\ ForAgent(q, a) /\ ForAgent(q, a)'
    /\ (Handled(q) \/ Handled(q)') /\ failures' \in Nat /\ failures <= failures'
    /\ \A b \in AgentIds \ {a} : agents'[b] = agents[b] /\ workspace'[b] = workspace[b]
    /\ Handled(q) /\ Handled(q)' => req'[q].kind = req[q].kind
    /\ ~Handled(q) /\ req'[q].kind = "delete" => ~Running(a)
    /\ workspace'[a] = workspace[a] \/ (Handled(q) /\ req[q].kind = "delete" /\ workspace'[a] = NoRevision)
    /\ Handled(q) /\ req[q].kind = "delete" /\ ~Handled(q)' =>
          workspace'[a] = NoRevision \/ Running(a) \/ failures' > 0
    /\ Alone(q) /\ failures' = 0 /\ agents'[a] # agents[a] =>
          \/ ~Handled(q) /\ Handled(q)' /\ req'[q].kind = "delete"
          \/ agents'[a] # NoAgent /\ (Used(agents[a]) => Used(agents'[a]))

AgentStepOK(q, a) ==
    RequestsTyped' /\ AgentsTyped' /\ AgentHere(q)' /\ CompiledOK' /\ AgentTouches(q, a)

LEMMA AgentRequestFacts ==
    ASSUME NEW q \in Requests, NEW a, AgentBefore(q, a), Handled(q)
    PROVE  /\ IsRequest(req[q]) /\ RequestOK(req[q]) /\ AgentRequestOK(req[q])
           /\ req[q].on = a /\ a \in AgentIds /\ req[q].kind \in AgentKinds
           /\ RequestsTyped /\ AgentsTyped /\ failures \in Nat /\ crashes \in Nat
<1>1. RequestOK(req[q]) BY HandledFacts DEF AgentBefore
<1>2. req[q].kind \in AgentKinds /\ req[q].on = a BY DEF AgentBefore, ForAgent
<1>3. AgentRequestOK(req[q]) BY <1>1, <1>2, PlaceFacts
<1> QED BY <1>1, <1>2, <1>3 DEF RequestOK, AgentBefore

LEMMA AgentsSet ==
    ASSUME agents \in [AgentIds -> AgentStates], NEW a \in AgentIds, NEW s \in AgentStates,
           agents' = [agents EXCEPT ![a] = s]
    PROVE  /\ agents' \in [AgentIds -> AgentStates] /\ agents'[a] = s
           /\ \A b \in AgentIds \ {a} : agents'[b] = agents[b]
OBVIOUS

LEMMA AgentStatesOK ==
    ASSUME NEW s \in AgentStates, s # NoAgent
    PROVE  s.on \in BOOLEAN /\ s.rev \in Revisions \cup {NoRevision} /\ s.by \in Origins
BY DEF AgentStates, Defs

LEMMA DefinitionOK ==
    ASSUME NEW on \in BOOLEAN, NEW rev \in Revisions \cup {NoRevision}, NEW by \in Origins
    PROVE  /\ Definition(on, rev, by) \in AgentStates /\ Definition(on, rev, by) # NoAgent
           /\ Definition(on, rev, by).rev = rev /\ Definition(on, rev, by).by = by
BY DEF AgentStates, Defs, Definition

\* A request reaches the registry at once.
LEMMA AtOnceStep ==
    ASSUME NEW q \in Requests, NEW a, AgentBefore(q, a), ~Handled(q), crashes' = crashes,
           NEW k \in {"put", "delete"}, NEW arg, NEW def \in AgentStates,
           RegisteredAtOnce(q, k, a, arg, def),
           k = "delete" => def = NoAgent /\ ~Running(a),
           k = "put" => /\ def # NoAgent
                        /\ FromActivation(def) => FromActivation(agents[a]) /\ def.rev = agents[a].rev
                        /\ Used(agents[a]) => Used(def)
    PROVE  AgentStepOK(q, a)
<1>0. a \in AgentIds /\ RequestsTyped /\ AgentsTyped /\ failures \in Nat BY DEF AgentBefore
<1>1. /\ Notices(q) /\ failures' = failures /\ agentFile' = agentFile /\ store' = store /\ compiled' = compiled
      /\ active' = active /\ workspace' = workspace /\ partial' = partial /\ told' = told
  BY DEF RegisteredAtOnce, Notices
<1>2. Stands(q, k, a, arg, "registering", agents[a], "none", agents')
  BY <1>0, Begun, Zenon DEF RegisteredAtOnce
<1>3. /\ agents' \in [AgentIds -> AgentStates] /\ agents'[a] = def
      /\ \A b \in AgentIds \ {a} : agents'[b] = agents[b]
  BY <1>0 DEF RegisteredAtOnce, AgentsTyped
<1>4. RequestsTyped' /\ Handled(q)' /\ OnlyMoves(q)
  <2>1. IsRequest(req'[q]) /\ req'[q].kind = k /\ req'[q].at = "registering" BY <1>2 DEF Stands, HasFields
  <2>2. AgentRequestOK(req'[q]) BY <1>0, <1>2, <1>3 DEF Stands, HasFields, AgentRequestOK, AgentsTyped
  <2>3. RequestOK(req'[q]) BY <2>1, <2>2 DEF RequestOK, AgentKinds, Places
  <2> QED BY <1>0, <1>2, <2>3, StandsTyped
<1>5. AgentsTyped' BY <1>0, <1>1, <1>3 DEF AgentsTyped
<1>6. Alone(q)' => Alone(q) BY <1>1, <1>4, AloneBefore
<1>7. ASSUME Alone(q)' PROVE /\ \A b \in AgentIds : Exists(b, agents[b])' /\ Exists(b, agentFile[b])'
                             /\ ExistOK(q)'
  <2>1. \A b \in AgentIds : Exists(b, agents[b]) /\ Exists(b, agentFile[b])
    BY <1>6, <1>7 DEF AgentBefore, AgentHere
  <2>2. FromActivation(def) => FromActivation(agents[a]) /\ def.rev = agents[a].rev BY DEF FromActivation
  <2> QED BY <1>0, <1>1, <1>2, <1>3, <1>4, <2>1, <2>2 DEF Exists, ExistOK, Stands, HasFields
<1>8. ASSUME Alone(q)', failures' < 2
      PROVE  /\ \A b \in AgentIds : Free(q, b)' => agents'[b] = told'[b] /\ agentFile'[b] = told'[b]
             /\ AnswerOK(q)'
  BY <1>0, <1>1, <1>2, <1>3, <1>4, <1>6, <1>8 DEF AgentBefore, AgentHere, Free, AnswerOK, Stands, HasFields
<1>9. ASSUME Alone(q)', failures' < 2, crashes' = 0
      PROVE  /\ \A b \in AgentIds : Free(q, b)' => Marked(b, agents[b])'
             /\ MarkOK(q)'
  <2>1. FromActivation(def) => FromActivation(agents[a]) /\ def.rev = agents[a].rev BY DEF FromActivation
  <2> QED BY <1>0, <1>1, <1>2, <1>3, <1>4, <1>6, <1>9, <2>1
          DEF AgentBefore, AgentHere, Free, Marked, MarkOK, Stands, HasFields
<1>10. AgentHere(q)' BY <1>7, <1>8, <1>9 DEF AgentHere
<1>11. CompiledOK' BY <1>1 DEF AgentBefore, CompiledOK
<1>12. AgentTouches(q, a)
  BY <1>0, <1>1, <1>2, <1>3, <1>4 DEF AgentTouches, AgentBefore, ForAgent, AgentKinds, Stands, HasFields
<1> QED BY <1>4, <1>5, <1>10, <1>11, <1>12 DEF AgentStepOK

\* deploy and activate begin with an await.
LEMMA AskedStep ==
    ASSUME NEW q \in Requests, NEW a, AgentBefore(q, a), ~Handled(q), crashes' = crashes,
           NEW k, NEW t, \/ k = "deploy" /\ t = "looking"
                         \/ k = "activateRevision" /\ t = "reading",
           NEW r \in Revisions, Asked(q, k, a, r, t)
    PROVE  AgentStepOK(q, a)
<1>0. a \in AgentIds /\ RequestsTyped /\ AgentsTyped /\ failures \in Nat BY DEF AgentBefore
<1>1. /\ Notices(q) /\ failures' = failures /\ agents' = agents /\ agentFile' = agentFile /\ store' = store
      /\ compiled' = compiled /\ active' = active /\ workspace' = workspace /\ partial' = partial /\ told' = told
  BY DEF Asked, Begins, Notices, agentVars
<1>2. Stands(q, k, a, r, t, NoAgent, "none", <<>>) BY <1>0, Begun, Zenon DEF Asked, Begins
<1>3. RequestsTyped' /\ Handled(q)' /\ OnlyMoves(q)
  <2>1. IsRequest(req'[q]) /\ req'[q].kind = k /\ req'[q].at = t BY <1>2 DEF Stands, HasFields
  <2>2. AgentRequestOK(req'[q]) BY <1>0, <1>2 DEF Stands, HasFields, AgentRequestOK
  <2>3. RequestOK(req'[q]) BY <2>1, <2>2 DEF RequestOK, AgentKinds, Places
  <2> QED BY <1>0, <1>2, <2>3, StandsTyped
<1>4. AgentsTyped' BY <1>0, <1>1 DEF AgentsTyped
<1>5. Alone(q)' => Alone(q) BY <1>1, <1>3, AloneBefore
<1>6. AgentHere(q)'
  BY <1>0, <1>1, <1>2, <1>3, <1>5
  DEF AgentBefore, AgentHere, Exists, ExistOK, Free, AnswerOK, Marked, MarkOK, Stands, HasFields
<1>7. CompiledOK' BY <1>1 DEF AgentBefore, CompiledOK
<1>8. AgentTouches(q, a)
  BY <1>0, <1>1, <1>2, <1>3 DEF AgentTouches, AgentBefore, ForAgent, AgentKinds, Stands, HasFields
<1> QED BY <1>3, <1>4, <1>6, <1>7, <1>8 DEF AgentStepOK

LEMMA AgentAskedStep ==
    ASSUME NEW q \in Requests, NEW a, AgentBefore(q, a), ~Handled(q), AgentAsked(q, a), crashes' = crashes
    PROVE  AgentStepOK(q, a)
<1>0. agents[a] \in AgentStates BY DEF AgentBefore, AgentsTyped
<1>1. ASSUME NEW on \in BOOLEAN, NEW rev \in Revisions \cup {NoRevision}, Put(q, a, on, rev) PROVE AgentStepOK(q, a)
  <2>1. PICK w \in AgentStates : w = agents[a] BY <1>0
  <2>2. PICK by : by = IF w # NoAgent /\ w.rev = rev THEN w.by
                       ELSE IF w # NoAgent /\ rev = NoRevision THEN "cleared" ELSE "body"
    BY Zenon
  <2>3. by \in Origins BY <2>2, AgentStatesOK DEF Origins
  <2>4. PICK def : def = Definition(on, rev, by) BY Zenon
  <2>5. def \in AgentStates /\ def # NoAgent /\ def.rev = rev /\ def.by = by BY <2>3, <2>4, DefinitionOK
  <2>6. FromActivation(def) => FromActivation(agents[a]) /\ def.rev = agents[a].rev
    BY <2>1, <2>2, <2>5 DEF FromActivation
  <2>7. Used(agents[a]) => Used(def) BY <2>1, <2>2, <2>5 DEF Used
  <2>8. RegisteredAtOnce(q, "put", a, NoRevision, def) BY <1>1, <2>1, <2>2, <2>4, Zenon DEF Put
  <2> QED BY <2>5, <2>6, <2>7, <2>8, AtOnceStep
<1>2. ASSUME NEW r \in Revisions, Deploy(q, a, r) \/ ActivateRevision(q, a, r) PROVE AgentStepOK(q, a)
  BY <1>2, AskedStep DEF Deploy, ActivateRevision
<1>3. ASSUME Delete(q, a) PROVE AgentStepOK(q, a)
  <2>1. NoAgent \in AgentStates BY DEF AgentStates
  <2> QED BY <1>3, <2>1, AtOnceStep DEF Delete
<1> QED BY <1>1, <1>2, <1>3 DEF AgentAsked

-----------------------------------------------------------------------------
(* The steps of a request for an Agent *)

\* q ends, and what it leaves of its Agent is what its answers said.
LEMMA AgentEnds ==
    ASSUME NEW q \in Requests, NEW a, AgentBefore(q, a), Handled(q), Ends(q), overlapped' = overlapped,
           failures' \in Nat, failures <= failures', crashes' = crashes, AgentsTyped', CompiledOK',
           \A b \in AgentIds \ {a} : /\ agents'[b] = agents[b]
                                     /\ Alone(q) => agentFile'[b] \in {agentFile[b], agents[b]}
                                     /\ told'[b] = told[b] /\ active'[b] = active[b]
                                     /\ store'[b] = store[b] /\ compiled'[b] = compiled[b]
                                     /\ workspace'[b] = workspace[b],
           Alone(q) => Exists(a, agents[a])' /\ Exists(a, agentFile[a])',
           Alone(q) /\ failures' < 2 => agents'[a] = told'[a] /\ agentFile'[a] = told'[a],
           Alone(q) /\ failures' < 2 /\ crashes = 0 => Marked(a, agents[a])',
           workspace'[a] = workspace[a] \/ (req[q].kind = "delete" /\ workspace'[a] = NoRevision),
           req[q].kind = "delete" => workspace'[a] = NoRevision \/ Running(a) \/ failures' > 0,
           Alone(q) /\ failures' = 0 => agents'[a] = agents[a]
    PROVE  AgentStepOK(q, a)
<1>0. a \in AgentIds /\ RequestsTyped /\ AgentsTyped /\ failures \in Nat /\ req[q].on = a
  BY AgentRequestFacts DEF AgentBefore
<1>1. Notices(q) BY SteadyNotices DEF AgentBefore
<1>2. RequestsTyped' /\ ~Handled(q)' /\ OnlyMoves(q) BY <1>0, Ended, IsEnded DEF Over
<1>3. Alone(q)' => Alone(q) BY <1>1, <1>2, AloneBefore
<1>4. ASSUME Alone(q)' PROVE \A b \in AgentIds : Exists(b, agents[b])' /\ Exists(b, agentFile[b])'
  <2>1. \A b \in AgentIds : Exists(b, agents[b]) /\ Exists(b, agentFile[b])
    BY <1>3, <1>4 DEF AgentBefore, AgentHere
  <2>2. Exists(a, agents[a])' /\ Exists(a, agentFile[a])' BY <1>3, <1>4
  <2>3. ASSUME NEW b \in AgentIds \ {a} PROVE Exists(b, agents[b])' /\ Exists(b, agentFile[b])'
    BY <1>3, <1>4, <2>1, <2>3 DEF Exists
  <2> QED BY <2>2, <2>3
<1>5. ASSUME Alone(q)', failures' < 2 PROVE \A b \in AgentIds : agents'[b] = told'[b] /\ agentFile'[b] = told'[b]
  <2>1. failures < 2 BY <1>0, <1>5
  <2>2. \A b \in AgentIds \ {a} : agents[b] = told[b] /\ agentFile[b] = told[b]
    BY <1>0, <1>3, <1>5, <2>1 DEF AgentBefore, AgentHere, Free
  <2> QED BY <1>3, <1>5, <2>2
<1>6. ASSUME Alone(q)', failures' < 2, crashes' = 0 PROVE \A b \in AgentIds : Marked(b, agents[b])'
  <2>1. failures < 2 BY <1>0, <1>6
  <2>2. \A b \in AgentIds \ {a} : Marked(b, agents[b])
    BY <1>0, <1>3, <1>6, <2>1 DEF AgentBefore, AgentHere, Free
  <2>3. Marked(a, agents[a])' BY <1>3, <1>6
  <2>4. ASSUME NEW b \in AgentIds \ {a} PROVE Marked(b, agents[b])' BY <2>2, <2>4 DEF Marked
  <2> QED BY <2>3, <2>4
<1>7. AgentHere(q)' BY <1>2, <1>4, <1>5, <1>6 DEF AgentHere
<1>8. AgentTouches(q, a) BY <1>0, <1>1, <1>2 DEF AgentTouches, AgentBefore, ForAgent
<1> QED BY <1>2, <1>7, <1>8 DEF AgentStepOK

\* q goes on to t; of the Agents, only its own entry in memory and its files may have changed.
LEMMA AgentMoves ==
    ASSUME NEW q \in Requests, NEW a, AgentBefore(q, a), Handled(q), overlapped' = overlapped,
           NEW t, NEW w, NEW n, Stands(q, req[q].kind, req[q].on, req[q].arg, t, w, "none", n),
           RequestOK(req'[q]),
           failures' \in Nat, failures <= failures', crashes' = crashes, AgentsTyped', CompiledOK',
           \A b \in AgentIds \ {a} : /\ agents'[b] = agents[b]
                                     /\ Alone(q) => agentFile'[b] \in {agentFile[b], agents[b]}
                                     /\ told'[b] = told[b] /\ active'[b] = active[b]
                                     /\ store'[b] = store[b] /\ compiled'[b] = compiled[b],
           workspace' = workspace,
           Alone(q) => Exists(a, agents[a])' /\ Exists(a, agentFile[a])' /\ ExistOK(q)',
           Alone(q) /\ failures' < 2 => AnswerOK(q)',
           Alone(q) /\ failures' < 2 /\ crashes = 0 => MarkOK(q)',
           Alone(q) /\ failures' = 0 /\ agents'[a] # agents[a] =>
              agents'[a] # NoAgent /\ (Used(agents[a]) => Used(agents'[a]))
    PROVE  AgentStepOK(q, a)
<1>0. a \in AgentIds /\ RequestsTyped /\ AgentsTyped /\ failures \in Nat /\ req[q].on = a /\ req[q].kind \in AgentKinds
  BY AgentRequestFacts DEF AgentBefore
<1>1. Notices(q) BY SteadyNotices DEF AgentBefore
<1>2. RequestsTyped' /\ Handled(q)' /\ OnlyMoves(q) BY <1>0, StandsTyped, Zenon
<1>3. Alone(q)' => Alone(q) BY <1>1, <1>2, AloneBefore
<1>4. req'[q].on = a /\ req'[q].kind = req[q].kind BY <1>0 DEF Stands, HasFields
<1>5. ASSUME Alone(q)' PROVE \A b \in AgentIds : Exists(b, agents[b])' /\ Exists(b, agentFile[b])'
  <2>1. \A b \in AgentIds : Exists(b, agents[b]) /\ Exists(b, agentFile[b])
    BY <1>3, <1>5 DEF AgentBefore, AgentHere
  <2>2. Exists(a, agents[a])' /\ Exists(a, agentFile[a])' BY <1>3, <1>5
  <2>3. ASSUME NEW b \in AgentIds \ {a} PROVE Exists(b, agents[b])' /\ Exists(b, agentFile[b])'
    BY <1>3, <1>5, <2>1, <2>3 DEF Exists
  <2> QED BY <2>2, <2>3
<1>6. ASSUME Alone(q)', failures' < 2
      PROVE  \A b \in AgentIds : Free(q, b)' => agents'[b] = told'[b] /\ agentFile'[b] = told'[b]
  <2>1. failures < 2 BY <1>0, <1>6
  <2>2. \A b \in AgentIds \ {a} : agents[b] = told[b] /\ agentFile[b] = told[b]
    BY <1>0, <1>3, <1>6, <2>1 DEF AgentBefore, AgentHere, Free
  <2> QED BY <1>2, <1>3, <1>4, <1>6, <2>2 DEF Free
<1>7. ASSUME Alone(q)', failures' < 2, crashes' = 0
      PROVE  \A b \in AgentIds : Free(q, b)' => Marked(b, agents[b])'
  <2>1. failures < 2 BY <1>0, <1>7
  <2>2. \A b \in AgentIds \ {a} : Marked(b, agents[b])
    BY <1>0, <1>3, <1>7, <2>1 DEF AgentBefore, AgentHere, Free
  <2>3. ASSUME NEW b \in AgentIds \ {a} PROVE Marked(b, agents[b])' BY <2>2, <2>3 DEF Marked
  <2> QED BY <1>2, <1>4, <2>3 DEF Free
<1>8. AgentHere(q)' BY <1>3, <1>5, <1>6, <1>7 DEF AgentHere
<1>9. AgentTouches(q, a) BY <1>0, <1>1, <1>2, <1>4 DEF AgentTouches, AgentBefore, ForAgent
<1> QED BY <1>2, <1>8, <1>9 DEF AgentStepOK

LEMMA LookedStep ==
    ASSUME NEW q \in Requests, NEW a, AgentBefore(q, a), Handled(q), Looked(q), crashes' = crashes
    PROVE  AgentStepOK(q, a)
<1> DEFINE m == req[q]
<1>0. /\ IsRequest(m) /\ RequestOK(m) /\ AgentRequestOK(m) /\ m.on = a /\ a \in AgentIds
      /\ m.kind = "deploy" /\ m.at = "looking" /\ m.save = "none"
      /\ RequestsTyped /\ AgentsTyped /\ failures \in Nat /\ crashes \in Nat
  BY AgentRequestFacts, PlaceFacts DEF Looked, Steps, AgentRequestOK
<1>1. /\ overlapped' = overlapped /\ failures' = failures /\ agents' = agents /\ agentFile' = agentFile
      /\ store' = store /\ compiled' = compiled /\ active' = active /\ workspace' = workspace
      /\ partial' = partial /\ told' = told
  BY DEF Looked, Steps, agentVars
<1>2. PICK t : t = IF m.arg \in store[m.on] THEN "reading" ELSE "compiling" BY Zenon
<1>3. t \in {"reading", "compiling"} BY <1>2
<1>4. Stands(q, m.kind, m.on, m.arg, t, m.was, "none", m.snap)
  <2>1. req' = [req EXCEPT ![q].at = t] BY <1>2, Zenon DEF Looked
  <2> QED BY <1>0, <2>1, Moved, Zenon
<1>5. RequestOK(req'[q])
  <2>1. IsRequest(req'[q]) /\ req'[q].kind = "deploy" /\ req'[q].at = t BY <1>0, <1>4 DEF Stands, HasFields
  <2>2. AgentRequestOK(req'[q]) BY <1>0, <1>3, <1>4 DEF Stands, HasFields, AgentRequestOK
  <2> QED BY <1>3, <2>1, <2>2 DEF RequestOK, AgentKinds, Places
<1>6. AgentsTyped' /\ CompiledOK' BY <1>0, <1>1 DEF AgentsTyped, CompiledOK, AgentBefore
<1>7. Alone(q) => Exists(a, agents[a])' /\ Exists(a, agentFile[a])' /\ ExistOK(q)'
  BY <1>0, <1>1, <1>3, <1>4 DEF AgentBefore, AgentHere, Exists, ExistOK, Stands, HasFields
<1>8. Alone(q) /\ failures' < 2 => AnswerOK(q)'
  BY <1>0, <1>1, <1>3, <1>4 DEF AgentBefore, AgentHere, AnswerOK, Stands, HasFields
<1>9. Alone(q) /\ failures' < 2 /\ crashes = 0 => MarkOK(q)'
  BY <1>0, <1>1, <1>3, <1>4 DEF AgentBefore, AgentHere, Marked, MarkOK, Stands, HasFields
<1> QED BY <1>0, <1>1, <1>4, <1>5, <1>6, <1>7, <1>8, <1>9, AgentMoves

LEMMA CompiledStep ==
    ASSUME NEW q \in Requests, NEW a, AgentBefore(q, a), Handled(q), Compiled(q), crashes' = crashes
    PROVE  AgentStepOK(q, a)
<1> DEFINE m == req[q]
<1>0. /\ IsRequest(m) /\ RequestOK(m) /\ AgentRequestOK(m) /\ m.on = a /\ a \in AgentIds
      /\ m.kind = "deploy" /\ m.at = "compiling" /\ m.save = "none" /\ m.arg \in Revisions
      /\ RequestsTyped /\ AgentsTyped /\ failures \in Nat /\ crashes \in Nat
  BY AgentRequestFacts, PlaceFacts DEF Compiled, Steps, AgentRequestOK
<1>1. /\ overlapped' = overlapped /\ failures' = failures /\ agents' = agents /\ agentFile' = agentFile
      /\ active' = active /\ workspace' = workspace /\ partial' = partial /\ told' = told
  BY DEF Compiled, Steps
<1>2. \/ store' = store /\ compiled' = compiled
      \/ /\ store' = [store EXCEPT ![a] = store[a] \cup {m.arg}]
         /\ compiled' = [compiled EXCEPT ![a] = compiled[a] \cup {m.arg}]
  BY <1>0 DEF Compiled
<1>3. /\ store' \in [AgentIds -> SUBSET Revisions] /\ compiled' \in [AgentIds -> SUBSET Revisions]
      /\ store[a] \subseteq store'[a] /\ (store[a] = compiled[a] => store'[a] = compiled'[a])
      /\ \A b \in AgentIds \ {a} : store'[b] = store[b] /\ compiled'[b] = compiled[b]
  <2>1. CASE store' = store /\ compiled' = compiled BY <1>0, <2>1 DEF AgentsTyped
  <2>2. CASE /\ store' = [store EXCEPT ![a] = store[a] \cup {m.arg}]
             /\ compiled' = [compiled EXCEPT ![a] = compiled[a] \cup {m.arg}]
    BY <1>0, <2>2 DEF AgentsTyped
  <2> QED BY <1>2, <2>1, <2>2
<1>4. Stands(q, m.kind, m.on, m.arg, "reading", m.was, "none", m.snap)
  BY <1>0, Moved, Zenon DEF Compiled
<1>5. RequestOK(req'[q])
  <2>1. IsRequest(req'[q]) /\ req'[q].kind = "deploy" /\ req'[q].at = "reading" BY <1>0, <1>4 DEF Stands, HasFields
  <2>2. AgentRequestOK(req'[q]) BY <1>0, <1>4 DEF Stands, HasFields, AgentRequestOK
  <2> QED BY <2>1, <2>2 DEF RequestOK, AgentKinds, Places
<1>6. AgentsTyped' BY <1>0, <1>1, <1>3 DEF AgentsTyped
<1>7. CompiledOK' BY <1>1, <1>3 DEF CompiledOK, AgentBefore
<1>8. Alone(q) => Exists(a, agents[a])' /\ Exists(a, agentFile[a])' /\ ExistOK(q)'
  BY <1>0, <1>1, <1>3, <1>4 DEF AgentBefore, AgentHere, Exists, ExistOK, Stands, HasFields
<1>9. Alone(q) /\ failures' < 2 => AnswerOK(q)'
  BY <1>0, <1>1, <1>4 DEF AgentBefore, AgentHere, AnswerOK, Stands, HasFields
<1>10. Alone(q) /\ failures' < 2 /\ crashes = 0 => MarkOK(q)'
  BY <1>0, <1>1, <1>4 DEF AgentBefore, AgentHere, Marked, MarkOK, Stands, HasFields
<1> QED BY <1>0, <1>1, <1>3, <1>4, <1>5, <1>6, <1>7, <1>8, <1>9, <1>10, AgentMoves

LEMMA CompileBreaksStep ==
    ASSUME NEW q \in Requests, NEW a, AgentBefore(q, a), Handled(q), CompileBreaks(q), crashes' = crashes
    PROVE  AgentStepOK(q, a)
<1>0. /\ req[q].on = a /\ a \in AgentIds /\ req[q].at = "compiling" /\ req[q].kind = "deploy"
      /\ AgentsTyped /\ failures \in Nat
  BY AgentRequestFacts, PlaceFacts DEF CompileBreaks, Breaks
<1>1. /\ Ends(q) /\ overlapped' = overlapped /\ failures' = failures + 1 /\ agents' = agents /\ agentFile' = agentFile
      /\ store' = store /\ compiled' = compiled /\ active' = active /\ workspace' = workspace
      /\ partial' = partial /\ told' = told
  BY DEF CompileBreaks, Breaks, agentVars
<1>2. AgentsTyped' /\ CompiledOK' BY <1>0, <1>1 DEF AgentsTyped, CompiledOK, AgentBefore
<1>3. Alone(q) => Exists(a, agents[a])' /\ Exists(a, agentFile[a])'
  BY <1>0, <1>1 DEF AgentBefore, AgentHere, Exists
<1>4. Alone(q) /\ failures' < 2 => agents'[a] = told'[a] /\ agentFile'[a] = told'[a]
  BY <1>0, <1>1 DEF AgentBefore, AgentHere, AnswerOK
<1>5. Alone(q) /\ failures' < 2 /\ crashes = 0 => Marked(a, agents[a])'
  BY <1>0, <1>1 DEF AgentBefore, AgentHere, MarkOK, Marked
<1> QED BY <1>0, <1>1, <1>2, <1>3, <1>4, <1>5, AgentEnds

LEMMA RevisionRegisteredStep ==
    ASSUME NEW q \in Requests, NEW a, AgentBefore(q, a), Handled(q), RevisionRegistered(q), crashes' = crashes
    PROVE  AgentStepOK(q, a)
<1> DEFINE m == req[q]
<1>0. /\ IsRequest(m) /\ RequestOK(m) /\ AgentRequestOK(m) /\ m.on = a /\ a \in AgentIds
      /\ m.kind \in {"deploy", "activateRevision"} /\ m.at = "reading" /\ m.save = "none" /\ m.arg \in Revisions
      /\ RequestsTyped /\ AgentsTyped /\ failures \in Nat /\ crashes \in Nat /\ agents[a] \in AgentStates
  BY AgentRequestFacts, PlaceFacts DEF RevisionRegistered, Steps, AgentRequestOK, AgentsTyped
<1>1. /\ overlapped' = overlapped /\ failures' = failures /\ agentFile' = agentFile
      /\ store' = store /\ compiled' = compiled /\ active' = active /\ workspace' = workspace
      /\ partial' = partial /\ told' = told
  BY DEF RevisionRegistered, Steps
<1>2. CompiledOK' BY <1>1 DEF CompiledOK, AgentBefore
<1>3. CASE ~CanActivate(a, m.arg)
  <2>1. Ends(q) /\ agents' = agents BY <1>0, <1>3 DEF RevisionRegistered
  <2>2. AgentsTyped' BY <1>0, <1>1, <2>1 DEF AgentsTyped
  <2>3. Alone(q) => Exists(a, agents[a])' /\ Exists(a, agentFile[a])'
    BY <1>0, <1>1, <2>1 DEF AgentBefore, AgentHere, Exists
  <2>4. Alone(q) /\ failures' < 2 => agents'[a] = told'[a] /\ agentFile'[a] = told'[a]
    BY <1>0, <1>1, <2>1 DEF AgentBefore, AgentHere, AnswerOK
  <2>5. Alone(q) /\ failures' < 2 /\ crashes = 0 => Marked(a, agents[a])'
    BY <1>0, <1>1, <2>1 DEF AgentBefore, AgentHere, MarkOK, Marked
  <2> QED BY <1>0, <1>1, <1>2, <2>1, <2>2, <2>3, <2>4, <2>5, AgentEnds
<1>4. CASE CanActivate(a, m.arg)
  <2>1. PICK on : on = IF agents[a] = NoAgent THEN TRUE ELSE agents[a].on BY Zenon
  <2>2. on \in BOOLEAN BY <1>0, <2>1, AgentStatesOK
  <2>3. PICK def : def = Definition(on, m.arg, "activation") BY Zenon
  <2>4. def \in AgentStates /\ def # NoAgent /\ def.rev = m.arg BY <1>0, <2>2, <2>3, DefinitionOK DEF Origins
  <2>5. Registered(q, def) BY <1>0, <1>4, <2>1, <2>3, Zenon DEF RevisionRegistered
  <2>6. /\ agents' \in [AgentIds -> AgentStates] /\ agents'[a] = def
        /\ \A b \in AgentIds \ {a} : agents'[b] = agents[b]
    BY <1>0, <2>4, <2>5 DEF Registered, AgentsTyped
  <2>7. Stands(q, m.kind, m.on, m.arg, "registering", agents[m.on], "none", agents')
    <3>1. PICK w, n : w = agents[m.on] /\ n = agents' BY Zenon
    <3>2. req' = [req EXCEPT ![q].at = "registering", ![q].was = w, ![q].snap = n] BY <2>5, <3>1, Zenon DEF Registered
    <3>3. Stands(q, m.kind, m.on, m.arg, "registering", w, m.save, n) BY <1>0, <3>2, Moved, Zenon
    <3> QED BY <1>0, <3>1, <3>3, Zenon
  <2>8. RequestOK(req'[q])
    <3>1. IsRequest(req'[q]) /\ req'[q].kind = m.kind /\ req'[q].at = "registering"
      BY <2>7 DEF Stands, HasFields
    <3>2. AgentRequestOK(req'[q]) BY <1>0, <2>6, <2>7 DEF Stands, HasFields, AgentRequestOK
    <3> QED BY <1>0, <3>1, <3>2 DEF RequestOK, AgentKinds, Places
  <2>9. AgentsTyped' BY <1>0, <1>1, <2>6 DEF AgentsTyped
  <2>10. m.arg \in store[a] BY <1>4 DEF CanActivate
  <2>11. Alone(q) => Exists(a, agents[a])' /\ Exists(a, agentFile[a])' /\ ExistOK(q)'
    BY <1>0, <1>1, <2>4, <2>6, <2>7, <2>10 DEF AgentBefore, AgentHere, Exists, ExistOK, Stands, HasFields
  <2>12. Alone(q) /\ failures' < 2 => AnswerOK(q)'
    BY <1>0, <1>1, <2>7 DEF AgentBefore, AgentHere, AnswerOK, Stands, HasFields
  <2>13. Alone(q) /\ failures' < 2 /\ crashes = 0 => MarkOK(q)'
    BY <1>0, <1>1, <2>4, <2>6, <2>7 DEF AgentBefore, AgentHere, Marked, MarkOK, Stands, HasFields
  <2>14. agents'[a] # NoAgent /\ Used(agents'[a]) BY <1>0, <2>4, <2>6 DEF Used
  <2> QED BY <1>0, <1>1, <1>2, <2>6, <2>7, <2>8, <2>9, <2>11, <2>12, <2>13, <2>14, AgentMoves
<1> QED BY <1>3, <1>4

LEMMA RegistryLandsStep ==
    ASSUME NEW q \in Requests, NEW a, AgentBefore(q, a), Handled(q), RegistryLands(q), crashes' = crashes
    PROVE  AgentStepOK(q, a)
<1> DEFINE m == req[q]
<1>0. /\ IsRequest(m) /\ RequestOK(m) /\ AgentRequestOK(m) /\ m.on = a /\ a \in AgentIds
      /\ m.kind \in AgentKinds /\ m.at = "registering" /\ m.save = "none"
      /\ m.was \in AgentStates /\ m.snap \in [AgentIds -> AgentStates]
      /\ RequestsTyped /\ AgentsTyped /\ failures \in Nat /\ crashes \in Nat
  BY AgentRequestFacts DEF RegistryLands, Steps, AgentRequestOK
<1>1. /\ overlapped' = overlapped /\ failures' = failures /\ agents' = agents /\ agentFile' = m.snap
      /\ store' = store /\ compiled' = compiled /\ active' = active /\ workspace' = workspace /\ partial' = partial
  BY DEF RegistryLands, Steps
<1>2. CompiledOK' BY <1>1 DEF CompiledOK, AgentBefore
<1>3. Alone(q) => agentFile' = agents BY <1>0, <1>1 DEF AgentBefore, AgentHere, ExistOK
<1>4. CASE m.kind = "put"
  <2>1. Commits(q) /\ Ends(q) BY <1>4 DEF RegistryLands, AfterRegistry
  <2>2. Ends(q) /\ told' = [told EXCEPT ![a] = agents[a]] BY <1>0, <2>1 DEF Commits
  <2>3. /\ told' \in [AgentIds -> AgentStates] /\ told'[a] = agents[a]
        /\ \A b \in AgentIds \ {a} : told'[b] = told[b]
    BY <1>0, <2>2 DEF AgentsTyped
  <2>4. AgentsTyped' BY <1>0, <1>1, <2>3 DEF AgentsTyped
  <2>5. Alone(q) => Exists(a, agents[a])' /\ Exists(a, agentFile[a])'
    BY <1>0, <1>1, <1>3 DEF AgentBefore, AgentHere, Exists
  <2>6. Alone(q) /\ failures' < 2 => agents'[a] = told'[a] /\ agentFile'[a] = told'[a]
    BY <1>1, <1>3, <2>3
  <2>7. Alone(q) /\ failures' < 2 /\ crashes = 0 => Marked(a, agents[a])'
    BY <1>0, <1>1, <1>4 DEF AgentBefore, AgentHere, MarkOK, Marked
  <2> QED BY <1>0, <1>1, <1>2, <1>3, <1>4, <2>2, <2>3, <2>4, <2>5, <2>6, <2>7, AgentEnds
<1>5. CASE m.kind # "put"
  <2>1. PICK t : t = AfterRegistry(m.kind) BY Zenon
  <2>2. /\ m.kind \in {"deploy", "activateRevision"} => t = "marking"
        /\ m.kind = "delete" => t = "purging"
    BY <2>1 DEF AfterRegistry
  <2>3. /\ req' = [req EXCEPT ![q].at = t]
        /\ told' = IF t = "marking" THEN told ELSE [told EXCEPT ![a] = agents[a]]
    BY <1>0, <1>5, <2>1, <2>2 DEF RegistryLands, Commits, AgentKinds
  <2>a. /\ told' \in [AgentIds -> AgentStates] /\ \A b \in AgentIds \ {a} : told'[b] = told[b]
        /\ told'[a] = IF t = "marking" THEN told[a] ELSE agents[a]
    BY <1>0, <2>3 DEF AgentsTyped
  <2>4. Stands(q, m.kind, m.on, m.arg, t, m.was, m.save, m.snap) BY <1>0, <2>3, Moved, Zenon
  <2>5. RequestOK(req'[q])
    <3>1. IsRequest(req'[q]) /\ req'[q].kind = m.kind /\ req'[q].at = t BY <2>4 DEF Stands, HasFields
    <3>2. AgentRequestOK(req'[q]) BY <1>0, <2>4 DEF Stands, HasFields, AgentRequestOK
    <3> QED BY <1>0, <1>5, <2>2, <3>1, <3>2 DEF RequestOK, AgentKinds, Places
  <2>6. AgentsTyped' BY <1>0, <1>1, <2>a DEF AgentsTyped
  <2>7. Alone(q) => Exists(a, agents[a])' /\ Exists(a, agentFile[a])' /\ ExistOK(q)'
    BY <1>0, <1>1, <1>3, <1>5, <2>2, <2>4 DEF AgentBefore, AgentHere, Exists, ExistOK, Stands, HasFields, AgentKinds
  <2>8. Alone(q) /\ failures' < 2 => AnswerOK(q)'
    BY <1>0, <1>1, <1>3, <1>5, <2>2, <2>4, <2>a
    DEF AgentBefore, AgentHere, AnswerOK, Stands, HasFields, AgentKinds
  <2>9. Alone(q) /\ failures' < 2 /\ crashes = 0 => MarkOK(q)'
    BY <1>0, <1>1, <1>5, <2>2, <2>4 DEF AgentBefore, AgentHere, Marked, MarkOK, Stands, HasFields, AgentKinds
  <2> QED BY <1>0, <1>1, <1>2, <1>3, <2>a, <2>4, <2>5, <2>6, <2>7, <2>8, <2>9, AgentMoves
<1> QED BY <1>4, <1>5

\* The catch of activate: the definition before is registered again, or removed.
LEMMA UndoStep ==
    ASSUME NEW q \in Requests, NEW a, AgentBefore(q, a), Handled(q), crashes' = crashes,
           req[q].at \in {"registering", "marking"}, req[q].kind \in {"deploy", "activateRevision"},
           NEW now \in AgentStates, now = IF req[q].at = "marking" THEN agents[a] ELSE req[q].was,
           Undo(q, now), overlapped' = overlapped, failures' \in Nat, failures < failures',
           UNCHANGED <<agentFile, store, compiled, active, workspace, partial, told>>
    PROVE  AgentStepOK(q, a)
<1> DEFINE m == req[q]
<1>0. /\ IsRequest(m) /\ RequestOK(m) /\ AgentRequestOK(m) /\ m.on = a /\ a \in AgentIds
      /\ m.save = "none" /\ m.arg \in Revisions /\ m.was \in AgentStates
      /\ RequestsTyped /\ AgentsTyped /\ failures \in Nat /\ crashes \in Nat
  BY AgentRequestFacts DEF AgentRequestOK
<1>1. /\ agents' \in [AgentIds -> AgentStates] /\ agents'[a] = m.was
      /\ \A b \in AgentIds \ {a} : agents'[b] = agents[b]
  BY <1>0 DEF Undo, AgentsTyped
<1>2. AgentsTyped' /\ CompiledOK' BY <1>0, <1>1 DEF AgentsTyped, CompiledOK, AgentBefore
<1>3. Alone(q) => Exists(a, agents[a])' /\ Exists(a, agentFile[a])'
  BY <1>0, <1>1 DEF AgentBefore, AgentHere, Exists, ExistOK
<1>4. Alone(q) /\ failures' < 2 /\ crashes = 0 => Marked(a, agents[a])'
  BY <1>0, <1>1 DEF AgentBefore, AgentHere, MarkOK, Marked
<1>5. Alone(q) /\ failures' < 2 => agents'[a] = told'[a] BY <1>0, <1>1 DEF AgentBefore, AgentHere, AnswerOK
<1>6. CASE m.was = NoAgent /\ now = NoAgent
  <2>1. Ends(q) BY <1>6 DEF Undo
  <2>2. Alone(q) /\ failures' < 2 => agentFile'[a] = told'[a]
    BY <1>0, <1>6 DEF AgentBefore, AgentHere, AnswerOK
  <2> QED BY <1>0, <1>1, <1>2, <1>3, <1>4, <1>5, <2>1, <2>2, AgentEnds
<1>7. CASE ~(m.was = NoAgent /\ now = NoAgent)
  <2>1. PICK n : n = agents' BY Zenon
  <2>2. req' = [req EXCEPT ![q].at = "undoing", ![q].was = now, ![q].snap = n] BY <1>7, <2>1, Zenon DEF Undo
  <2>3. Stands(q, m.kind, m.on, m.arg, "undoing", now, m.save, n) BY <1>0, <2>2, Moved, Zenon
  <2>4. RequestOK(req'[q])
    <3>1. IsRequest(req'[q]) /\ req'[q].kind = m.kind /\ req'[q].at = "undoing" BY <2>3 DEF Stands, HasFields
    <3>2. AgentRequestOK(req'[q]) BY <1>0, <1>1, <2>1, <2>3 DEF Stands, HasFields, AgentRequestOK
    <3> QED BY <1>0, <3>1, <3>2 DEF RequestOK, AgentKinds, Places
  <2>5. Alone(q) => ExistOK(q)'
    <3>1. Alone(q) => Exists(a, now)
      BY <1>0 DEF AgentBefore, AgentHere, ExistOK
    <3> QED BY <1>0, <2>1, <2>3, <3>1 DEF ExistOK, Exists, Stands, HasFields
  <2>6. Alone(q) /\ failures' < 2 => AnswerOK(q)'
    BY <1>0, <1>5, <2>3 DEF AnswerOK, Stands, HasFields
  <2>7. Alone(q) /\ failures' < 2 /\ crashes = 0 => MarkOK(q)'
    BY <1>0, <1>4, <2>3 DEF MarkOK, Marked, Stands, HasFields
  <2> QED BY <1>0, <1>1, <1>2, <1>3, <2>3, <2>4, <2>5, <2>6, <2>7, AgentMoves
<1> QED BY <1>6, <1>7

LEMMA RegistryBreaksStep ==
    ASSUME NEW q \in Requests, NEW a, AgentBefore(q, a), Handled(q), RegistryBreaks(q), crashes' = crashes
    PROVE  AgentStepOK(q, a)
<1> DEFINE m == req[q]
<1>0. /\ RequestOK(m) /\ AgentRequestOK(m) /\ m.on = a /\ a \in AgentIds
      /\ m.kind \in AgentKinds /\ m.at = "registering" /\ m.was \in AgentStates
      /\ RequestsTyped /\ AgentsTyped /\ failures \in Nat /\ crashes \in Nat
  BY AgentRequestFacts DEF RegistryBreaks, Breaks, AgentRequestOK
<1>1. /\ overlapped' = overlapped /\ failures' = failures + 1
      /\ UNCHANGED <<agentFile, store, compiled, active, workspace, partial, told>>
  BY DEF RegistryBreaks, Breaks
<1>2. CASE m.kind \in {"deploy", "activateRevision"}
  <2>1. Undo(q, m.was) BY <1>2 DEF RegistryBreaks, AfterRegistry
  <2> QED BY <1>0, <1>1, <1>2, <2>1, UndoStep
<1>3. CASE m.kind \in {"put", "delete"}
  <2>1. Ends(q) /\ agents' = [agents EXCEPT ![a] = m.was] BY <1>0, <1>3 DEF RegistryBreaks, AfterRegistry
  <2>2. /\ agents' \in [AgentIds -> AgentStates] /\ agents'[a] = m.was
        /\ \A b \in AgentIds \ {a} : agents'[b] = agents[b]
    BY <1>0, <2>1 DEF AgentsTyped
  <2>3. AgentsTyped' /\ CompiledOK' BY <1>0, <1>1, <2>2 DEF AgentsTyped, CompiledOK, AgentBefore
  <2>4. Alone(q) => Exists(a, agents[a])' /\ Exists(a, agentFile[a])'
    BY <1>0, <1>1, <2>2 DEF AgentBefore, AgentHere, Exists, ExistOK
  <2>5. Alone(q) /\ failures' < 2 => agents'[a] = told'[a] /\ agentFile'[a] = told'[a]
    BY <1>0, <1>1, <2>2 DEF AgentBefore, AgentHere, AnswerOK
  <2>6. Alone(q) /\ failures' < 2 /\ crashes = 0 => Marked(a, agents[a])'
    BY <1>0, <1>1, <2>2 DEF AgentBefore, AgentHere, MarkOK, Marked
  <2> QED BY <1>0, <1>1, <2>1, <2>2, <2>3, <2>4, <2>5, <2>6, AgentEnds
<1> QED BY <1>0, <1>2, <1>3 DEF AgentKinds

LEMMA UndoLandsStep ==
    ASSUME NEW q \in Requests, NEW a, AgentBefore(q, a), Handled(q), UndoLands(q), crashes' = crashes
    PROVE  AgentStepOK(q, a)
<1> DEFINE m == req[q]
<1>0. /\ RequestOK(m) /\ m.on = a /\ a \in AgentIds /\ m.at = "undoing" /\ m.snap \in [AgentIds -> AgentStates]
      /\ m.kind \in {"deploy", "activateRevision"}
      /\ RequestsTyped /\ AgentsTyped /\ failures \in Nat /\ crashes \in Nat
  BY AgentRequestFacts, PlaceFacts DEF UndoLands, Steps, AgentRequestOK
<1>1. /\ Ends(q) /\ overlapped' = overlapped /\ failures' = failures /\ agentFile' = m.snap
      /\ UNCHANGED <<agents, store, compiled, active, workspace, partial, told>>
  BY DEF UndoLands, Steps
<1>2. Alone(q) => agentFile' = agents BY <1>0, <1>1 DEF AgentBefore, AgentHere, ExistOK
<1>3. AgentsTyped' /\ CompiledOK' BY <1>0, <1>1 DEF AgentsTyped, CompiledOK, AgentBefore
<1>4. Alone(q) => Exists(a, agents[a])' /\ Exists(a, agentFile[a])'
  BY <1>0, <1>1, <1>2 DEF AgentBefore, AgentHere, Exists
<1>5. Alone(q) /\ failures' < 2 => agents'[a] = told'[a] /\ agentFile'[a] = told'[a]
  BY <1>0, <1>1, <1>2 DEF AgentBefore, AgentHere, AnswerOK
<1>6. Alone(q) /\ failures' < 2 /\ crashes = 0 => Marked(a, agents[a])'
  BY <1>0, <1>1 DEF AgentBefore, AgentHere, MarkOK, Marked
<1> QED BY <1>0, <1>1, <1>2, <1>3, <1>4, <1>5, <1>6, AgentEnds

\* The second failure of one request: nothing is promised then, but what is named is there.
LEMMA UndoBreaksStep ==
    ASSUME NEW q \in Requests, NEW a, AgentBefore(q, a), Handled(q), UndoBreaks(q), crashes' = crashes
    PROVE  AgentStepOK(q, a)
<1> DEFINE m == req[q]
<1>0. /\ RequestOK(m) /\ m.on = a /\ a \in AgentIds /\ m.at = "undoing" /\ m.was \in AgentStates
      /\ m.kind \in {"deploy", "activateRevision"}
      /\ RequestsTyped /\ AgentsTyped /\ failures \in Nat /\ crashes \in Nat
  BY AgentRequestFacts, PlaceFacts DEF UndoBreaks, AgentRequestOK
<1>1. /\ Ends(q) /\ overlapped' = overlapped /\ failures' = failures + 1
      /\ agents' = [agents EXCEPT ![a] = m.was]
      /\ UNCHANGED <<agentFile, store, compiled, active, workspace, partial, told>>
  BY <1>0 DEF UndoBreaks
<1>2. /\ agents' \in [AgentIds -> AgentStates] /\ agents'[a] = m.was
      /\ \A b \in AgentIds \ {a} : agents'[b] = agents[b]
  BY <1>0, <1>1 DEF AgentsTyped
<1>3. AgentsTyped' /\ CompiledOK' BY <1>0, <1>1, <1>2 DEF AgentsTyped, CompiledOK, AgentBefore
<1>4. Alone(q) => Exists(a, agents[a])' /\ Exists(a, agentFile[a])'
  BY <1>0, <1>1, <1>2 DEF AgentBefore, AgentHere, Exists, ExistOK
<1>5. ~(Alone(q) /\ failures' < 2) BY <1>0, <1>1 DEF AgentBefore, AgentHere, AnswerOK
<1> QED BY <1>0, <1>1, <1>2, <1>3, <1>4, <1>5, AgentEnds

LEMMA MarkLandsStep ==
    ASSUME NEW q \in Requests, NEW a, AgentBefore(q, a), Handled(q), MarkLands(q), crashes' = crashes
    PROVE  AgentStepOK(q, a)
<1> DEFINE m == req[q]
<1>0. /\ RequestOK(m) /\ m.on = a /\ a \in AgentIds /\ m.at = "marking"
      /\ m.kind \in {"deploy", "activateRevision"} /\ m.arg \in Revisions
      /\ RequestsTyped /\ AgentsTyped /\ failures \in Nat /\ crashes \in Nat
  BY AgentRequestFacts, PlaceFacts DEF MarkLands, Steps, AgentRequestOK
<1>1. /\ Ends(q) /\ overlapped' = overlapped /\ failures' = failures
      /\ UNCHANGED <<agents, agentFile, store, compiled, workspace, partial>>
      /\ active' = [active EXCEPT ![a] = m.arg] /\ told' = [told EXCEPT ![a] = agents[a]]
  BY <1>0 DEF MarkLands, Steps, Commits
<1>2. /\ told' \in [AgentIds -> AgentStates] /\ told'[a] = agents[a]
      /\ \A b \in AgentIds \ {a} : told'[b] = told[b]
      /\ active' \in [AgentIds -> Revisions \cup {NoRevision}] /\ active'[a] = m.arg
      /\ \A b \in AgentIds \ {a} : active'[b] = active[b]
  BY <1>0, <1>1 DEF AgentsTyped
<1>3. AgentsTyped' /\ CompiledOK' BY <1>0, <1>1, <1>2 DEF AgentsTyped, CompiledOK, AgentBefore
<1>4. Alone(q) => Exists(a, agents[a])' /\ Exists(a, agentFile[a])'
  BY <1>0, <1>1 DEF AgentBefore, AgentHere, Exists
<1>5. Alone(q) /\ failures' < 2 => agents'[a] = told'[a] /\ agentFile'[a] = told'[a]
  BY <1>0, <1>1, <1>2 DEF AgentBefore, AgentHere, AnswerOK
<1>6. Alone(q) /\ failures' < 2 /\ crashes = 0 => Marked(a, agents[a])'
  BY <1>0, <1>1, <1>2 DEF AgentBefore, AgentHere, MarkOK, Marked
<1> QED BY <1>0, <1>1, <1>2, <1>3, <1>4, <1>5, <1>6, AgentEnds

LEMMA MarkBreaksStep ==
    ASSUME NEW q \in Requests, NEW a, AgentBefore(q, a), Handled(q), MarkBreaks(q), crashes' = crashes
    PROVE  AgentStepOK(q, a)
<1>0. /\ RequestOK(req[q]) /\ req[q].on = a /\ a \in AgentIds /\ req[q].at = "marking"
      /\ req[q].kind \in {"deploy", "activateRevision"} /\ AgentsTyped /\ failures \in Nat
  BY AgentRequestFacts, PlaceFacts DEF MarkBreaks, Breaks
<1>1. PICK now : now = agents[req[q].on] BY Zenon
<1>2. now \in AgentStates /\ now = agents[a] BY <1>0, <1>1 DEF AgentsTyped
<1>3. Undo(q, now) /\ overlapped' = overlapped /\ failures' = failures + 1
      /\ UNCHANGED <<agentFile, store, compiled, active, workspace, partial, told>>
  BY <1>1, Zenon DEF MarkBreaks, Breaks
<1> QED BY <1>0, <1>2, <1>3, UndoStep

LEMMA PurgeBeginsStep ==
    ASSUME NEW q \in Requests, NEW a, AgentBefore(q, a), Handled(q), PurgeBegins(q), crashes' = crashes
    PROVE  AgentStepOK(q, a)
<1> DEFINE m == req[q]
<1>0. /\ IsRequest(m) /\ RequestOK(m) /\ AgentRequestOK(m) /\ m.on = a /\ a \in AgentIds
      /\ m.kind = "delete" /\ m.at = "purging" /\ m.save = "none"
      /\ RequestsTyped /\ AgentsTyped /\ failures \in Nat /\ crashes \in Nat
  BY AgentRequestFacts, PlaceFacts DEF PurgeBegins, Steps, AgentRequestOK
<1>1. /\ overlapped' = overlapped /\ failures' = failures
      /\ UNCHANGED <<agents, agentFile, store, compiled, active, workspace, partial, told>>
  BY DEF PurgeBegins, Steps, agentVars
<1>2. AgentsTyped' /\ CompiledOK' BY <1>0, <1>1 DEF AgentsTyped, CompiledOK, AgentBefore
<1>3. Alone(q) => Exists(a, agents[a])' /\ Exists(a, agentFile[a])'
  BY <1>0, <1>1 DEF AgentBefore, AgentHere, Exists
<1>4. CASE Running(a)
  <2>1. Ends(q) BY <1>0, <1>4 DEF PurgeBegins
  <2>2. ~Alone(q) BY <1>0, <1>4 DEF AgentBefore
  <2> QED BY <1>0, <1>1, <1>2, <1>4, <2>1, <2>2, AgentEnds
<1>5. CASE ~Running(a)
  <2>1. req' = [req EXCEPT ![q].at = "clearing"] BY <1>0, <1>5 DEF PurgeBegins
  <2>2. Stands(q, m.kind, m.on, m.arg, "clearing", m.was, m.save, m.snap) BY <1>0, <2>1, Moved, Zenon
  <2>3. RequestOK(req'[q])
    <3>1. IsRequest(req'[q]) /\ req'[q].kind = "delete" /\ req'[q].at = "clearing"
      BY <1>0, <2>2 DEF Stands, HasFields
    <3>2. AgentRequestOK(req'[q]) BY <1>0, <2>2 DEF Stands, HasFields, AgentRequestOK
    <3> QED BY <3>1, <3>2 DEF RequestOK, AgentKinds, Places
  <2>5. Alone(q) => ExistOK(q)'
    BY <1>0, <1>1, <2>2 DEF AgentBefore, AgentHere, ExistOK, Stands, HasFields
  <2>6. Alone(q) /\ failures' < 2 => AnswerOK(q)'
    BY <1>0, <1>1, <2>2 DEF AgentBefore, AgentHere, AnswerOK, Stands, HasFields
  <2>7. Alone(q) /\ failures' < 2 /\ crashes = 0 => MarkOK(q)'
    BY <1>0, <2>2 DEF MarkOK, Stands, HasFields
  <2> QED BY <1>0, <1>1, <1>2, <1>3, <2>2, <2>3, <2>5, <2>6, <2>7, AgentMoves
<1> QED BY <1>4, <1>5

\* An Agent whose directory is being removed is not there any more.
LEMMA GoneFacts ==
    ASSUME NEW q \in Requests, NEW a \in AgentIds, AgentBefore(q, a), Handled(q), req[q].on = a,
           req[q].kind = "delete", req[q].at = "clearing", UNCHANGED <<agents, agentFile, told>>,
           failures' \in Nat, failures <= failures', Alone(q)
    PROVE  /\ Exists(a, agents[a])' /\ Exists(a, agentFile[a])' /\ Marked(a, agents[a])'
           /\ failures' < 2 => agents'[a] = told'[a] /\ agentFile'[a] = told'[a]
<1>1. agents[a] = NoAgent /\ agentFile[a] = NoAgent BY DEF AgentBefore, AgentHere, ExistOK
<1>2. failures' < 2 => agents[a] = told[a] /\ agentFile[a] = told[a] BY DEF AgentBefore, AgentHere, AnswerOK
<1> QED BY <1>1, <1>2 DEF Exists, Marked, FromActivation

LEMMA PurgedStep ==
    ASSUME NEW q \in Requests, NEW a, AgentBefore(q, a), Handled(q), Purged(q), crashes' = crashes
    PROVE  AgentStepOK(q, a)
<1> DEFINE m == req[q]
<1>0. /\ RequestOK(m) /\ m.on = a /\ a \in AgentIds /\ m.kind = "delete" /\ m.at = "clearing"
      /\ RequestsTyped /\ AgentsTyped /\ failures \in Nat /\ crashes \in Nat
  BY AgentRequestFacts, PlaceFacts DEF Purged, Steps
<1>1. /\ Ends(q) /\ overlapped' = overlapped /\ failures' = failures
      /\ UNCHANGED <<agents, agentFile, told>> /\ partial' = partial \ {a}
      /\ store' = [store EXCEPT ![a] = {}] /\ compiled' = [compiled EXCEPT ![a] = {}]
      /\ active' = [active EXCEPT ![a] = NoRevision] /\ workspace' = [workspace EXCEPT ![a] = NoRevision]
  BY <1>0 DEF Purged, Steps
<1>2. /\ store' \in [AgentIds -> SUBSET Revisions] /\ store'[a] = {}
      /\ compiled' \in [AgentIds -> SUBSET Revisions] /\ compiled'[a] = {}
      /\ active' \in [AgentIds -> Revisions \cup {NoRevision}]
      /\ workspace' \in [AgentIds -> Revisions \cup {NoRevision}] /\ workspace'[a] = NoRevision
  BY <1>0, <1>1 DEF AgentsTyped
<1>3. \A b \in AgentIds \ {a} : /\ active'[b] = active[b] /\ store'[b] = store[b]
                                /\ compiled'[b] = compiled[b] /\ workspace'[b] = workspace[b]
  BY <1>0, <1>1 DEF AgentsTyped
<1>4. AgentsTyped' BY <1>0, <1>1, <1>2 DEF AgentsTyped
<1>5. CompiledOK' BY <1>1, <1>2, <1>3 DEF CompiledOK, AgentBefore
<1>6. Alone(q) => /\ Exists(a, agents[a])' /\ Exists(a, agentFile[a])' /\ Marked(a, agents[a])'
                  /\ failures' < 2 => agents'[a] = told'[a] /\ agentFile'[a] = told'[a]
  BY <1>0, <1>1, GoneFacts
<1> QED BY <1>0, <1>1, <1>2, <1>3, <1>4, <1>5, <1>6, AgentEnds

\* What is left of the directory, the Agent is gone.
LEMMA PurgeBreaksStep ==
    ASSUME NEW q \in Requests, NEW a, AgentBefore(q, a), Handled(q), PurgeBreaks(q), crashes' = crashes
    PROVE  AgentStepOK(q, a)
<1> DEFINE m == req[q]
<1>0. /\ RequestOK(m) /\ m.on = a /\ a \in AgentIds /\ m.kind = "delete" /\ m.at = "clearing"
      /\ RequestsTyped /\ AgentsTyped /\ failures \in Nat /\ crashes \in Nat
  BY AgentRequestFacts, PlaceFacts DEF PurgeBreaks, Breaks
<1>1. /\ Ends(q) /\ overlapped' = overlapped /\ failures' = failures + 1
      /\ UNCHANGED <<agents, agentFile, told>> /\ partial' = partial \cup {a}
  BY <1>0 DEF PurgeBreaks, Breaks, PartLeft
<1>2. /\ store' \in [AgentIds -> SUBSET Revisions] /\ compiled' \in [AgentIds -> SUBSET Revisions]
      /\ active' \in [AgentIds -> Revisions \cup {NoRevision}]
      /\ workspace' \in [AgentIds -> Revisions \cup {NoRevision}] /\ workspace'[a] \in {workspace[a], NoRevision}
  BY <1>0 DEF PurgeBreaks, PartLeft
<1>3. \A b \in AgentIds \ {a} : /\ active'[b] = active[b] /\ store'[b] = store[b]
                                /\ compiled'[b] = compiled[b] /\ workspace'[b] = workspace[b]
  BY <1>0 DEF PurgeBreaks, PartLeft
<1>4. AgentsTyped' BY <1>0, <1>1, <1>2 DEF AgentsTyped
<1>5. CompiledOK' BY <1>1, <1>3 DEF CompiledOK, AgentBefore
<1>6. Alone(q) => /\ Exists(a, agents[a])' /\ Exists(a, agentFile[a])' /\ Marked(a, agents[a])'
                  /\ failures' < 2 => agents'[a] = told'[a] /\ agentFile'[a] = told'[a]
  BY <1>0, <1>1, GoneFacts
<1>7. failures' \in Nat /\ failures <= failures' /\ failures' > 0 BY <1>0, <1>1
<1> QED BY <1>0, <1>1, <1>2, <1>3, <1>4, <1>5, <1>6, <1>7, AgentEnds

LEMMA AgentStepsOK ==
    ASSUME NEW q \in Requests, NEW a, AgentBefore(q, a), Handled(q), AgentStep(q), crashes' = crashes
    PROVE  AgentStepOK(q, a)
BY LookedStep, CompiledStep, CompileBreaksStep, RevisionRegisteredStep, RegistryLandsStep, RegistryBreaksStep,
   UndoLandsStep, UndoBreaksStep, MarkLandsStep, MarkBreaksStep, PurgeBeginsStep, PurgedStep,
   PurgeBreaksStep, Zenon
   DEF AgentStep

LEMMA EngineStepsOK ==
    ASSUME NEW q \in Requests, NEW e, EngineBefore(q, e), Handled(q), EngineStep(q)
    PROVE  EngineStepOK(q, e)
BY CheckedStep, ClearedStep, PlacedStep, InstallFailsStep, ActivatedStep, RemovedStep,
   SaveTakenStep, SaveLandsStep, SaveFailsStep, Zenon
   DEF EngineStep

-----------------------------------------------------------------------------
(* From one Agent to all of them *)

LEMMA AgentFromInv ==
    ASSUME TypesOK, AgentInv, OneRunOK, NEW q \in Requests, NEW a \in AgentIds,
           (OnAgent(q) /\ req[q].on = a) \/ ~Handled(q)
    PROVE  AgentBefore(q, a)
<1>1. /\ RequestsTyped /\ AgentsTyped /\ failures \in Nat /\ crashes \in Nat /\ overlapped \in BOOLEAN
      /\ CompiledOK
  BY DEF TypesOK, CountersTyped, AgentInv
<1>2. ForAgent(q, a) BY DEF ForAgent, OnAgent
<1>3. ASSUME Alone(q) PROVE /\ \A b \in AgentIds : Exists(b, agents[b]) /\ Exists(b, agentFile[b])
                            /\ Handled(q) => ExistOK(q)
  BY <1>3 DEF AgentInv, ExistsOK, Alone, OnAgent
<1>4. ASSUME Alone(q), failures < 2
      PROVE  /\ \A b \in AgentIds : Free(q, b) => agents[b] = told[b] /\ agentFile[b] = told[b]
             /\ Handled(q) => AnswerOK(q)
             /\ crashes = 0 => /\ \A b \in AgentIds : Free(q, b) => Marked(b, agents[b])
                               /\ Handled(q) => MarkOK(q)
  <2>1. Orderly BY <1>4 DEF Alone, Orderly
  <2>2. \A b \in AgentIds : Free(q, b) => NoneOn(b) BY <1>4 DEF Alone, Free, NoneOn, OnAgent
  <2> QED BY <2>1, <2>2 DEF AgentInv, AnswersOK, MarksOK, OnAgent
<1>5. AgentHere(q) BY <1>3, <1>4 DEF AgentHere
<1>6. Alone(q) /\ Handled(q) /\ req[q].kind = "delete" => ~Running(a)
  BY DEF OneRunOK, Alone, OnAgent, Running, Going
<1> QED BY <1>1, <1>2, <1>5, <1>6 DEF AgentBefore

LEMMA AgentInvStep ==
    ASSUME AloneOK, NEW q \in Requests, NEW a, AgentBefore(q, a), AgentStepOK(q, a)
    PROVE  AgentInv'
<1>0. /\ AgentHere(q)' /\ CompiledOK' /\ OnlyMoves(q) /\ Notices(q) /\ ForAgent(q, a)'
      /\ Handled(q) \/ Handled(q)'
  BY DEF AgentStepOK, AgentTouches
<1>1. ~overlapped' => Alone(q)' BY <1>0, StepsAlone
<1>2. \A p \in Requests : Alone(q)' /\ OnAgent(p)' => p = q BY DEF Alone, OnAgent
<1>3. Handled(q)' => OnAgent(q)' BY <1>0 DEF ForAgent, OnAgent
<1>4. ExistsOK' BY <1>0, <1>1, <1>2 DEF ExistsOK, AgentHere, OnAgent
<1>5. \A b \in AgentIds : NoneOn(b)' => Free(q, b)' BY <1>3 DEF NoneOn, Free
<1>6. AnswersOK' BY <1>0, <1>1, <1>2, <1>5 DEF AnswersOK, AgentHere, Orderly, OnAgent
<1>7. MarksOK' BY <1>0, <1>1, <1>2, <1>5 DEF MarksOK, AgentHere, Orderly, OnAgent
<1> QED BY <1>0, <1>4, <1>6, <1>7 DEF AgentInv

\* What concerns something else leaves the Agents alone.
LEMMA AgentInvElsewhere ==
    ASSUME AgentInv, Same(AgentKinds), ~overlapped' => ~overlapped,
           UNCHANGED <<agents, agentFile, store, compiled, active, partial, told, crashes>>,
           failures \in Nat, failures' \in Nat, failures <= failures'
    PROVE  AgentInv'
<1>1. \A p \in Requests : OnAgent(p)' => OnAgent(p) /\ req'[p] = req[p] BY DEF Same, OnAgent
<1>2. \A p \in Requests : OnAgent(p) => OnAgent(p)' /\ req'[p] = req[p] BY DEF Same, OnAgent
<1>3. \A b, d : Exists(b, d)' = Exists(b, d) BY DEF Exists
<1>4. ExistsOK'
  <2>1. ASSUME ~overlapped', NEW p \in Requests, OnAgent(p)' PROVE ExistOK(p)'
    BY <1>1, <2>1 DEF AgentInv, ExistsOK, ExistOK, Exists
  <2>2. ASSUME ~overlapped', NEW b \in AgentIds PROVE Exists(b, agents[b])' /\ Exists(b, agentFile[b])'
    BY <2>2 DEF AgentInv, ExistsOK, Exists
  <2> QED BY <2>1, <2>2 DEF ExistsOK
<1>5. CompiledOK' BY DEF AgentInv, CompiledOK
<1>6. Orderly' => Orderly BY DEF Orderly
<1>7. \A b \in AgentIds : NoneOn(b)' => NoneOn(b) BY <1>2 DEF NoneOn
<1>8. AnswersOK'
  <2>1. ASSUME Orderly', NEW p \in Requests, OnAgent(p)' PROVE AnswerOK(p)'
    BY <1>1, <1>6, <2>1 DEF AgentInv, AnswersOK, AnswerOK
  <2> QED BY <1>6, <1>7, <2>1 DEF AgentInv, AnswersOK
<1>9. MarksOK'
  <2>1. ASSUME Orderly', crashes' = 0, NEW p \in Requests, OnAgent(p)' PROVE MarkOK(p)'
    BY <1>1, <1>6, <2>1 DEF AgentInv, MarksOK, MarkOK, Marked
  <2>2. ASSUME Orderly', crashes' = 0, NEW b \in AgentIds, NoneOn(b)' PROVE Marked(b, agents[b])'
    BY <1>6, <1>7, <2>2 DEF AgentInv, MarksOK, Marked
  <2> QED BY <2>1, <2>2 DEF MarksOK
<1> QED BY <1>4, <1>5, <1>8, <1>9 DEF AgentInv

\* What does not concern the settings leaves them alone.
LEMMA SettingsElsewhere ==
    ASSUME SettingsOK, Same({"settings"}), ~overlapped' => ~overlapped, UNCHANGED settingsVars,
           failures \in Nat, failures' \in Nat, failures <= failures'
    PROVE  SettingsOK'
<1>1. \A p \in Requests : OnSettings(p)' => OnSettings(p) /\ req'[p] = req[p] BY DEF Same, OnSettings
<1> QED BY <1>1 DEF SettingsOK, Orderly, settingsVars

-----------------------------------------------------------------------------
(* Runs, while Agents change *)

LEMMA RunInvAgent ==
    ASSUME TypesOK, AloneOK, AgentInv, RunInv, NEW q \in Requests, NEW a, AgentBefore(q, a), AgentStepOK(q, a),
           UNCHANGED shared
    PROVE  RunInv'
<1>0. /\ AgentTouches(q, a) /\ OnlyMoves(q) /\ Notices(q) /\ ForAgent(q, a) /\ ForAgent(q, a)'
      /\ (Handled(q) \/ Handled(q)') /\ failures \in Nat /\ failures' \in Nat /\ failures <= failures'
      /\ crashes \in Nat /\ crashes' = crashes /\ run' = run /\ a \in AgentIds
  BY DEF AgentStepOK, AgentTouches, AgentBefore, shared
<1>1. ~overlapped' => Alone(q) /\ Alone(q)' /\ ~overlapped
  BY <1>0, StepsAlone DEF Alone
<1>2. \A x \in Runs : Going(x)' <=> Going(x) BY <1>0 DEF Going
<1>3. \A x \in Runs : Going(x) => run[x].agent \in AgentIds
  BY DEF TypesOK, RunsTyped, RunOK, Going, NoRun
<1>4. OneRunOK'
  <2>1. \A x, y \in Runs : Going(x)' /\ Going(y)' /\ run'[x].agent = run'[y].agent => x = y
    BY <1>0, <1>2 DEF RunInv, OneRunOK
  <2>2. ASSUME ~overlapped', NEW p \in Requests, NEW x \in Runs, OnAgent(p)', req'[p].kind = "delete", Going(x)'
        PROVE  run'[x].agent # req'[p].on
    <3>1. p = q /\ Handled(q)' /\ req'[q].on = a BY <1>0, <1>1, <2>2 DEF Alone, OnAgent, ForAgent
    <3>2. CASE Handled(q)
      <4>1. req[q].kind = "delete" /\ OnAgent(q) /\ req[q].on = a
        BY <1>0, <2>2, <3>1, <3>2 DEF AgentTouches, ForAgent, OnAgent
      <4> QED BY <1>0, <1>1, <1>2, <2>2, <3>1, <4>1 DEF RunInv, OneRunOK
    <3>3. CASE ~Handled(q)
      <4>1. ~Running(a) BY <2>2, <3>1, <3>3, <1>0 DEF AgentTouches
      <4> QED BY <1>0, <1>2, <2>2, <3>1, <4>1 DEF Running, Going
    <3> QED BY <3>2, <3>3
  <2> QED BY <2>1, <2>2 DEF OneRunOK
<1>5. ASSUME ~overlapped', NEW x \in Runs, Going(x), run[x].agent = a
      PROVE  ~(OnAgent(q) /\ req[q].kind = "delete") /\ Running(a)
  <2>1. OnAgent(q) => req[q].on = a BY <1>0 DEF OnAgent, ForAgent
  <2> QED BY <1>1, <1>5, <2>1 DEF RunInv, OneRunOK, Running, Going
<1>6. ASSUME ~overlapped', NEW x \in Runs, Going(x)
      PROVE  workspace'[run[x].agent] = workspace[run[x].agent]
  <2>1. CASE run[x].agent # a BY <1>0, <1>3, <1>6, <2>1 DEF AgentTouches
  <2>2. CASE run[x].agent = a
    BY <1>0, <1>5, <1>6, <2>2 DEF AgentTouches, OnAgent, AgentKinds
  <2> QED BY <2>1, <2>2
<1>7. ~overlapped' => RunMatches'
  <2> SUFFICES ASSUME ~overlapped', NEW x \in Runs, run'[x].at \in {"fetching", "active"}
               PROVE  \/ workspace'[run'[x].agent] = run'[x].def.rev
                      \/ run'[x].def.rev = NoRevision /\ (run'[x].def.by = "cleared" \/ crashes' + failures' > 0)
    BY DEF RunMatches
  <2>1. Going(x) BY <1>0 DEF Going
  <2>2. workspace[run[x].agent] = run[x].def.rev \/ (run[x].def.rev = NoRevision /\ (run[x].def.by = "cleared" \/ crashes + failures > 0))
    BY <1>0, <1>1 DEF RunInv, WorkspacesOK, RunMatches
  <2> QED BY <1>0, <1>6, <2>1, <2>2
<1>8. ASSUME ~overlapped', crashes' + failures' = 0
      PROVE  /\ \A b \in AgentIds : workspace'[b] # NoRevision => Named(b)' \/ BeingDeleted(b)'
             /\ \A x \in Runs : Going(x)' =>
                   /\ agents'[run'[x].agent] # NoAgent
                   /\ run'[x].def.rev # NoRevision => Named(run[x].agent)'
                   /\ ~Used(run'[x].def) /\ run'[x].at = "preparing" =>
                         workspace'[run'[x].agent] = NoRevision
  <2>a. crashes = 0 /\ failures' = 0 /\ failures = 0
    <3>1. crashes' \in Nat /\ failures' \in Nat /\ failures \in Nat /\ failures <= failures' /\ crashes' = crashes
      BY <1>0
    <3>2. \A i, j \in Nat : i + j = 0 => i = 0 /\ j = 0 OBVIOUS
    <3>3. crashes' = 0 /\ failures' = 0 BY <1>8, <3>1, <3>2, Zenon
    <3>4. \A i \in Nat : i <= 0 => i = 0 OBVIOUS
    <3> QED BY <3>1, <3>3, <3>4, Zenon
  <2>0. failures' = 0 /\ failures = 0 /\ crashes = 0 /\ Alone(q) /\ ~overlapped BY <1>1, <1>8, <2>a
  <2>1. /\ \A b \in AgentIds : workspace[b] # NoRevision => Named(b) \/ BeingDeleted(b)
        /\ \A x \in Runs : Going(x) =>
              /\ agents[run[x].agent] # NoAgent
              /\ run[x].def.rev # NoRevision => Named(run[x].agent)
              /\ ~Used(run[x].def) /\ run[x].at = "preparing" =>
                    workspace[run[x].agent] = NoRevision
    BY <2>0 DEF RunInv, WorkspacesOK
  <2>2. \A b \in AgentIds : BeingDeleted(b) => Handled(q) /\ req[q].kind = "delete" /\ b = a
    BY <1>0, <2>0 DEF BeingDeleted, Alone, OnAgent, ForAgent
  <2>3. ASSUME NEW b \in AgentIds, workspace'[b] # NoRevision PROVE Named(b)' \/ BeingDeleted(b)'
    <3>1. CASE b # a BY <1>0, <2>1, <2>2, <2>3, <3>1 DEF AgentTouches, Named
    <3>2. CASE b = a
      <4>1. workspace[a] # NoRevision BY <1>0, <2>3, <3>2 DEF AgentTouches
      <4>2. CASE Handled(q) /\ req[q].kind = "delete"
        <5>1. ~Running(a) BY <2>0, <4>2 DEF AgentBefore
        <5>2. Handled(q)' /\ req'[q].kind = "delete" BY <1>0, <2>0, <2>3, <3>2, <4>2, <5>1 DEF AgentTouches
        <5> QED BY <1>0, <3>2, <5>2 DEF BeingDeleted, OnAgent, ForAgent
      <4>3. CASE ~(Handled(q) /\ req[q].kind = "delete")
        <5>1. Named(a) BY <1>0, <2>1, <2>2, <4>1, <4>3
        <5>2. CASE agents'[a] = agents[a] BY <3>2, <5>1, <5>2 DEF Named
        <5>3. CASE ~Handled(q) /\ Handled(q)' /\ req'[q].kind = "delete"
          BY <1>0, <3>2, <5>3 DEF BeingDeleted, OnAgent, ForAgent
        <5>4. CASE Used(agents'[a]) BY <3>2, <5>4 DEF Named
        <5> QED BY <1>0, <2>0, <5>1, <5>2, <5>3, <5>4 DEF AgentTouches, Named
      <4> QED BY <4>2, <4>3
    <3> QED BY <3>1, <3>2
  <2>4. ASSUME NEW x \in Runs, Going(x)
        PROVE  /\ agents'[run[x].agent] # NoAgent
               /\ run[x].def.rev # NoRevision => Named(run[x].agent)'
    <3>1. PICK b \in AgentIds : b = run[x].agent BY <1>3, <2>4
    <3>2. CASE agents'[b] = agents[b] BY <1>0, <2>1, <2>4, <3>1, <3>2 DEF Named
    <3>3. CASE agents'[b] # agents[b]
      <4>1. b = a BY <1>0, <3>3 DEF AgentTouches
      <4>2. Running(a) BY <1>5, <1>8, <2>4, <3>1, <4>1
      <4>3. agents'[a] # NoAgent /\ (Used(agents[a]) => Used(agents'[a]))
        BY <1>0, <2>0, <3>3, <4>1, <4>2 DEF AgentTouches
      <4> QED BY <1>0, <2>1, <2>4, <3>1, <4>1, <4>3 DEF Named
    <3> QED BY <3>2, <3>3
  <2> QED BY <1>0, <1>2, <1>6, <1>8, <2>1, <2>3, <2>4
<1>9. WorkspacesOK' BY <1>7, <1>8, <1>0 DEF WorkspacesOK
<1> QED BY <1>4, <1>9 DEF RunInv

\* Nothing went wrong up to a point when nothing has gone wrong after it.
LEMMA NoneOfEither ==
    ASSUME NEW c \in Nat, NEW m \in Nat, NEW n \in Nat, m <= n, c + n = 0
    PROVE  c + m = 0
OBVIOUS

\* What concerns something else leaves the Runs alone.
LEMMA RunInvElsewhere ==
    ASSUME RunInv, Same(AgentKinds), ~overlapped' => ~overlapped,
           UNCHANGED <<agents, workspace, run, crashes>>,
           crashes \in Nat, failures \in Nat, failures' \in Nat, failures <= failures'
    PROVE  RunInv'
<1>1. \A p \in Requests : OnAgent(p)' => OnAgent(p) /\ req'[p] = req[p] BY DEF Same, OnAgent
<1>2. \A p \in Requests : OnAgent(p) => OnAgent(p)' /\ req'[p] = req[p] BY DEF Same, OnAgent
<1>3. \A x : Going(x)' <=> Going(x) BY DEF Going
<1>4. \A b : (Named(b)' <=> Named(b)) /\ (BeingDeleted(b) => BeingDeleted(b)') BY <1>2 DEF Named, BeingDeleted
<1>5. OneRunOK' BY <1>1, <1>3 DEF RunInv, OneRunOK
<1>6. ~overlapped' => RunMatches'
  <2> SUFFICES ASSUME ~overlapped', NEW x \in Runs, run'[x].at \in {"fetching", "active"}
               PROVE  \/ workspace'[run'[x].agent] = run'[x].def.rev
                      \/ run'[x].def.rev = NoRevision /\ (run'[x].def.by = "cleared" \/ crashes' + failures' > 0)
    BY DEF RunMatches
  <2>1. workspace[run[x].agent] = run[x].def.rev \/ (run[x].def.rev = NoRevision /\ (run[x].def.by = "cleared" \/ crashes + failures > 0))
    BY DEF RunInv, WorkspacesOK, RunMatches
  <2>2. crashes + failures > 0 => crashes' + failures' > 0
    <3>1. \A i, j, k \in Nat : i + j > 0 /\ j <= k => i + k > 0 OBVIOUS
    <3>2. crashes' = crashes OBVIOUS
    <3> QED BY <3>1, <3>2
  <2> QED BY <2>1, <2>2
<1>7. WorkspacesOK'
  <2>1. ASSUME ~overlapped', crashes' + failures' = 0
        PROVE  /\ \A a \in AgentIds : workspace'[a] # NoRevision => Named(a)' \/ BeingDeleted(a)'
               /\ \A x \in Runs : Going(x)' =>
                     /\ agents'[run'[x].agent] # NoAgent
                     /\ run'[x].def.rev # NoRevision => Named(run[x].agent)'
                     /\ ~Used(run'[x].def) /\ run'[x].at = "preparing" =>
                           workspace'[run'[x].agent] = NoRevision
    <3>1. ~overlapped /\ crashes + failures = 0
      <4>1. ~overlapped BY <2>1, Zenon
      <4>2. crashes + failures' = 0 BY <2>1, Zenon
      <4>3. crashes + failures = 0 BY <4>2, NoneOfEither
      <4> QED BY <4>1, <4>3
    <3>2. ASSUME NEW a \in AgentIds, workspace'[a] # NoRevision PROVE Named(a)' \/ BeingDeleted(a)'
      <4>1. workspace[a] # NoRevision BY <3>2
      <4>2. Named(a) \/ BeingDeleted(a) BY <3>1, <4>1 DEF RunInv, WorkspacesOK
      <4> QED BY <1>4, <4>2
    <3>3. ASSUME NEW x \in Runs, Going(x)'
          PROVE  /\ agents'[run'[x].agent] # NoAgent
                 /\ run'[x].def.rev # NoRevision => Named(run[x].agent)'
                 /\ ~Used(run'[x].def) /\ run'[x].at = "preparing" =>
                       workspace'[run'[x].agent] = NoRevision
      <4>1. Going(x) BY <1>3, <3>3
      <4>2. /\ agents[run[x].agent] # NoAgent
            /\ run[x].def.rev # NoRevision => Named(run[x].agent)
            /\ ~Used(run[x].def) /\ run[x].at = "preparing" =>
                  workspace[run[x].agent] = NoRevision
        BY <3>1, <4>1 DEF RunInv, WorkspacesOK
      <4>3. Named(run[x].agent)' <=> Named(run[x].agent) BY DEF Named
      <4> QED BY <4>2, <4>3
    <3> QED BY <3>2, <3>3
  <2> QED BY <1>6, <2>1 DEF WorkspacesOK, Named
<1> QED BY <1>5, <1>7 DEF RunInv

-----------------------------------------------------------------------------
(* Every step keeps the invariant: requests *)

LEMMA NoticesTyped ==
    ASSUME CountersTyped, NEW q \in Requests, Notices(q), failures' \in Nat, up' = up, crashes' = crashes
    PROVE  CountersTyped' /\ (~overlapped' => ~overlapped)
<1>1. overlapped' \in BOOLEAN BY DEF Notices
<1>2. ~overlapped' => ~overlapped BY DEF Notices
<1> QED BY <1>1, <1>2 DEF CountersTyped

LEMMA SettingsMove ==
    ASSUME ConfigOK, NEW q \in Requests, UNCHANGED <<shared, engineVars, agentVars>>,
           RequestsTyped', SettingsTyped', OnlyMoves(q), Notices(q), Handled(q) \/ Handled(q)',
           Handled(q) => req[q].kind = "settings", Handled(q)' => req'[q].kind = "settings",
           failures' \in Nat, failures <= failures',
           Orderly => /\ settings' = settingsFile' /\ settings' = toldSettings'
                      /\ Handled(q)' => settings' \subseteq req'[q].arg
    PROVE  ConfigOK'
<1>0. /\ up' = up /\ crashes' = crashes /\ run' = run
      /\ agents' = agents /\ agentFile' = agentFile /\ store' = store /\ compiled' = compiled
      /\ active' = active /\ workspace' = workspace /\ partial' = partial /\ told' = told
      /\ failures \in Nat /\ crashes \in Nat /\ CountersTyped
  BY DEF shared, agentVars, ConfigOK, TypesOK, CountersTyped
<1>1. CountersTyped' /\ (~overlapped' => ~overlapped) BY <1>0, NoticesTyped
<1>2. TypesOK'
  <2>1. RunsTyped' BY <1>0 DEF ConfigOK, TypesOK, RunsTyped, RunOK, Going
  <2>2. EnginesTyped' BY DEF ConfigOK, TypesOK, EnginesTyped, engineVars
  <2>3. AgentsTyped' BY <1>0 DEF ConfigOK, TypesOK, AgentsTyped
  <2> QED BY <1>1, <2>1, <2>2, <2>3 DEF TypesOK
<1>3. AloneOK' /\ (~overlapped' => Alone(q)') BY StepsAlone DEF ConfigOK
<1>4. Same(EngineKinds) BY SameOthers DEF EngineKinds
<1>5. Same(AgentKinds) BY SameOthers DEF AgentKinds
<1>6. EngineInv' BY <1>0, <1>1, <1>4, EngineInvElsewhere DEF ConfigOK
<1>7. AgentInv' BY <1>0, <1>1, <1>5, AgentInvElsewhere DEF ConfigOK
<1>8. RunInv' BY <1>0, <1>1, <1>5, RunInvElsewhere DEF ConfigOK
<1>9. SettingsOK'
  <2>1. Orderly' => Orderly BY <1>0, <1>1 DEF Orderly
  <2>2. Orderly' => \A p \in Requests : OnSettings(p)' => p = q BY <1>3 DEF Orderly, Alone, OnSettings
  <2>3. OnSettings(q)' => Handled(q)' BY DEF OnSettings
  <2> QED BY <2>1, <2>2, <2>3 DEF SettingsOK
<1> QED BY <1>2, <1>3, <1>6, <1>7, <1>8, <1>9 DEF ConfigOK

LEMMA SettingsRequestKeeps ==
    ASSUME ConfigOK, NEW q \in Requests, SettingsRequest(q)
    PROVE  ConfigOK'
<1>0. /\ RequestsTyped /\ SettingsTyped /\ failures \in Nat /\ overlapped \in BOOLEAN /\ SettingsOK
      /\ MaxFailures \in Nat /\ AloneOK
      /\ UNCHANGED <<shared, engineVars, agentVars>>
  BY DEF ConfigOK, TypesOK, CountersTyped, SettingsRequest
<1>a. Handled(q) => RequestOK(req[q]) BY <1>0, HandledFacts
<1>1. CASE SettingsSaved(q)
  <2>1. req[q].at = "saving" /\ failures' = failures /\ overlapped' = overlapped
        /\ settingsFile' = req[q].arg /\ settings' = req[q].arg /\ toldSettings' = toldSettings \cup req[q].arg
    BY <1>1 DEF SettingsSaved, Steps
  <2>2. Handled(q) /\ OnSettings(q) /\ req[q].kind = "settings" /\ req[q].arg \subseteq Settings
    BY <1>a, <2>1, PlaceFacts DEF Handled, OnSettings
  <2>3. Stands(q, "settings", req[q].on, req[q].arg, "pruning", req[q].was, req[q].save, req[q].snap)
    <3>1. req' = [req EXCEPT ![q].at = "pruning"] BY <1>1 DEF SettingsSaved
    <3>2. IsRequest(req[q]) BY <1>a, <2>2 DEF RequestOK
    <3> QED BY <1>0, <2>2, <3>1, <3>2, Moved
  <2>4. req'[q].kind = "settings" /\ req'[q].arg = req[q].arg BY <2>3 DEF Stands, HasFields
  <2>5. RequestOK(req'[q])
    <3>1. req[q].save = "none" BY <1>a, <2>2 DEF RequestOK, EngineKinds, AgentKinds
    <3>2. IsRequest(req'[q]) /\ req'[q].at = "pruning" /\ req'[q].save = "none" BY <2>3, <3>1 DEF Stands, HasFields
    <3> QED BY <2>2, <2>4, <3>2 DEF RequestOK, Places
  <2>6. RequestsTyped' /\ Handled(q)' /\ OnlyMoves(q) BY <1>0, <2>3, <2>5, StandsTyped, Zenon
  <2>7. Notices(q) BY <1>0, <2>1, <2>2, SteadyNotices
  <2>8. SettingsTyped' BY <1>0, <2>1, <2>2 DEF SettingsTyped
  <2>9. Orderly => settings' = settingsFile' /\ settings' = toldSettings' /\ settings' \subseteq req'[q].arg
    BY <1>0, <2>1, <2>2, <2>4 DEF SettingsOK
  <2> QED BY <1>0, <2>1, <2>2, <2>4, <2>6, <2>7, <2>8, <2>9, SettingsMove
<1>2. CASE SettingsBreak(q) \/ Pruned(q) \/ PruneBreaks(q)
  <2>1. req[q].at \in {"saving", "pruning"} /\ failures' \in {failures, failures + 1} /\ overlapped' = overlapped
        /\ settingsFile' = settingsFile /\ settings' = settings /\ toldSettings' = toldSettings /\ Ends(q)
    BY <1>2 DEF SettingsBreak, Pruned, PruneBreaks, Steps, Breaks, settingsVars
  <2>2. Handled(q) /\ req[q].kind = "settings"
    BY <1>a, <2>1, PlaceFacts DEF Handled
  <2>3. RequestsTyped' /\ ~Handled(q)' /\ OnlyMoves(q) BY <1>0, <2>1, Ended, IsEnded DEF Over
  <2>4. Notices(q) BY <1>0, <2>1, <2>2, SteadyNotices
  <2>5. SettingsTyped' BY <1>0, <2>1 DEF SettingsTyped
  <2>6. Orderly => settings' = settingsFile' /\ settings' = toldSettings' BY <1>0, <2>1 DEF SettingsOK
  <2>7. failures' \in Nat /\ failures <= failures' BY <1>0, <2>1
  <2> QED BY <1>0, <2>2, <2>3, <2>4, <2>5, <2>6, <2>7, SettingsMove
<1>3. ASSUME NEW s \in Settings, UpdateSettings(q, s) PROVE ConfigOK'
  <2>1. /\ req[q].at = "new" /\ failures' = failures /\ overlapped' = (overlapped \/ InFlight # {})
        /\ settingsFile' = settingsFile /\ settings' = settings /\ toldSettings' = toldSettings
    BY <1>3 DEF UpdateSettings, Begins, settingsVars
  <2>2. ~Handled(q) /\ Notices(q) BY <2>1 DEF Handled, Notices
  <2>3. Stands(q, "settings", Node, settings \cup {s}, "saving", settings, "none", <<>>)
    BY <1>0, <1>3, Begun, Zenon DEF UpdateSettings, Begins
  <2>4. RequestOK(req'[q])
    BY <1>0, <2>3 DEF Stands, HasFields, RequestOK, Places, SettingsTyped
  <2>5. RequestsTyped' /\ Handled(q)' /\ OnlyMoves(q) BY <1>0, <2>3, <2>4, StandsTyped, Zenon
  <2>6. SettingsTyped' BY <1>0, <2>1 DEF SettingsTyped
  <2>7. req'[q].kind = "settings" /\ req'[q].arg = settings \cup {s} BY <2>3 DEF Stands, HasFields
  <2>8. Orderly => /\ settings' = settingsFile' /\ settings' = toldSettings'
                   /\ settings' \subseteq req'[q].arg
    BY <1>0, <2>1, <2>7 DEF SettingsOK
  <2> QED BY <1>0, <2>1, <2>2, <2>5, <2>6, <2>7, <2>8, SettingsMove
<1> QED BY <1>1, <1>2, <1>3 DEF SettingsRequest

LEMMA AgentMoveKeeps ==
    ASSUME ConfigOK, NEW q \in Requests, NEW a, AgentBefore(q, a), AgentStepOK(q, a),
           UNCHANGED <<shared, engineVars, settingsVars>>
    PROVE  ConfigOK'
<1>0. /\ up' = up /\ crashes' = crashes /\ run' = run
      /\ failures \in Nat /\ crashes \in Nat /\ CountersTyped
      /\ RequestsTyped' /\ AgentsTyped' /\ OnlyMoves(q) /\ Notices(q) /\ (Handled(q) \/ Handled(q)')
      /\ failures' \in Nat /\ failures <= failures' /\ ForAgent(q, a) /\ ForAgent(q, a)'
      /\ UNCHANGED shared
  BY DEF shared, ConfigOK, TypesOK, CountersTyped, AgentStepOK, AgentTouches
<1>1. CountersTyped' /\ (~overlapped' => ~overlapped) BY <1>0, NoticesTyped
<1>2. TypesOK'
  <2>1. RunsTyped' BY <1>0 DEF ConfigOK, TypesOK, RunsTyped, RunOK, Going
  <2>2. EnginesTyped' BY DEF ConfigOK, TypesOK, EnginesTyped, engineVars
  <2>3. SettingsTyped' BY DEF ConfigOK, TypesOK, SettingsTyped, settingsVars
  <2> QED BY <1>0, <1>1, <2>1, <2>2, <2>3 DEF TypesOK
<1>3. AloneOK' BY <1>0, StepsAlone DEF ConfigOK
<1>4. Same(EngineKinds) BY <1>0, SameOthers DEF EngineKinds, AgentKinds, ForAgent
<1>5. Same({"settings"}) BY <1>0, SameOthers DEF AgentKinds, ForAgent
<1>6. EngineInv' BY <1>0, <1>1, <1>4, EngineInvElsewhere DEF ConfigOK
<1>7. AgentInv' BY AgentInvStep DEF ConfigOK
<1>8. RunInv' BY <1>0, RunInvAgent DEF ConfigOK
<1>9. SettingsOK' BY <1>0, <1>1, <1>5, SettingsElsewhere DEF ConfigOK
<1> QED BY <1>2, <1>3, <1>6, <1>7, <1>8, <1>9 DEF ConfigOK

LEMMA AgentRequestKeeps ==
    ASSUME ConfigOK, NEW q \in Requests, AgentRequest(q)
    PROVE  ConfigOK'
<1>0. /\ TypesOK /\ AgentInv /\ OneRunOK /\ RequestsTyped /\ crashes' = crashes
      /\ UNCHANGED <<shared, engineVars, settingsVars>>
  BY DEF ConfigOK, RunInv, TypesOK, AgentRequest, shared
<1>1. CASE AgentStep(q)
  <2>1. Handled(q) /\ req[q].kind \in AgentKinds
    <3>1. req[q].at \in {"reading", "registering", "undoing", "looking", "compiling", "marking", "purging", "clearing"}
      BY <1>1 DEF AgentStep, RevisionRegistered, RegistryLands, RegistryBreaks, UndoLands, UndoBreaks,
                  Looked, Compiled, CompileBreaks, MarkLands, MarkBreaks, PurgeBegins, Purged,
                  PurgeBreaks, Steps, Breaks
    <3>2. Handled(q) BY <3>1 DEF Handled
    <3>3. RequestOK(req[q]) BY <1>0, <3>2, HandledFacts
    <3> QED BY <3>1, <3>2, <3>3, PlaceFacts DEF AgentKinds
  <2>2. req[q].on \in AgentIds BY <1>0, <2>1, HandledFacts, PlaceFacts DEF AgentRequestOK
  <2>3. AgentBefore(q, req[q].on) BY <1>0, <2>1, <2>2, AgentFromInv DEF OnAgent
  <2>4. AgentStepOK(q, req[q].on) BY <1>0, <1>1, <2>1, <2>3, AgentStepsOK
  <2> QED BY <1>0, <2>3, <2>4, AgentMoveKeeps
<1>2. ASSUME NEW a \in AgentIds, AgentAsked(q, a) PROVE ConfigOK'
  <2>1. ~Handled(q)
    BY <1>2 DEF AgentAsked, Put, Deploy, ActivateRevision, Delete, Asked, Begins, RegisteredAtOnce, Handled
  <2>2. AgentBefore(q, a) BY <1>0, <2>1, AgentFromInv
  <2>3. AgentStepOK(q, a) BY <1>0, <1>2, <2>1, <2>2, AgentAskedStep
  <2> QED BY <1>0, <2>2, <2>3, AgentMoveKeeps
<1> QED BY <1>1, <1>2 DEF AgentRequest

LEMMA EngineMoveKeeps ==
    ASSUME ConfigOK, up, NEW q \in Requests, NEW e \in EngineIds, EngineBefore(q, e), EngineStepOK(q, e),
           UNCHANGED <<shared, agentVars, settingsVars>>
    PROVE  ConfigOK'
<1>0. /\ up' = up /\ crashes' = crashes /\ run' = run
      /\ agents' = agents /\ agentFile' = agentFile /\ store' = store /\ compiled' = compiled
      /\ active' = active /\ workspace' = workspace /\ partial' = partial /\ told' = told
      /\ failures \in Nat /\ crashes \in Nat /\ CountersTyped
      /\ RequestsTyped' /\ EnginesTyped' /\ OnlyMoves(q) /\ Notices(q) /\ (Handled(q) \/ Handled(q)')
      /\ failures' \in Nat /\ failures <= failures' /\ For(q, e) /\ For(q, e)'
  BY DEF shared, agentVars, ConfigOK, TypesOK, CountersTyped, EngineStepOK, Touches
<1>1. CountersTyped' /\ (~overlapped' => ~overlapped) BY <1>0, NoticesTyped
<1>2. TypesOK'
  <2>1. RunsTyped' BY <1>0 DEF ConfigOK, TypesOK, RunsTyped, RunOK, Going
  <2>2. AgentsTyped' BY <1>0 DEF ConfigOK, TypesOK, AgentsTyped
  <2>3. SettingsTyped' BY DEF ConfigOK, TypesOK, SettingsTyped, settingsVars
  <2> QED BY <1>0, <1>1, <2>1, <2>2, <2>3 DEF TypesOK
<1>3. AloneOK' BY <1>0, StepsAlone DEF ConfigOK
<1>4. Same(AgentKinds) BY <1>0, SameOthers DEF EngineKinds, AgentKinds, For
<1>5. Same({"settings"}) BY <1>0, SameOthers DEF EngineKinds, For
<1>6. EngineInv' BY EngineInvStep DEF ConfigOK
<1>7. AgentInv' BY <1>0, <1>1, <1>4, AgentInvElsewhere DEF ConfigOK
<1>8. RunInv' BY <1>0, <1>1, <1>4, RunInvElsewhere DEF ConfigOK
<1>9. SettingsOK' BY <1>0, <1>1, <1>5, SettingsElsewhere DEF ConfigOK
<1> QED BY <1>2, <1>3, <1>6, <1>7, <1>8, <1>9 DEF ConfigOK

\* The engine a step of a request is for
LEMMA EngineRequestSteps ==
    ASSUME ConfigOK, NEW q \in Requests, EngineRequest(q)
    PROVE  up /\ \E e \in EngineIds : EngineBefore(q, e) /\ EngineStepOK(q, e)
<1>0. TypesOK /\ EngineInv /\ RequestsTyped BY DEF ConfigOK, TypesOK
<1>1. CASE EngineStep(q)
  <2>1. up /\ (\/ req[q].at \in {"checking", "fetching", "cleared", "removing"}
               \/ Handled(q) /\ req[q].save \in {"making", "written"})
    BY <1>1 DEF EngineStep, InstallChecked, Cleared, Placed, InstallFails, Activated, Removed,
                SaveTaken, SaveLands, SaveFails, Steps, Saving
  <2>2. Handled(q) BY <2>1 DEF Handled
  <2>3. RequestOK(req[q]) BY <1>0, <2>2, HandledFacts
  <2>4. req[q].kind \in EngineKinds BY <2>1, <2>3, PlaceFacts DEF EngineKinds
  <2>5. req[q].on \in EngineIds BY <2>3, <2>4, PlaceFacts DEF EngineRequestOK
  <2>6. EngineBefore(q, req[q].on) BY <1>0, <2>1, <2>2, <2>4, <2>5, HereFromInv DEF OnEngine
  <2>7. EngineStepOK(q, req[q].on) BY <1>1, <2>2, <2>6, EngineStepsOK
  <2> QED BY <2>1, <2>5, <2>6, <2>7
<1>2. ASSUME NEW e \in EngineIds, EngineAsked(q, e)
      PROVE  up /\ EngineBefore(q, e) /\ EngineStepOK(q, e)
  <2>1. up /\ ~Handled(q) /\ On(e) = {}
    BY <1>2 DEF EngineAsked, Install, Activate, SetEnabled, Uninstall, UpdatesAtOnce, Begins, Handled
  <2>2. EngineBefore(q, e) BY <1>0, <2>1, HereFromInv
  <2>3. EngineStepOK(q, e) BY <1>2, <2>1, <2>2, EngineAskedStep
  <2> QED BY <2>1, <2>2, <2>3
<1> QED BY <1>1, <1>2 DEF EngineRequest

LEMMA EngineRequestKeeps ==
    ASSUME ConfigOK, NEW q \in Requests, EngineRequest(q)
    PROVE  ConfigOK'
<1>1. up /\ \E e \in EngineIds : EngineBefore(q, e) /\ EngineStepOK(q, e) BY EngineRequestSteps
<1>2. UNCHANGED <<shared, agentVars, settingsVars>> BY DEF EngineRequest
<1> QED BY <1>1, <1>2, EngineMoveKeeps

-----------------------------------------------------------------------------
(* Every step keeps the invariant: Runs *)

\* What a Run's step leaves alone
BesidesRuns ==
    <<req, overlapped, up, crashes, engineVars, settingsVars, agents, agentFile, store, compiled, active, partial, told>>

LEMMA RunMoveKeeps ==
    ASSUME ConfigOK, UNCHANGED BesidesRuns, RunsTyped', RunInv',
           workspace' \in [AgentIds -> Revisions \cup {NoRevision}],
           failures' \in Nat, failures <= failures'
    PROVE  ConfigOK'
<1>0. /\ req' = req /\ overlapped' = overlapped /\ up' = up /\ crashes' = crashes
      /\ agents' = agents /\ agentFile' = agentFile /\ store' = store /\ compiled' = compiled
      /\ active' = active /\ partial' = partial /\ told' = told
      /\ UNCHANGED engineVars /\ UNCHANGED settingsVars /\ failures \in Nat
  BY DEF BesidesRuns, ConfigOK, TypesOK, CountersTyped
<1>1. \A K : Same(K) BY <1>0 DEF Same, Handled
<1>2. TypesOK'
  <2>1. RequestsTyped' BY <1>0 DEF ConfigOK, TypesOK, RequestsTyped
  <2>2. CountersTyped' BY <1>0 DEF ConfigOK, TypesOK, CountersTyped
  <2>3. EnginesTyped' BY <1>0 DEF ConfigOK, TypesOK, EnginesTyped, engineVars
  <2>4. AgentsTyped' BY <1>0 DEF ConfigOK, TypesOK, AgentsTyped
  <2>5. SettingsTyped' BY <1>0 DEF ConfigOK, TypesOK, SettingsTyped, settingsVars
  <2> QED BY <2>1, <2>2, <2>3, <2>4, <2>5 DEF TypesOK
<1>3. AloneOK' BY <1>0 DEF ConfigOK, AloneOK, Handled
<1>4. EngineInv' BY <1>0, <1>1, EngineInvElsewhere DEF ConfigOK
<1>5. AgentInv' BY <1>0, <1>1, AgentInvElsewhere DEF ConfigOK
<1>6. SettingsOK' BY <1>0, <1>1, SettingsElsewhere DEF ConfigOK
<1> QED BY <1>2, <1>3, <1>4, <1>5, <1>6 DEF ConfigOK

\* What the steps of Runs use of the invariant
LEMMA RunFacts ==
    ASSUME ConfigOK
    PROVE  /\ RunsTyped /\ RunInv /\ failures \in Nat /\ crashes \in Nat
           /\ workspace \in [AgentIds -> Revisions \cup {NoRevision}]
           /\ agents \in [AgentIds -> Defs \cup {NoAgent}]
           /\ \A x \in Runs : run[x].at \in {"preparing", "fetching", "active"} =>
                 /\ Going(x) /\ run[x].agent \in AgentIds /\ run[x].def \in Defs /\ run[x].engine \in EngineIds
                 /\ run[x] = [at |-> run[x].at, agent |-> run[x].agent, def |-> run[x].def, engine |-> run[x].engine]
           /\ ~overlapped => \A a \in AgentIds : BeingDeleted(a) => agents[a] = NoAgent
<1>1. RunsTyped /\ RunInv /\ failures \in Nat /\ crashes \in Nat /\ AgentInv /\ AgentsTyped
  BY DEF ConfigOK, TypesOK, CountersTyped
<1>2. \A x \in Runs : run[x].at \in {"preparing", "fetching", "active"} =>
         /\ Going(x) /\ run[x].agent \in AgentIds /\ run[x].def \in Defs /\ run[x].engine \in EngineIds
         /\ run[x] = [at |-> run[x].at, agent |-> run[x].agent, def |-> run[x].def, engine |-> run[x].engine]
  BY <1>1 DEF RunsTyped, RunOK, Going, NoRun
<1>3. ASSUME ~overlapped, NEW a \in AgentIds, BeingDeleted(a) PROVE agents[a] = NoAgent
  BY <1>1, <1>3 DEF BeingDeleted, AgentInv, ExistsOK, ExistOK
<1> QED BY <1>1, <1>2, <1>3 DEF AgentsTyped, AgentStates

LEMMA RunEnded ==
    ASSUME ConfigOK, NEW x \in Runs, run[x].at \in {"preparing", "fetching", "active"},
           run' = [run EXCEPT ![x] = [at |-> "ended"]], UNCHANGED BesidesRuns,
           failures' \in Nat, failures <= failures',
           \/ workspace' = workspace
           \/ failures' > 0 /\ workspace' = [workspace EXCEPT ![run[x].agent] = NoRevision]
    PROVE  ConfigOK'
<1>0. /\ RunsTyped /\ RunInv /\ failures \in Nat /\ crashes \in Nat
      /\ workspace \in [AgentIds -> Revisions \cup {NoRevision}]
      /\ Going(x) /\ run[x].agent \in AgentIds
      /\ req' = req /\ overlapped' = overlapped /\ crashes' = crashes /\ agents' = agents
  BY RunFacts DEF BesidesRuns
<1>1. DOMAIN run' = Runs /\ run'[x] = [at |-> "ended"] /\ \A y \in Runs \ {x} : run'[y] = run[y]
  BY <1>0 DEF RunsTyped
<1>2. RunsTyped' BY <1>0, <1>1 DEF RunsTyped, RunOK, Going
<1>3. workspace' \in [AgentIds -> Revisions \cup {NoRevision}] BY <1>0
<1>4. \A y \in Runs : Going(y)' => y # x /\ Going(y) /\ run'[y] = run[y] BY <1>1 DEF Going
<1>5. OneRunOK' BY <1>0, <1>4 DEF RunInv, OneRunOK, OnAgent, Handled
<1>a. \A y \in Runs : Going(y) => run[y].agent \in AgentIds BY RunFacts DEF Going
<1>6. \A y \in Runs : Going(y)' => workspace'[run[y].agent] = workspace[run[y].agent]
  BY <1>0, <1>4, <1>a DEF RunInv, OneRunOK
<1>7. ~overlapped' => RunMatches'
  <2> SUFFICES ASSUME ~overlapped', NEW y \in Runs, run'[y].at \in {"fetching", "active"}
               PROVE  \/ workspace'[run'[y].agent] = run'[y].def.rev
                      \/ run'[y].def.rev = NoRevision /\ (run'[y].def.by = "cleared" \/ crashes' + failures' > 0)
    BY DEF RunMatches
  <2>1. Going(y)' BY DEF Going
  <2>2. workspace[run[y].agent] = run[y].def.rev \/ (run[y].def.rev = NoRevision /\ (run[y].def.by = "cleared" \/ crashes + failures > 0))
    BY <1>0, <1>4, <2>1 DEF RunInv, WorkspacesOK, RunMatches
  <2>3. crashes + failures > 0 => crashes' + failures' > 0
    <3>1. \A i, j, k \in Nat : i + j > 0 /\ j <= k => i + k > 0 OBVIOUS
    <3> QED BY <1>0, <3>1
  <2> QED BY <1>4, <1>6, <2>1, <2>2, <2>3
<1>8. ASSUME ~overlapped', crashes' + failures' = 0
      PROVE  /\ \A a \in AgentIds : workspace'[a] # NoRevision => Named(a)' \/ BeingDeleted(a)'
             /\ \A y \in Runs : Going(y)' =>
                   /\ agents'[run'[y].agent] # NoAgent
                   /\ run'[y].def.rev # NoRevision => Named(run[y].agent)'
                   /\ ~Used(run'[y].def) /\ run'[y].at = "preparing" =>
                         workspace'[run'[y].agent] = NoRevision
  <2>1. crashes + failures = 0 /\ ~(failures' > 0)
    <3>1. \A i, j, k \in Nat : i + j = 0 /\ k <= j => i + k = 0 /\ ~(j > 0) OBVIOUS
    <3> QED BY <1>0, <1>8, <3>1
  <2>2. workspace' = workspace BY <2>1
  <2>3. \A a : (Named(a)' <=> Named(a)) /\ (BeingDeleted(a)' <=> BeingDeleted(a))
    BY <1>0 DEF Named, BeingDeleted, OnAgent, Handled
  <2> QED BY <1>0, <1>4, <1>8, <2>1, <2>2, <2>3 DEF RunInv, WorkspacesOK
<1>9. WorkspacesOK' BY <1>1, <1>4, <1>7, <1>8 DEF WorkspacesOK
<1>10. RunInv' BY <1>5, <1>9 DEF RunInv
<1> QED BY <1>2, <1>3, <1>10, RunMoveKeeps

\* A Run goes on from one await to the next, with the files of its revision.
LEMMA RunAdvances ==
    ASSUME ConfigOK, NEW x \in Runs, NEW t \in {"fetching", "active"},
           run[x].at \in {"preparing", "fetching"}, run' = [run EXCEPT ![x].at = t],
           UNCHANGED BesidesRuns, failures' = failures,
           run[x].at = "preparing" =>
              workspace' = [workspace EXCEPT ![run[x].agent] = IF run[x].def.rev = NoRevision THEN @ ELSE run[x].def.rev],
           run[x].at = "fetching" => workspace' = workspace
    PROVE  ConfigOK'
<1>0. /\ RunsTyped /\ RunInv /\ failures \in Nat /\ crashes \in Nat
      /\ workspace \in [AgentIds -> Revisions \cup {NoRevision}]
      /\ Going(x) /\ run[x].agent \in AgentIds /\ run[x].def \in Defs /\ run[x].engine \in EngineIds
      /\ run[x] = [at |-> run[x].at, agent |-> run[x].agent, def |-> run[x].def, engine |-> run[x].engine]
      /\ req' = req /\ overlapped' = overlapped /\ crashes' = crashes /\ agents' = agents
  BY RunFacts DEF BesidesRuns
<1>1. PICK a \in AgentIds, d \in Defs, e \in EngineIds :
         run[x] = [at |-> run[x].at, agent |-> a, def |-> d, engine |-> e]
  BY <1>0
<1>2. /\ DOMAIN run' = Runs /\ run' = [y \in Runs |-> run'[y]]
      /\ run'[x] = [at |-> t, agent |-> a, def |-> d, engine |-> e] /\ \A y \in Runs \ {x} : run'[y] = run[y]
  BY <1>0, <1>1 DEF RunsTyped
<1>3. RunsTyped' BY <1>0, <1>2 DEF RunsTyped, RunOK, Going
<1>4. /\ workspace' \in [AgentIds -> Revisions \cup {NoRevision}]
      /\ \A b \in AgentIds \ {a} : workspace'[b] = workspace[b]
      /\ workspace'[a] = IF run[x].at = "preparing" /\ d.rev # NoRevision THEN d.rev ELSE workspace[a]
  BY <1>0, <1>1 DEF Defs
<1>5. \A y \in Runs : /\ Going(y)' <=> Going(y)
                      /\ Going(y) => run'[y].agent = run[y].agent /\ run'[y].def = run[y].def
  BY <1>0, <1>1, <1>2 DEF Going
<1>6. OneRunOK' BY <1>0, <1>5 DEF RunInv, OneRunOK, OnAgent, Handled
<1>7. \A y \in Runs \ {x} : Going(y) => run[y].agent # a BY <1>0, <1>1 DEF RunInv, OneRunOK
<1>8. \A y \in Runs \ {x} : Going(y) => run[y].agent \in AgentIds BY RunFacts DEF Going
<1>9. ~overlapped' => RunMatches'
  <2> SUFFICES ASSUME ~overlapped', NEW y \in Runs, run'[y].at \in {"fetching", "active"}
               PROVE  \/ workspace'[run'[y].agent] = run'[y].def.rev
                      \/ run'[y].def.rev = NoRevision /\ (run'[y].def.by = "cleared" \/ crashes' + failures' > 0)
    BY DEF RunMatches
  <2>0. crashes' + failures' = crashes + failures /\ crashes + failures \in Nat BY <1>0
  <2>1. CASE y # x
    <3>1. Going(y) /\ run'[y] = run[y] BY <1>2, <2>1 DEF Going
    <3>2. workspace[run[y].agent] = run[y].def.rev \/ (run[y].def.rev = NoRevision /\ (run[y].def.by = "cleared" \/ crashes + failures > 0))
      BY <1>0, <3>1 DEF RunInv, WorkspacesOK, RunMatches
    <3> QED BY <1>4, <1>7, <1>8, <2>0, <2>1, <3>1, <3>2
  <2>2. CASE y = x /\ run[x].at = "preparing"
    <3>1. CASE d.rev # NoRevision BY <1>2, <1>4, <2>2, <3>1
    <3>2. CASE d.rev = NoRevision
      <4>1. crashes + failures = 0 /\ d.by # "cleared" => workspace[a] = NoRevision
        BY <1>0, <1>1, <2>2, <3>2 DEF RunInv, WorkspacesOK, Going, Used
      <4>2. crashes + failures = 0 \/ crashes + failures > 0 BY <2>0
      <4> QED BY <1>2, <1>4, <2>0, <2>2, <3>2, <4>1, <4>2
    <3> QED BY <3>1, <3>2
  <2>3. CASE y = x /\ run[x].at # "preparing"
    <3>1. workspace[a] = d.rev \/ (d.rev = NoRevision /\ (d.by = "cleared" \/ crashes + failures > 0))
      BY <1>0, <1>1, <2>3 DEF RunInv, WorkspacesOK, RunMatches
    <3> QED BY <1>2, <1>4, <2>0, <2>3, <3>1
  <2> QED BY <2>1, <2>2, <2>3
<1>10. ASSUME ~overlapped', crashes' + failures' = 0
       PROVE  /\ \A b \in AgentIds : workspace'[b] # NoRevision => Named(b)' \/ BeingDeleted(b)'
              /\ \A y \in Runs : Going(y)' =>
                    /\ agents'[run'[y].agent] # NoAgent
                    /\ run'[y].def.rev # NoRevision => Named(run[y].agent)'
                    /\ ~Used(run'[y].def) /\ run'[y].at = "preparing" =>
                          workspace'[run'[y].agent] = NoRevision
  <2>1. /\ \A b \in AgentIds : workspace[b] # NoRevision => Named(b) \/ BeingDeleted(b)
        /\ \A y \in Runs : Going(y) =>
              /\ agents[run[y].agent] # NoAgent
              /\ run[y].def.rev # NoRevision => Named(run[y].agent)
              /\ ~Used(run[y].def) /\ run[y].at = "preparing" =>
                    workspace[run[y].agent] = NoRevision
    BY <1>0, <1>10 DEF RunInv, WorkspacesOK
  <2>2. \A b : (Named(b)' <=> Named(b)) /\ (BeingDeleted(b)' <=> BeingDeleted(b))
    BY <1>0 DEF Named, BeingDeleted, OnAgent, Handled
  <2>3. \A b \in AgentIds : workspace'[b] # NoRevision => Named(b)' \/ BeingDeleted(b)'
    <3>1. d.rev # NoRevision => Named(a) BY <1>0, <1>1, <2>1
    <3> QED BY <1>4, <2>1, <2>2, <3>1
  <2>4. ASSUME NEW y \in Runs, Going(y)'
        PROVE  /\ agents'[run'[y].agent] # NoAgent
               /\ run'[y].def.rev # NoRevision => Named(run[y].agent)'
               /\ ~Used(run'[y].def) /\ run'[y].at = "preparing" =>
                     workspace'[run'[y].agent] = NoRevision
    <3>1. Going(y) /\ run'[y].agent = run[y].agent /\ run'[y].def = run[y].def BY <1>5, <2>4
    <3>2. agents'[run'[y].agent] # NoAgent /\ (run'[y].def.rev # NoRevision => Named(run[y].agent)')
      BY <1>0, <2>1, <2>2, <3>1
    <3>3. run'[y].at = "preparing" => y # x /\ run[y].at = "preparing" BY <1>2
    <3>4. y # x => workspace'[run[y].agent] = workspace[run[y].agent] BY <1>4, <1>7, <1>8, <3>1
    <3> QED BY <2>1, <3>1, <3>2, <3>3, <3>4
  <2> QED BY <2>3, <2>4
<1>11. WorkspacesOK' BY <1>5, <1>9, <1>10 DEF WorkspacesOK
<1>12. RunInv' BY <1>6, <1>11 DEF RunInv
<1> QED BY <1>0, <1>3, <1>4, <1>12, RunMoveKeeps

LEMMA RunCreated ==
    ASSUME ConfigOK, NEW x \in Runs, NEW a \in AgentIds, NEW e \in EngineIds, CreateRun(x, a, e)
    PROVE  ConfigOK'
<1>0. /\ RunsTyped /\ RunInv /\ failures \in Nat /\ crashes \in Nat
      /\ workspace \in [AgentIds -> Revisions \cup {NoRevision}]
      /\ agents \in [AgentIds -> Defs \cup {NoAgent}]
      /\ ~overlapped => (BeingDeleted(a) => agents[a] = NoAgent)
      /\ UNCHANGED BesidesRuns /\ failures' = failures /\ workspace' = workspace
      /\ req' = req /\ overlapped' = overlapped /\ crashes' = crashes /\ agents' = agents
      /\ agents[a] # NoAgent /\ ~Running(a)
      /\ run' = [run EXCEPT ![x] = [at |-> "preparing", agent |-> a, def |-> agents[a], engine |-> e]]
  BY RunFacts DEF BesidesRuns, CreateRun, agentVars, unrequested
<1>1. PICK d \in Defs : d = agents[a] BY <1>0
<1>2. /\ DOMAIN run' = Runs /\ run' = [y \in Runs |-> run'[y]]
      /\ run'[x] = [at |-> "preparing", agent |-> a, def |-> d, engine |-> e] /\ \A y \in Runs \ {x} : run'[y] = run[y]
  BY <1>0, <1>1 DEF RunsTyped
<1>3. RunsTyped' BY <1>0, <1>2 DEF RunsTyped, RunOK, Going
<1>4. \A y \in Runs : Going(y)' => y = x \/ (Going(y) /\ run'[y] = run[y] /\ run[y].agent # a)
  BY <1>0, <1>2 DEF Going, Running
<1>5. OneRunOK'
  <2>1. \A y, z \in Runs : Going(y)' /\ Going(z)' /\ run'[y].agent = run'[z].agent => y = z
    BY <1>0, <1>2, <1>4 DEF RunInv, OneRunOK
  <2>2. ASSUME ~overlapped', NEW q \in Requests, NEW y \in Runs, OnAgent(q)', req'[q].kind = "delete", Going(y)'
        PROVE  run'[y].agent # req'[q].on
    <3>1. OnAgent(q) /\ req[q].kind = "delete" BY <1>0, <2>2 DEF OnAgent, Handled
    <3>2. CASE y = x BY <1>0, <1>2, <2>2, <3>1, <3>2 DEF BeingDeleted
    <3>3. CASE y # x BY <1>0, <1>4, <2>2, <3>1, <3>3 DEF RunInv, OneRunOK
    <3> QED BY <3>2, <3>3
  <2> QED BY <2>1, <2>2 DEF OneRunOK
<1>6. ~overlapped' => RunMatches'
  <2> SUFFICES ASSUME ~overlapped', NEW y \in Runs, run'[y].at \in {"fetching", "active"}
               PROVE  \/ workspace'[run'[y].agent] = run'[y].def.rev
                      \/ run'[y].def.rev = NoRevision /\ (run'[y].def.by = "cleared" \/ crashes' + failures' > 0)
    BY DEF RunMatches
  <2>1. y # x /\ run'[y] = run[y] BY <1>2
  <2>2. workspace[run[y].agent] = run[y].def.rev \/ (run[y].def.rev = NoRevision /\ (run[y].def.by = "cleared" \/ crashes + failures > 0))
    BY <1>0, <2>1 DEF RunInv, WorkspacesOK, RunMatches
  <2> QED BY <1>0, <2>1, <2>2
<1>7. ASSUME ~overlapped', crashes' + failures' = 0
      PROVE  /\ \A b \in AgentIds : workspace'[b] # NoRevision => Named(b)' \/ BeingDeleted(b)'
             /\ \A y \in Runs : Going(y)' =>
                   /\ agents'[run'[y].agent] # NoAgent
                   /\ run'[y].def.rev # NoRevision => Named(run[y].agent)'
                   /\ ~Used(run'[y].def) /\ run'[y].at = "preparing" =>
                         workspace'[run'[y].agent] = NoRevision
  <2>1. /\ \A b \in AgentIds : workspace[b] # NoRevision => Named(b) \/ BeingDeleted(b)
        /\ \A y \in Runs : Going(y) =>
              /\ agents[run[y].agent] # NoAgent
              /\ run[y].def.rev # NoRevision => Named(run[y].agent)
              /\ ~Used(run[y].def) /\ run[y].at = "preparing" =>
                    workspace[run[y].agent] = NoRevision
    BY <1>0, <1>7 DEF RunInv, WorkspacesOK
  <2>2. \A b : (Named(b)' <=> Named(b)) /\ (BeingDeleted(b)' <=> BeingDeleted(b))
    BY <1>0 DEF Named, BeingDeleted, OnAgent, Handled
  <2>3. workspace[a] # NoRevision => Named(a) BY <1>0, <1>7, <2>1
  <2>4. ASSUME NEW y \in Runs, Going(y)'
        PROVE  /\ agents'[run'[y].agent] # NoAgent
               /\ run'[y].def.rev # NoRevision => Named(run[y].agent)'
               /\ ~Used(run'[y].def) /\ run'[y].at = "preparing" =>
                     workspace'[run'[y].agent] = NoRevision
    <3>1. CASE y = x BY <1>0, <1>1, <1>2, <2>3, <3>1 DEF Named, Used
    <3>2. CASE y # x BY <1>0, <1>4, <2>1, <2>2, <2>4, <3>2 DEF Named
    <3> QED BY <3>1, <3>2
  <2> QED BY <1>0, <2>1, <2>2, <2>4
<1>8. WorkspacesOK' BY <1>6, <1>7 DEF WorkspacesOK, Named
<1>9. RunInv' BY <1>5, <1>8 DEF RunInv
<1> QED BY <1>0, <1>3, <1>9, RunMoveKeeps

RunStep(x) ==
    \/ Prepared(x) \/ PrepareBreaks(x) \/ InputsTaken(x) \/ InputsBreak(x) \/ RunEnds(x)
    \/ \E a \in AgentIds, e \in EngineIds : CreateRun(x, a, e)

LEMMA RunStepKeeps ==
    ASSUME ConfigOK, NEW x \in Runs, RunStep(x)
    PROVE  ConfigOK'
<1>0. failures \in Nat /\ (failures' = failures => failures' \in Nat /\ failures <= failures') BY RunFacts
<1>1. CASE Prepared(x)
  <2>1. /\ UNCHANGED BesidesRuns /\ failures' = failures /\ run[x].at = "preparing"
    BY <1>1 DEF Prepared, BesidesRuns, unrequested
  <2>2. CASE run[x].def.rev \in compiled[run[x].agent] \cup {NoRevision}
    <3>1. /\ run' = [run EXCEPT ![x].at = "fetching"]
          /\ workspace' = [workspace EXCEPT ![run[x].agent] = IF run[x].def.rev = NoRevision THEN @ ELSE run[x].def.rev]
      BY <1>1, <2>2, Zenon DEF Prepared
    <3> QED BY <2>1, <3>1, RunAdvances
  <2>3. CASE run[x].def.rev \notin compiled[run[x].agent] \cup {NoRevision}
    <3>1. run' = [run EXCEPT ![x] = [at |-> "ended"]] /\ workspace' = workspace
      BY <1>1, <2>3 DEF Prepared
    <3> QED BY <1>0, <2>1, <3>1, RunEnded
  <2> QED BY <2>2, <2>3
<1>2. CASE PrepareBreaks(x)
  <2>1. UNCHANGED BesidesRuns /\ failures' = failures + 1 BY <1>2 DEF PrepareBreaks, BesidesRuns
  <2>2. failures' \in Nat /\ failures <= failures' /\ failures' > 0 BY <1>0, <2>1
  <2> QED BY <1>2, <2>1, <2>2, RunEnded DEF PrepareBreaks
<1>3. CASE InputsTaken(x)
  <2>1. UNCHANGED BesidesRuns /\ failures' = failures /\ workspace' = workspace
    BY <1>3 DEF InputsTaken, BesidesRuns, unrequested, agentVars
  <2> QED BY <1>3, <2>1, RunAdvances DEF InputsTaken
<1>4. CASE InputsBreak(x) \/ RunEnds(x)
  <2>1. UNCHANGED BesidesRuns /\ failures' = failures /\ workspace' = workspace
        /\ run' = [run EXCEPT ![x] = [at |-> "ended"]] /\ run[x].at \in {"fetching", "active"}
    BY <1>4 DEF InputsBreak, RunEnds, BesidesRuns, unrequested, agentVars
  <2> QED BY <1>0, <2>1, RunEnded
<1>5. CASE \E a \in AgentIds, e \in EngineIds : CreateRun(x, a, e) BY <1>5, RunCreated
<1> QED BY <1>1, <1>2, <1>3, <1>4, <1>5 DEF RunStep

-----------------------------------------------------------------------------
(* Every step keeps the invariant: the process ends, and starts *)

LEMMA CrashKeeps ==
    ASSUME ConfigOK, Crash
    PROVE  ConfigOK'
<1>0. /\ up' = FALSE /\ crashes' = crashes + 1 /\ crashes \in Nat /\ crashes' \in Nat /\ crashes' > 0 /\ crashes' # 0
      /\ req' = req /\ failures' = failures /\ overlapped' = overlapped /\ run' = run
      /\ engines' = engines /\ engineFile' = engineFile /\ agents' = agents /\ agentFile' = agentFile /\ told' = told
      /\ settings' = settings /\ settingsFile' = settingsFile /\ toldSettings' = toldSettings
      /\ RequestsTyped /\ failures \in Nat /\ AgentInv /\ AloneOK /\ partial' = partial \cup Torn
  BY DEF Crash, PartLeft, EnginesCrash, AgentsCrash, unrequested, settingsVars, ConfigOK, TypesOK, CountersTyped
<1>1. TypesOK'
  <2>1. RequestsTyped' BY <1>0 DEF RequestsTyped
  <2>2. RunsTyped' BY <1>0 DEF ConfigOK, TypesOK, RunsTyped, RunOK, Going
  <2>3. CountersTyped' BY <1>0 DEF ConfigOK, TypesOK, CountersTyped
  <2>4. EnginesTyped' BY <1>0 DEF ConfigOK, TypesOK, EnginesTyped, Crash, EnginesCrash
  <2>5. AgentsTyped' BY <1>0 DEF ConfigOK, TypesOK, AgentsTyped, Crash, AgentsCrash, PartLeft, Torn
  <2>6. SettingsTyped' BY <1>0 DEF ConfigOK, TypesOK, SettingsTyped
  <2> QED BY <2>1, <2>2, <2>3, <2>4, <2>5, <2>6 DEF TypesOK
<1>2. AloneOK' BY <1>0 DEF AloneOK, Handled
<1>3. \A q : (OnEngine(q)' <=> OnEngine(q)) /\ (OnAgent(q)' <=> OnAgent(q)) /\ (OnSettings(q)' <=> OnSettings(q))
  BY <1>0 DEF OnEngine, OnAgent, OnSettings, Handled
<1>4. EngineInv'
  <2>1. ExclusiveOK' BY <1>0, <1>3 DEF ConfigOK, EngineInv, ExclusiveOK
  <2>2. BusyOK' /\ OpenedOK' /\ PlacedOK' BY <1>0 DEF BusyOK, OpenedOK, PlacedOK
  <2>3. SavedOK' BY <1>0, <1>3 DEF ConfigOK, EngineInv, SavedOK
  <2> QED BY <2>1, <2>2, <2>3 DEF EngineInv
\* A directory that is torn belongs to an Agent that was deleted.
<1>5. ASSUME ~overlapped, NEW a \in AgentIds, a \in Torn
      PROVE  \E q \in Requests : OnAgent(q) /\ req[q].kind = "delete" /\ req[q].on = a /\ req[q].at = "clearing"
  <2>1. PICK q \in On(a) : req[q].at = "clearing" BY <1>5 DEF Torn
  <2>2. q \in Requests /\ Handled(q) /\ req[q].on = a BY <2>1 DEF On, InFlight
  <2>3. req[q].kind = "delete" BY <1>0, <2>1, <2>2, HandledFacts, PlaceFacts
  <2> QED BY <2>1, <2>2, <2>3 DEF OnAgent, AgentKinds
<1>6. \A a \in AgentIds : a \notin Torn =>
         store'[a] = store[a] /\ compiled'[a] = compiled[a] /\ workspace'[a] = workspace[a]
  BY DEF Crash, AgentsCrash, PartLeft
<1>7. AgentInv'
  <2>1. ASSUME ~overlapped, NEW a \in AgentIds PROVE Exists(a, agents[a])' /\ Exists(a, agentFile[a])'
    <3>1. CASE a \notin Torn BY <1>0, <1>6, <2>1, <3>1 DEF AgentInv, ExistsOK, Exists
    <3>2. CASE a \in Torn
      <4>1. agents[a] = NoAgent /\ agentFile[a] = NoAgent
        BY <1>0, <1>5, <2>1, <3>2 DEF AgentInv, ExistsOK, ExistOK
      <4> QED BY <1>0, <4>1 DEF Exists, FromActivation
    <3> QED BY <3>1, <3>2
  <2>2. ASSUME ~overlapped, NEW q \in Requests, OnAgent(q) PROVE ExistOK(q)'
    <3>1. ExistOK(q) /\ req[q].on \in AgentIds /\ Handled(q)
      BY <1>0, <2>2, HandledFacts, PlaceFacts DEF AgentInv, ExistsOK, OnAgent, AgentRequestOK
    <3>2. req[q].at \in {"registering", "marking", "undoing"} => req[q].on \notin Torn
      BY <1>0, <1>5, <2>2, <3>1 DEF AloneOK, OnAgent
    <3> QED BY <1>0, <1>6, <3>1, <3>2 DEF ExistOK, Exists
  <2>3. ExistsOK' BY <1>0, <1>3, <2>1, <2>2 DEF ExistsOK
  <2>4. CompiledOK' /\ MarksOK' BY <1>0, <1>6 DEF AgentInv, CompiledOK, MarksOK
  <2>5. AnswersOK' BY <1>0, <1>3 DEF AgentInv, AnswersOK, AnswerOK, Orderly, NoneOn
  <2> QED BY <2>3, <2>4, <2>5 DEF AgentInv
<1>8. SettingsOK' BY <1>0, <1>3 DEF ConfigOK, SettingsOK, Orderly
<1>9. RunInv'
  <2>1. OneRunOK' BY <1>0, <1>3 DEF ConfigOK, RunInv, OneRunOK, Going
  <2>2. ASSUME ~overlapped, NEW x \in Runs, run[x].at \in {"fetching", "active"}
        PROVE  workspace'[run[x].agent] = workspace[run[x].agent]
    <3>1. Going(x) /\ run[x].agent \in AgentIds BY <2>2, RunFacts
    <3>2. run[x].agent \notin Torn BY <1>5, <2>2, <3>1 DEF ConfigOK, RunInv, OneRunOK
    <3> QED BY <1>6, <3>1, <3>2
  <2>3. ~overlapped' => RunMatches'
    <3> SUFFICES ASSUME ~overlapped', NEW x \in Runs, run'[x].at \in {"fetching", "active"}
                 PROVE  \/ workspace'[run'[x].agent] = run'[x].def.rev
                        \/ run'[x].def.rev = NoRevision /\ (run'[x].def.by = "cleared" \/ crashes' + failures' > 0)
      BY DEF RunMatches
    <3>1. workspace[run[x].agent] = run[x].def.rev \/ run[x].def.rev = NoRevision
      BY <1>0 DEF ConfigOK, RunInv, WorkspacesOK, RunMatches
    <3>2. crashes' + failures' > 0
      <4>1. \A i, j \in Nat : i > 0 => i + j > 0 OBVIOUS
      <4> QED BY <1>0, <4>1
    <3> QED BY <1>0, <2>2, <3>1, <3>2
  <2>4. crashes' + failures' # 0
    <3>1. \A i, j \in Nat : i > 0 => i + j # 0 OBVIOUS
    <3> QED BY <1>0, <3>1
  <2> QED BY <2>1, <2>3, <2>4 DEF RunInv, WorkspacesOK
<1> QED BY <1>1, <1>2, <1>4, <1>7, <1>8, <1>9 DEF ConfigOK

LEMMA LoadedOK ==
    ASSUME EnginesTyped
    PROVE  /\ EnginesOK(Loaded(disk))
           /\ \A e \in EngineIds :
                 /\ Loaded(disk)[e].status \notin Busy
                 /\ Loaded(disk)[e].on = engineFile[e].on /\ Loaded(disk)[e].version = engineFile[e].version
                 /\ Loaded(disk)[e].status = "installed" => Loaded(disk)[e].version \in disk[e]
<1>1. \A s : EngineOK(s) => /\ EngineOK(Normalized(s)) /\ Normalized(s).status \notin Busy
                            /\ Normalized(s).on = s.on /\ Normalized(s).version = s.version
  BY DEF Normalized, EngineOK, EngineStates, Busy
<1>2. \A s : EngineOK(s) => LET f == [s EXCEPT !.status = "failed"]
                            IN  EngineOK(f) /\ f.status = "failed" /\ f.on = s.on /\ f.version = s.version
  BY DEF EngineOK, EngineStates
<1>3. \A d \in EngineIds :
         LET s == Loaded(disk)[d]
         IN  /\ EngineOK(s) /\ s.status \notin Busy /\ s.on = engineFile[d].on /\ s.version = engineFile[d].version
             /\ s.status = "installed" => s.version \in disk[d]
  <2> SUFFICES ASSUME NEW d \in EngineIds
               PROVE  LET s == Loaded(disk)[d]
                      IN  /\ EngineOK(s) /\ s.status \notin Busy
                          /\ s.on = engineFile[d].on /\ s.version = engineFile[d].version
                          /\ s.status = "installed" => s.version \in disk[d]
    OBVIOUS
  <2>1. PICK n : n = Normalized(engineFile[d]) BY Zenon
  <2>2. EngineOK(engineFile[d]) BY DEF EnginesTyped, EnginesOK
  <2>3. EngineOK(n) /\ n.status \notin Busy /\ n.on = engineFile[d].on /\ n.version = engineFile[d].version
    BY <1>1, <2>1, <2>2
  <2>4. Loaded(disk)[d] = IF n.version \notin disk[d] \cup {NoVersion} THEN [n EXCEPT !.status = "failed"] ELSE n
    BY <2>1 DEF Loaded
  <2>5. CASE n.version \notin disk[d] \cup {NoVersion} BY <1>2, <2>3, <2>4, <2>5 DEF Busy
  <2>6. CASE n.version \in disk[d] \cup {NoVersion} BY <2>3, <2>4, <2>6 DEF EngineOK
  <2> QED BY <2>5, <2>6
<1>4. Loaded(disk) \in [EngineIds -> EngineStates]
  <2>1. \A d \in EngineIds : Loaded(disk)[d] \in EngineStates BY <1>3 DEF EngineOK
  <2>2. Loaded(disk) = [d \in EngineIds |-> Loaded(disk)[d]] BY DEF Loaded
  <2> QED BY <2>1, <2>2
<1> QED BY <1>3, <1>4 DEF EnginesOK

LEMMA RestartKeeps ==
    ASSUME ConfigOK, Restart
    PROVE  ConfigOK'
<1>0. /\ ~up /\ up' = TRUE /\ crashes' = crashes /\ crashes \in Nat /\ crashes > 0 /\ crashes # 0
      /\ failures' = failures /\ failures \in Nat /\ overlapped' = overlapped
      /\ engines' = Loaded(disk) /\ engineFile' = Loaded(disk) /\ disk' = disk
      /\ agents' = agentFile /\ agentFile' = agentFile /\ store' = store /\ compiled' = compiled
      /\ active' = active /\ workspace' = workspace /\ partial' = partial
      /\ told' = [a \in AgentIds |-> IF On(a) # {} THEN agentFile[a] ELSE told[a]]
      /\ settings' = settingsFile /\ settingsFile' = settingsFile
      /\ toldSettings' = IF On(Node) # {} THEN settingsFile ELSE toldSettings
      /\ req' = [q \in Requests |-> IF Handled(q) THEN [at |-> "done"] ELSE req[q]]
      /\ run' = [x \in Runs |-> IF run[x].at = "none" THEN NoRun ELSE [at |-> "ended"]]
  BY DEF Restart, EnginesRestart, AgentsRestart, ConfigOK, TypesOK, CountersTyped
<1>1. \A q \in Requests : IsOver(req'[q]) /\ ~Handled(q)'
  <2>1. \A q \in Requests : ~Handled(q) => IsOver(req[q]) BY HandledFacts DEF ConfigOK, TypesOK
  <2> QED BY <1>0, <2>1 DEF IsOver, Handled
<1>2. \A x \in Runs : (run'[x] = NoRun \/ run'[x] = [at |-> "ended"]) /\ ~Going(x)'
  BY <1>0 DEF Going, NoRun
<1>3. TypesOK'
  <2>1. RequestsTyped' BY <1>0, <1>1 DEF RequestsTyped
  <2>2. RunsTyped' BY <1>0, <1>2 DEF RunsTyped, RunOK
  <2>3. CountersTyped' BY <1>0 DEF ConfigOK, TypesOK, CountersTyped
  <2>4. EnginesTyped'
    <3>1. EnginesTyped /\ disk \in [EngineIds -> SUBSET Versions] BY DEF ConfigOK, TypesOK, EnginesTyped
    <3> QED BY <1>0, <3>1, LoadedOK DEF EnginesTyped
  <2>5. AgentsTyped' BY <1>0 DEF ConfigOK, TypesOK, AgentsTyped
  <2>6. SettingsTyped' BY <1>0 DEF ConfigOK, TypesOK, SettingsTyped
  <2> QED BY <2>1, <2>2, <2>3, <2>4, <2>5, <2>6 DEF TypesOK
<1>4. AloneOK' BY <1>1 DEF AloneOK
<1>5. EngineInv'
  <2>1. \A q \in Requests : ~OnEngine(q)' BY <1>1 DEF OnEngine
  <2>2. ExclusiveOK' /\ OpenedOK' /\ PlacedOK' BY <2>1 DEF ExclusiveOK, OpenedOK, PlacedOK
  <2>3. \A e \in EngineIds : engines'[e].status \notin Busy BY <1>0, LoadedOK DEF ConfigOK, TypesOK
  <2>4. BusyOK' BY <2>1, <2>3 DEF BusyOK, InterruptedIsMarked, Busy
  <2>5. SavedOK' BY <1>0, <2>1 DEF SavedOK
  <2> QED BY <2>2, <2>4, <2>5 DEF EngineInv
<1>6. AgentInv'
  <2>1. \A q \in Requests : ~OnAgent(q)' BY <1>1 DEF OnAgent
  <2>2. ExistsOK' BY <1>0, <2>1 DEF ConfigOK, AgentInv, ExistsOK, Exists
  <2>3. CompiledOK' /\ MarksOK' BY <1>0 DEF ConfigOK, AgentInv, CompiledOK, MarksOK
  <2>4. AnswersOK'
    <3> SUFFICES ASSUME Orderly', NEW a \in AgentIds PROVE agents'[a] = told'[a] /\ agentFile'[a] = told'[a]
      BY <2>1 DEF AnswersOK
    <3>1. CASE On(a) # {} BY <1>0, <3>1
    <3>2. CASE On(a) = {}
      <4>1. NoneOn(a) BY <3>2 DEF NoneOn, On, InFlight, OnAgent
      <4>2. agentFile[a] = told[a] BY <1>0, <4>1 DEF ConfigOK, AgentInv, AnswersOK, Orderly
      <4> QED BY <1>0, <3>2, <4>2
    <3> QED BY <3>1, <3>2
  <2> QED BY <2>2, <2>3, <2>4 DEF AgentInv
<1>7. SettingsOK'
  <2>1. \A q \in Requests : ~OnSettings(q)' BY <1>1 DEF OnSettings
  <2> QED BY <1>0, <2>1 DEF ConfigOK, SettingsOK, Orderly
<1>8. RunInv'
  <2>1. OneRunOK' BY <1>2 DEF OneRunOK
  <2>2. RunMatches' BY <1>2 DEF RunMatches, Going
  <2>3. crashes' + failures' # 0
    <3>1. \A i, j \in Nat : i > 0 => i + j # 0 OBVIOUS
    <3> QED BY <1>0, <3>1
  <2> QED BY <2>1, <2>2, <2>3 DEF RunInv, WorkspacesOK
<1> QED BY <1>3, <1>4, <1>5, <1>6, <1>7, <1>8 DEF ConfigOK

-----------------------------------------------------------------------------
(* The invariant *)

LEMMA ConfigInit ==
    ASSUME Init
    PROVE  ConfigOK
<1>1. PICK there \in {{}} \cup {{e} : e \in EngineIds}, v \in Versions :
         /\ disk = [e \in EngineIds |-> IF e \in there THEN {v} ELSE {}]
         /\ engines = [e \in EngineIds |-> IF e \in there THEN Installed(v, {}) ELSE Absent]
  BY Zenon DEF Init
<1>a. PICK known \in SUBSET AgentIds : \E r \in Revisions \cup {NoRevision} :
         /\ agents = [a \in AgentIds |->
                IF a \in known
                THEN Definition(TRUE, r, IF r = NoRevision THEN "body" ELSE "activation") ELSE NoAgent]
         /\ active = [a \in AgentIds |-> IF a \in known THEN r ELSE NoRevision]
  BY Zenon DEF Init
<1>2. PICK r \in Revisions \cup {NoRevision} :
         /\ agents = [a \in AgentIds |->
                IF a \in known
                THEN Definition(TRUE, r, IF r = NoRevision THEN "body" ELSE "activation") ELSE NoAgent]
         /\ active = [a \in AgentIds |-> IF a \in known THEN r ELSE NoRevision]
  BY <1>a, Zenon
<1>3. /\ req = [q \in Requests |-> NoRequest] /\ run = [x \in Runs |-> NoRun]
      /\ up = TRUE /\ crashes = 0 /\ failures = 0 /\ overlapped = FALSE /\ engineFile = engines
      /\ store = [a \in AgentIds |-> {active[a]} \ {NoRevision}] /\ compiled = store
      /\ partial = {} /\ agentFile = agents /\ told = agents
      /\ settings = {} /\ settingsFile = {} /\ toldSettings = {}
  BY DEF Init
<1>b. PICK ran \in SUBSET AgentIds : workspace = [a \in AgentIds |-> IF a \in ran THEN active[a] ELSE NoRevision]
  BY Zenon DEF Init
<1>c. PICK by : by = IF r = NoRevision THEN "body" ELSE "activation" BY Zenon
<1>d. PICK def : def = Definition(TRUE, r, by) BY Zenon
<1>e. def \in AgentStates /\ def # NoAgent /\ def.rev = r /\ def.by = by BY <1>c, <1>d, DefinitionOK DEF Origins
<1>f. agents = [a \in AgentIds |-> IF a \in known THEN def ELSE NoAgent] BY <1>2, <1>c, <1>d
<1>4. \A q \in Requests : ~Handled(q) /\ IsOver(req[q]) BY <1>3 DEF Handled, NoRequest, IsOver
<1>5. \A x \in Runs : ~Going(x) /\ run[x] = NoRun BY <1>3 DEF Going, NoRun
<1>6. \A e \in EngineIds : EngineOK(engines[e]) /\ engines[e].status \notin Busy
  <2>1. EngineOK(Installed(v, {})) /\ Installed(v, {}).status \notin Busy
    BY DEF Installed, EngineOK, EngineStates, Busy
  <2>2. EngineOK(Absent) /\ Absent.status \notin Busy BY DEF Absent, EngineOK, EngineStates, Busy
  <2>3. \A e \in EngineIds : engines[e] = Installed(v, {}) \/ engines[e] = Absent BY <1>1
  <2> QED BY <2>1, <2>2, <2>3
<1>7. EnginesTyped
  <2>1. engines \in [EngineIds -> EngineStates]
    <3>1. DOMAIN engines = EngineIds /\ engines = [e \in EngineIds |-> engines[e]] BY <1>1
    <3>2. \A e \in EngineIds : engines[e] \in EngineStates BY <1>6 DEF EngineOK
    <3> QED BY <3>1, <3>2
  <2>2. disk \in [EngineIds -> SUBSET Versions] BY <1>1
  <2> QED BY <1>3, <1>6, <2>1, <2>2 DEF EnginesTyped, EnginesOK
<1>8. AgentsTyped
  <2>1. agents \in [AgentIds -> AgentStates] BY <1>e, <1>f DEF AgentStates
  <2>2. active \in [AgentIds -> Revisions \cup {NoRevision}] BY <1>2
  <2>3. store \in [AgentIds -> SUBSET Revisions] BY <1>3, <2>2
  <2>4. workspace \in [AgentIds -> Revisions \cup {NoRevision}] BY <1>b, <2>2
  <2> QED BY <1>3, <2>1, <2>2, <2>3, <2>4 DEF AgentsTyped
<1>9. TypesOK
  <2>1. RequestsTyped BY <1>3, <1>4 DEF RequestsTyped
  <2>2. RunsTyped BY <1>3, <1>5 DEF RunsTyped, RunOK
  <2>3. CountersTyped BY <1>3 DEF CountersTyped
  <2>4. SettingsTyped BY <1>3 DEF SettingsTyped
  <2> QED BY <1>7, <1>8, <2>1, <2>2, <2>3, <2>4 DEF TypesOK
<1>10. \A a \in AgentIds : Exists(a, agents[a]) /\ Marked(a, agents[a])
  <2> SUFFICES ASSUME NEW a \in AgentIds PROVE Exists(a, agents[a]) /\ Marked(a, agents[a]) OBVIOUS
  <2>1. CASE a \in known
    <3>1. agents[a] = def /\ active[a] = r BY <1>2, <1>f, <2>1
    <3>2. FromActivation(def) => r # NoRevision BY <1>c, <1>e DEF FromActivation
    <3>3. r # NoRevision => r \in store[a] BY <1>3, <3>1
    <3> QED BY <1>e, <3>1, <3>2, <3>3 DEF Exists, Marked
  <2>2. CASE a \notin known BY <1>f, <2>2 DEF Exists, Marked, FromActivation
  <2> QED BY <2>1, <2>2
<1>11. \A q \in Requests : ~OnEngine(q) /\ ~OnAgent(q) /\ ~OnSettings(q) BY <1>4 DEF OnEngine, OnAgent, OnSettings
<1>12. EngineInv
  BY <1>3, <1>6, <1>11 DEF EngineInv, ExclusiveOK, BusyOK, InterruptedIsMarked, OpenedOK, PlacedOK, SavedOK, Busy
<1>13. AgentInv BY <1>3, <1>10, <1>11 DEF AgentInv, ExistsOK, CompiledOK, AnswersOK, MarksOK
<1>14. SettingsOK BY <1>3, <1>11 DEF SettingsOK
<1>15. RunInv
  <2>1. ASSUME NEW a \in AgentIds, workspace[a] # NoRevision PROVE Named(a)
    <3>1. a \in known /\ r # NoRevision BY <1>2, <1>b, <2>1
    <3> QED BY <1>e, <1>f, <3>1 DEF Named, Used
  <2> QED BY <1>3, <1>5, <2>1 DEF RunInv, OneRunOK, WorkspacesOK, RunMatches, Going, NoRun
<1> QED BY <1>4, <1>9, <1>12, <1>13, <1>14, <1>15 DEF ConfigOK, AloneOK

LEMMA ConfigStep ==
    ASSUME ConfigOK, [Next]_vars
    PROVE  ConfigOK'
<1>1. CASE Next
  BY <1>1, EngineRequestKeeps, AgentRequestKeeps, SettingsRequestKeeps, RunStepKeeps, CrashKeeps, RestartKeeps
  DEF Next, RunStep
<1>2. CASE UNCHANGED vars
  <2>1. /\ UNCHANGED BesidesRuns /\ failures' = failures /\ workspace' = workspace /\ run' = run
        /\ req' = req /\ overlapped' = overlapped /\ crashes' = crashes /\ agents' = agents
    BY <1>2 DEF vars, BesidesRuns, engineVars, agentVars, settingsVars
  <2>2. RunsTyped' BY <2>1, RunFacts DEF RunsTyped, RunOK, Going
  <2>3. RunInv'
    BY <2>1, RunFacts DEF RunInv, OneRunOK, WorkspacesOK, RunMatches, Going, OnAgent, Handled, Named, BeingDeleted
  <2>4. failures' \in Nat /\ failures <= failures' BY <2>1, RunFacts
  <2>5. workspace' \in [AgentIds -> Revisions \cup {NoRevision}] BY <2>1, RunFacts
  <2> QED BY <2>1, <2>2, <2>3, <2>4, <2>5, RunMoveKeeps
<1> QED BY <1>1, <1>2

\* The invariant of the configuration of a Node: what each request has done by the await at
\* which it stands, in memory, on file and on disk, and what a failure would bring back.
THEOREM ConfigIsSound == Spec => []ConfigOK
<1>1. Init => ConfigOK BY ConfigInit
<1>2. ConfigOK /\ [Next]_vars => ConfigOK' BY ConfigStep
<1> QED BY <1>1, <1>2, PTL DEF Spec

-----------------------------------------------------------------------------
(* What follows from it *)

\* Values keep their types, and the version an engine runs is one of those it lists, whatever
\* overlaps, fails or is cut short (EngineManager.normalizeState, FileAgentRegistry).
THEOREM ConfigurationTyped == Spec => []ProvisioningTypeOK
<1>1. ConfigOK => ProvisioningTypeOK
  BY DEF ConfigOK, TypesOK, EnginesTyped, EnginesOK, EngineOK, EngineStates, AgentsTyped, AgentStates,
         SettingsTyped, ProvisioningTypeOK
<1> QED BY <1>1, ConfigIsSound, PTL

\* An engine says it is being installed only while a request installs it; the next start shows
\* an installation that was cut short as failed (EngineManager.install, normalizeState).
THEOREM InstallationsEnd == Spec => []InterruptedIsMarked
<1>1. ConfigOK => InterruptedIsMarked
  BY DEF ConfigOK, EngineInv, BusyOK, InterruptedIsMarked
<1> QED BY <1>1, ConfigIsSound, PTL

\* When nothing is under way, the Agents and the settings are what the requests made of them,
\* after one failure and over the end of the process too: a request that failed left nothing, or,
\* past its commit, all it asked for (FileAgentRegistry.upsert, delete; RunManager.deleteAgent,
\* updateSettings; FileSettingsStore.update).
THEOREM AnswersAreKept == Spec => []AnswersHold
<1>1. ASSUME ConfigOK, Idle, Orderly PROVE agents = told /\ settings = toldSettings
  <2>1. \A a \in AgentIds : NoneOn(a) BY <1>1 DEF Idle, InFlight, NoneOn, OnAgent
  <2>2. \A a \in AgentIds : agents[a] = told[a] BY <1>1, <2>1 DEF ConfigOK, AgentInv, AnswersOK
  <2>3. agents = told BY <1>1, <2>2 DEF ConfigOK, TypesOK, AgentsTyped
  <2> QED BY <1>1, <2>3 DEF ConfigOK, SettingsOK
<1>2. ConfigOK => AnswersHold BY <1>1 DEF AnswersHold
<1> QED BY <1>2, ConfigIsSound, PTL

\* Activating a revision is atomic: as long as the Agent has the revision an activation gave it,
\* active.json names the same, also when an activation failed at any of its writes
\* (AgentPackageManager.activate).
THEOREM ActivationIsAtomic == Spec => []AtomicActivation
<1>1. ASSUME ConfigOK, Idle, Orderly, crashes = 0, NEW a \in AgentIds, FromActivation(agents[a])
      PROVE  agents[a].rev = active[a]
  <2>1. NoneOn(a) BY <1>1 DEF Idle, InFlight, NoneOn, OnAgent
  <2> QED BY <1>1, <2>1 DEF ConfigOK, AgentInv, MarksOK, Marked
<1>2. ConfigOK => AtomicActivation BY <1>1 DEF AtomicActivation
<1> QED BY <1>2, ConfigIsSound, PTL

\* The revision an activation gave an Agent is there to be read, at every await of every request,
\* and to be copied unless a removal left a part of the directory
\* (AgentPackageManager.deploy, RunManager.deleteAgent).
THEOREM RevisionsExist == Spec => []NamesExist
<1>1. ASSUME ConfigOK, ~overlapped, NEW a \in AgentIds, FromActivation(agents[a])
      PROVE  agents[a].rev \in store[a] /\ (a \notin partial => agents[a].rev \in compiled[a])
  BY <1>1 DEF ConfigOK, AgentInv, ExistsOK, Exists, CompiledOK
<1>2. ConfigOK => NamesExist BY <1>1 DEF NamesExist
<1> QED BY <1>2, ConfigIsSound, PTL

\* A Run works on the files of the revision it was created with, whatever is deployed, activated,
\* saved or deleted while it prepares and runs, and one without a revision on none, unless a PUT
\* took the revision from its Agent or something failed (RunManager.create,
\* WorkspaceManager.activeRunIds).
THEOREM RunsMatch == Spec => []RunMatches
<1>1. ConfigOK => RunMatches BY DEF ConfigOK, RunInv, WorkspacesOK, RunMatches
<1> QED BY <1>1, ConfigIsSound, PTL

-----------------------------------------------------------------------------
(* What no step does to an engine *)

\* What is not a request for an engine leaves the engines and their files alone.
EnginesLeft ==
    /\ engines' = engines /\ engineFile' = engineFile
    /\ \A e \in EngineIds : disk'[e] = disk[e] \/ (up /\ \E q \in On(e) : req[q].kind = "uninstall")
    /\ up' => up

\* The steps, for what they do to engines
LEMMA EngineCases ==
    ASSUME ConfigOK, [Next]_vars
    PROVE  \/ EnginesLeft
           \/ up /\ \E q \in Requests, e \in EngineIds : EngineBefore(q, e) /\ EngineStepOK(q, e)
           \/ Restart
<1>1. ASSUME NEW q \in Requests, EngineRequest(q)
      PROVE  up /\ \E e \in EngineIds : EngineBefore(q, e) /\ EngineStepOK(q, e)
  BY <1>1, EngineRequestSteps
<1>2. ASSUME NEW q \in Requests, AgentRequest(q) \/ SettingsRequest(q) PROVE EnginesLeft
  BY <1>2 DEF AgentRequest, SettingsRequest, EnginesLeft, engineVars, shared
<1>3. ASSUME NEW x \in Runs, RunStep(x) PROVE EnginesLeft
  BY <1>3 DEF RunStep, Prepared, PrepareBreaks, InputsTaken, InputsBreak, RunEnds, CreateRun, EnginesLeft, engineVars
<1>4. ASSUME Crash PROVE EnginesLeft
  BY <1>4 DEF Crash, EnginesCrash, EnginesLeft
<1>5. ASSUME UNCHANGED vars PROVE EnginesLeft BY <1>5 DEF vars, EnginesLeft, engineVars
<1> QED BY <1>1, <1>2, <1>3, <1>4, <1>5 DEF Next, RunStep

\* No step of a request, of a Run or of the process takes away the executable of an engine that
\* can be run, unless the engine is uninstalled or that version installed again
\* (EngineManager.install, persist, uninstall).
THEOREM EnginesStayUsable == Spec => KeepsUsable
<1>1. ASSUME ConfigOK, [Next]_vars, NEW e \in EngineIds, Usable(e), ~overlapped',
             ~\E q \in On(e) :
                 \/ req[q].kind = "uninstall"
                 \/ req[q].kind = "install" /\ req[q].arg \in {engines[e].version, engineFile[e].version}
      PROVE  Usable(e)'
  <2>1. CASE EnginesLeft BY <1>1, <2>1 DEF EnginesLeft, Usable
  <2>2. ASSUME up, NEW q \in Requests, NEW d \in EngineIds, EngineBefore(q, d), EngineStepOK(q, d)
        PROVE  Usable(e)'
    <3>1. Touches(q, d) /\ For(q, d) BY <2>2 DEF EngineStepOK, EngineBefore
    <3>2. Alone(q)
      <4>1. AloneOK BY <1>1 DEF ConfigOK
      <4> QED BY <1>1, <3>1, <4>1, StepsAlone DEF Touches
    <3>3. CASE d = e
      <4>1. Handled(q) => q \in On(e) BY <3>1, <3>3 DEF On, InFlight, For
      <4> QED BY <1>1, <3>1, <3>2, <3>3, <4>1 DEF Touches
    <3>4. CASE d # e
      <4>1. engines'[e] = engines[e] /\ disk'[e] = disk[e]
            /\ engineFile'[e] \in {engineFile[e], engines[e]}
        BY <3>1, <3>2, <3>4 DEF Touches
      <4> QED BY <1>1, <4>1 DEF Usable
    <3> QED BY <3>3, <3>4
  <2>3. CASE Restart
    <3>1. EnginesTyped BY <1>1 DEF ConfigOK, TypesOK
    <3>2. Loaded(disk)[e].version = engineFile[e].version BY <3>1, LoadedOK
    <3> QED BY <1>1, <2>3, <3>2 DEF Restart, EnginesRestart, Usable
  <2> QED BY <1>1, <2>1, <2>2, <2>3, EngineCases
<1>2. ConfigOK /\ [Next]_vars =>
         [\A e \in EngineIds :
             /\ Usable(e) /\ ~overlapped'
             /\ ~\E q \in On(e) :
                   \/ req[q].kind = "uninstall"
                   \/ req[q].kind = "install" /\ req[q].arg \in {engines[e].version, engineFile[e].version}
             => Usable(e)']_vars
  BY <1>1
<1> QED BY <1>2, ConfigIsSound, PTL DEF Spec, KeepsUsable

\* What an operation or a start says is installed can be run; only enabling an engine says so
\* without looking (EngineManager.install, activate, setEnabled, init).
THEOREM StatusIsHonest == Spec => HonestStatus
<1>1. ASSUME ConfigOK, [Next]_vars, NEW e \in EngineIds,
             engines'[e] # engines[e] \/ (~up /\ up'), engines'[e].status = "installed",
             ~\E q \in On(e)' : req'[q].kind = "enable"
      PROVE  Runnable(e)'
  <2>1. CASE EnginesLeft BY <1>1, <2>1 DEF EnginesLeft
  <2>2. ASSUME up, NEW q \in Requests, NEW d \in EngineIds, EngineBefore(q, d), EngineStepOK(q, d)
        PROVE  Runnable(e)'
    <3>1. Touches(q, d) BY <2>2 DEF EngineStepOK
    <3>2. d = e BY <1>1, <2>2, <3>1 DEF Touches
    <3>3. Handled(q)' => q \in On(e)' BY <3>1, <3>2 DEF Touches, For, On, InFlight
    <3> QED BY <1>1, <2>2, <3>1, <3>2, <3>3 DEF Touches, Runnable
  <2>3. CASE Restart
    <3>1. EnginesTyped BY <1>1 DEF ConfigOK, TypesOK
    <3> QED BY <1>1, <2>3, <3>1, LoadedOK DEF Restart, EnginesRestart, Runnable
  <2> QED BY <1>1, <2>1, <2>2, <2>3, EngineCases
<1>2. ConfigOK /\ [Next]_vars =>
         [\A e \in EngineIds :
             /\ engines'[e] # engines[e] \/ (~up /\ up')
             /\ engines'[e].status = "installed"
             /\ ~\E q \in On(e)' : req'[q].kind = "enable"
             => Runnable(e)']_vars
  BY <1>1
<1> QED BY <1>2, ConfigIsSound, PTL DEF Spec, HonestStatus

\* What an operation made of an engine stays until the next one, over a start of the process too
\* (EngineManager.update, persist, init).
THEOREM EnginesAreKept == Spec => EnginesPersist
<1>1. ASSUME ConfigOK, [Next]_vars, NEW e \in EngineIds, On(e) = {}, On(e)' = {}, ~overlapped', failures = 0
      PROVE  engines'[e].on = engines[e].on /\ engines'[e].version = engines[e].version
  <2>1. CASE EnginesLeft BY <1>1, <2>1 DEF EnginesLeft
  <2>2. ASSUME up, NEW q \in Requests, NEW d \in EngineIds, EngineBefore(q, d), EngineStepOK(q, d)
        PROVE  engines'[e].on = engines[e].on /\ engines'[e].version = engines[e].version
    <3>1. Touches(q, d) BY <2>2 DEF EngineStepOK
    <3>2. q \in On(d) \/ q \in On(d)' BY <3>1 DEF Touches, For, On, InFlight
    <3>3. d # e BY <1>1, <3>2
    <3> QED BY <2>2, <3>1, <3>3 DEF Touches
  <2>3. CASE Restart
    <3>1. EnginesTyped /\ ~overlapped /\ SavedOK
      BY <1>1, <2>3 DEF ConfigOK, TypesOK, EngineInv, Restart
    <3>2. engineFile[e] = engines[e] BY <1>1, <3>1 DEF SavedOK, On, InFlight, OnEngine
    <3> QED BY <1>1, <2>3, <3>1, <3>2, LoadedOK DEF Restart, EnginesRestart
  <2> QED BY <1>1, <2>1, <2>2, <2>3, EngineCases
<1>2. ConfigOK /\ [Next]_vars =>
         [\A e \in EngineIds :
             On(e) = {} /\ On(e)' = {} /\ ~overlapped' /\ failures = 0
             => engines'[e].on = engines[e].on /\ engines'[e].version = engines[e].version]_vars
  BY <1>1
<1> QED BY <1>2, ConfigIsSound, PTL DEF Spec, EnginesPersist
=============================================================================
