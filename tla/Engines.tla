------------------------------- MODULE Engines -------------------------------
(***************************************************************************)
(* EngineManager: the managed copies of the engines.  The state of all     *)
(* engines is one file, written as a whole by every operation; operations  *)
(* of one engine exclude each other, those of two engines do not.          *)
(***************************************************************************)
EXTENDS Requests

CONSTANTS Versions, NoVersion

ASSUME VersionAssumption == NoVersion \notin Versions

VARIABLES
    engines,       \* EngineManager.state
    engineFile,    \* state.json
    disk           \* the versions of each engine whose executable is there

engineVars == <<engines, engineFile, disk>>

Absent == [on |-> TRUE, status |-> "absent", version |-> NoVersion, versions |-> {}]

Installed(v, vs) == [on |-> TRUE, status |-> "installed", version |-> v, versions |-> vs \cup {v}]

Under(q) == req[q].on

\* update: the memory now, the file by a save that has yet to take its copy
Updates(q, state, at) ==
    /\ engines' = [engines EXCEPT ![Under(q)] = state]
    /\ req' = [req EXCEPT ![q].at = at, ![q].save = "making"]

UpdatesAtOnce(q, kind, e, arg, state, at) ==
    /\ up /\ req[q].at = "new" /\ On(e) = {}
    /\ req' = [req EXCEPT ![q] = [kind |-> kind, on |-> e, arg |-> arg, at |-> at,
                                  was |-> engines[e], save |-> "making", snap |-> <<>>]]
    /\ engines' = [engines EXCEPT ![e] = state]
    /\ overlapped' = (overlapped \/ InFlight # {})
    /\ UNCHANGED <<failures, engineFile, disk>>

Opened(was) ==
    [was EXCEPT !.on = TRUE, !.status = IF was.version = NoVersion THEN "installing" ELSE "updating"]

-----------------------------------------------------------------------------
(* install *)

Install(q, e, v) ==
    \/ /\ engines[e].version = v /\ engines[e].on
       /\ On(e) = {}
       /\ Begins(q, "install", e, v, "checking", engines[e])
       /\ UNCHANGED engineVars
    \/ /\ ~(engines[e].version = v /\ engines[e].on)
       /\ UpdatesAtOnce(q, "install", e, v, Opened(engines[e]), "opening")

\* The version is there already, or its executable is missing and it is repaired.
InstallChecked(q) ==
    /\ Steps(q, "checking") /\ req[q].kind = "install"
    /\ IF req[q].arg \in disk[Under(q)]
       THEN Ends(q) /\ UNCHANGED engines
       ELSE Updates(q, Opened(req[q].was), "opening")
    /\ UNCHANGED <<engineFile, disk>>

\* Mutant: every version is removed before the new one is put in its place.
Cleared_All(q) ==
    /\ Steps(q, "fetching")
    /\ disk' = [disk EXCEPT ![Under(q)] = {}]
    /\ req' = [req EXCEPT ![q].at = "cleared"]
    /\ UNCHANGED <<engines, engineFile>>

\* npm has filled the staging directory; the target directory is removed.
Cleared(q) ==
    /\ Steps(q, "fetching")
    /\ disk' = [disk EXCEPT ![Under(q)] = @ \ {req[q].arg}]
    /\ req' = [req EXCEPT ![q].at = "cleared"]
    /\ UNCHANGED <<engines, engineFile>>

\* Mutant: the version is not added to those the engine lists.
Placed_Unlisted(q) ==
    /\ Steps(q, "cleared")
    /\ disk' = [disk EXCEPT ![Under(q)] = @ \cup {req[q].arg}]
    /\ Updates(q, [Installed(req[q].arg, {}) EXCEPT !.versions = req[q].was.versions], "closing")
    /\ UNCHANGED engineFile

\* The staging directory becomes the target directory.
Placed(q) ==
    /\ Steps(q, "cleared")
    /\ disk' = [disk EXCEPT ![Under(q)] = @ \cup {req[q].arg}]
    /\ Updates(q, Installed(req[q].arg, req[q].was.versions), "closing")
    /\ UNCHANGED engineFile

\* The catch: back to the state before, as failed
Revert(q) == Updates(q, [req[q].was EXCEPT !.status = "failed"], "ending")

InstallFails(q) ==
    /\ Steps(q, req[q].at) /\ req[q].at \in {"fetching", "cleared"}
    /\ Revert(q)
    /\ UNCHANGED <<engineFile, disk>>

-----------------------------------------------------------------------------
(* setEnabled, activate, uninstall *)

SetEnabled(q, e, on) ==
    UpdatesAtOnce(q, "enable", e, on,
        [engines[e] EXCEPT !.on = on,
                           !.status = IF ~on THEN "disabled"
                                      ELSE IF engines[e].version = NoVersion THEN "absent"
                                      ELSE "installed"], "ending")

Activate(q, e, v) ==
    /\ On(e) = {} /\ v \in engines[e].versions
    /\ Begins(q, "activate", e, v, "checking", engines[e])
    /\ UNCHANGED engineVars

Activated(q) ==
    /\ Steps(q, "checking") /\ req[q].kind = "activate"
    /\ IF req[q].arg \in disk[Under(q)]
       THEN Updates(q, Installed(req[q].arg, engines[Under(q)].versions), "ending")
       ELSE Ends(q) /\ UNCHANGED engines
    /\ UNCHANGED <<engineFile, disk>>

\* The route asks whether a Run is active.
Uninstall(q, e) ==
    /\ On(e) = {} /\ ~EngineBusy(e)
    /\ Begins(q, "uninstall", e, NoVersion, "removing", engines[e])
    /\ UNCHANGED engineVars

Removed(q) ==
    /\ Steps(q, "removing") /\ req[q].kind = "uninstall"
    /\ disk' = [disk EXCEPT ![Under(q)] = {}]
    /\ Updates(q, Absent, "ending")
    /\ UNCHANGED engineFile

-----------------------------------------------------------------------------
(* persist: mkdir, then writeFile of what the memory holds by then, then rename *)

Saving(q, save) == up /\ Handled(q) /\ req[q].save = save

\* Mutant: the copy is taken before the operation changes the memory.
SaveTaken_Early(q) ==
    /\ Saving(q, "making")
    /\ req' = [req EXCEPT ![q].save = "written", ![q].snap = [engines EXCEPT ![Under(q)] = req[q].was]]
    /\ UNCHANGED <<engineVars, failures, overlapped>>
SaveTaken(q) ==
    /\ Saving(q, "making")
    /\ req' = [req EXCEPT ![q].save = "written", ![q].snap = engines]
    /\ UNCHANGED <<engineVars, failures, overlapped>>

SaveLands(q) ==
    /\ Saving(q, "written")
    /\ engineFile' = req[q].snap
    /\ IF req[q].at = "opening"
       THEN req' = [req EXCEPT ![q].at = "fetching", ![q].save = "none", ![q].snap = <<>>]
       ELSE Ends(q)
    /\ UNCHANGED <<engines, disk, failures, overlapped>>

\* Only the last save of an install has a catch.
SaveFails(q) ==
    /\ Saving(q, "written") /\ Breaks(q, req[q].at)
    /\ IF req[q].at = "closing" THEN Revert(q) ELSE Ends(q) /\ UNCHANGED engines
    /\ UNCHANGED <<engineFile, disk>>

-----------------------------------------------------------------------------
(* init *)

\* Mutant: an operation that was interrupted is not told from one that goes on.
Normalized_AsIs(state) == state
Normalized(state) ==
    IF state.status \in {"installing", "updating"} THEN [state EXCEPT !.status = "failed"] ELSE state

\* Mutant: the executable is not looked for.
Loaded_Unseen(left) == [e \in EngineIds |-> Normalized(engineFile[e])]
Loaded(left) ==
    [e \in EngineIds |->
        LET state == Normalized(engineFile[e])
        IN  IF state.version \notin left[e] \cup {NoVersion}
            THEN [state EXCEPT !.status = "failed"] ELSE state]

EnginesRestart ==
    /\ engines' = Loaded(disk)
    /\ engineFile' = Loaded(disk)
    /\ UNCHANGED disk

\* A process that dies while it removes a directory leaves any part of it.
EnginesCrash ==
    /\ \E left \in [EngineIds -> SUBSET Versions] :
          /\ \A e \in EngineIds :
                IF \E q \in On(e) : req[q].kind = "uninstall" /\ req[q].at = "removing"
                THEN left[e] \subseteq disk[e] ELSE left[e] = disk[e]
          /\ disk' = left
    /\ UNCHANGED <<engines, engineFile>>

EngineAsked(q, e) ==
    \/ \E v \in Versions : Install(q, e, v) \/ Activate(q, e, v)
    \/ \E on \in BOOLEAN : SetEnabled(q, e, on)
    \/ Uninstall(q, e)

EngineStep(q) ==
    \/ InstallChecked(q) \/ Cleared(q) \/ Placed(q) \/ InstallFails(q)
    \/ Activated(q) \/ Removed(q)
    \/ SaveTaken(q) \/ SaveLands(q) \/ SaveFails(q)
=============================================================================
