---------------------------- MODULE UpdateState -----------------------------
(***************************************************************************)
(* Updates in the page (updateState.svelte.ts): the check at startup and   *)
(* by hand, the download and the install, and the setting that turns the   *)
(* check at startup off, which is loaded and saved by commands on other    *)
(* threads.                                                                *)
(***************************************************************************)
EXTENDS Naturals, FiniteSets

CONSTANT Releases      \* versions the release server may offer

VARIABLES
  phaseKind, version,    \* phase
  pending,
  network,               \* operations of the updater that are running
  timer,                 \* the startup timer
  checkAtStartup, storedPreference,
  loadedPreference,      \* how far loading the preference is
  preferenceSaves,       \* saves of the preference on their way
  overlapped,            \* a save ran beside another one or beside the load
  startupChecked,        \* the startup check has run, and the preference then
  acts                   \* how often the user may still act

updateVars == <<phaseKind, version, pending, network, timer, checkAtStartup, storedPreference,
                loadedPreference, preferenceSaves, overlapped, startupChecked, acts>>

NoVersion == 0

UpdateInit(turns) ==
  /\ phaseKind = "idle" /\ version = NoVersion /\ pending = NoVersion
  /\ network = {}
  /\ timer = IF turns = 0 THEN "fired" ELSE "armed"
  /\ checkAtStartup = TRUE /\ storedPreference \in IF turns = 0 THEN {TRUE} ELSE BOOLEAN
  /\ loadedPreference = IF turns = 0 THEN "loaded" ELSE "asked"
  /\ preferenceSaves = {} /\ overlapped = FALSE
  /\ startupChecked = "no"
  /\ acts = turns

BusyUntilInstall == phaseKind \in {"checking", "downloading"}   \* mutant: the handover ends it
busy == phaseKind \in {"checking", "downloading", "installing"}

Phase(kind, v) == phaseKind' = kind /\ version' = v
Act == acts > 0 /\ acts' = acts - 1
PreferenceStays == UNCHANGED <<checkAtStartup, storedPreference, loadedPreference,
                               preferenceSaves, overlapped>>

---------------------------------------------------------------------------
(* Checks.                                                                 *)

check(origin) ==
  IF busy THEN UNCHANGED <<phaseKind, version, network>>
  ELSE Phase("checking", NoVersion) /\ network' = network \cup {origin}

PreferenceWhenScheduled == TRUE   \* mutant: the preference is read when the timer is set
PreferenceNow == checkAtStartup

StartupTimer ==
  /\ timer = "armed" /\ timer' = "fired"
  /\ IF PreferenceNow
     THEN /\ check("startup")
          /\ startupChecked' = IF loadedPreference = "loaded" /\ preferenceSaves = {} /\ ~overlapped
                               THEN (IF storedPreference THEN "wanted" ELSE "unwanted") ELSE "early"
     ELSE UNCHANGED <<phaseKind, version, network, startupChecked>>
  /\ PreferenceStays /\ UNCHANGED <<pending, acts>>

CheckNow ==
  /\ Act /\ ~busy
  /\ check("manual")
  /\ PreferenceStays /\ UNCHANGED <<pending, timer, startupChecked>>

Offered(v) == pending' = v

SilentFailure(origin) ==   \* mutant: a failed startup check changes nothing
  IF origin = "startup" THEN phaseKind ELSE "error"
AfterFailure(origin) == IF origin = "startup" THEN "idle" ELSE "error"

CheckAnswered == \E origin \in network \cap {"startup", "manual"} :
  /\ network' = network \ {origin}
  /\ \/ Offered(NoVersion) /\ Phase("upToDate", NoVersion)
     \/ \E v \in Releases : Offered(v) /\ Phase("available", v)
     \/ Offered(NoVersion) /\ Phase(AfterFailure(origin), NoVersion)
  /\ PreferenceStays /\ UNCHANGED <<timer, startupChecked, acts>>

---------------------------------------------------------------------------
(* Installing: Install is offered beside an available version, and refused *)
(* where the installation cannot replace itself.  The download reports     *)
(* when it hands over to the installer.                                    *)

installAndRestart ==
  /\ Act
  /\ phaseKind = "available" /\ pending # NoVersion /\ ~busy
  /\ \/ Phase("downloading", pending) /\ network' = network \cup {"install"}
     \/ Phase("error", NoVersion) /\ UNCHANGED network
  /\ PreferenceStays /\ UNCHANGED <<pending, timer, startupChecked>>

HandedOver ==
  /\ "install" \in network /\ phaseKind = "downloading"
  /\ Phase("installing", version)
  /\ PreferenceStays /\ UNCHANGED <<pending, network, timer, startupChecked, acts>>

InstallFailed ==
  /\ "install" \in network
  /\ network' = network \ {"install"} /\ Phase("error", NoVersion)
  /\ PreferenceStays /\ UNCHANGED <<pending, timer, startupChecked, acts>>

(* The page ends with the application.                                     *)
Relaunched ==
  /\ "install" \in network
  /\ network' = {} /\ Phase("relaunched", version) /\ timer' = "fired" /\ acts' = 0
  /\ PreferenceStays /\ UNCHANGED <<pending, startupChecked>>

(* Opening the settings clears a message that is only one.                 *)
reset ==
  /\ Act
  /\ phaseKind \in {"upToDate", "error"} /\ Phase("idle", NoVersion)
  /\ PreferenceStays /\ UNCHANGED <<pending, network, timer, startupChecked>>

---------------------------------------------------------------------------
(* The setting.                                                            *)

updateRest == <<phaseKind, version, pending, network, timer, startupChecked>>

loadStartupPreference ==
  /\ \/ /\ loadedPreference = "asked"
        /\ loadedPreference' = IF storedPreference THEN "on" ELSE "off"
        /\ UNCHANGED checkAtStartup
     \/ /\ loadedPreference \in {"on", "off"}
        /\ checkAtStartup' = (loadedPreference = "on")
        /\ loadedPreference' = "loaded"
     \/ /\ loadedPreference \in {"asked", "on", "off"}
        /\ loadedPreference' = "failed" /\ UNCHANGED checkAtStartup
  /\ UNCHANGED <<updateRest, storedPreference, preferenceSaves, overlapped, acts>>

setCheckAtStartup ==
  /\ Act
  /\ checkAtStartup' = ~checkAtStartup
  /\ preferenceSaves' = preferenceSaves \cup {[enabled |-> ~checkAtStartup, nr |-> acts, state |-> "sent"]}
  /\ overlapped' = (overlapped \/ preferenceSaves # {} \/ loadedPreference \in {"asked", "on", "off"})
  /\ UNCHANGED <<updateRest, storedPreference, loadedPreference>>

Answered(save, state) ==
  preferenceSaves' = (preferenceSaves \ {save}) \cup {[save EXCEPT !.state = state]}

SaveRuns == \E save \in preferenceSaves :
  /\ save.state = "sent"
  /\ \/ storedPreference' = save.enabled /\ Answered(save, "stored")
     \/ UNCHANGED storedPreference /\ Answered(save, "failed")
  /\ UNCHANGED <<updateRest, checkAtStartup, loadedPreference, overlapped, acts>>

KeepsChoice(save) == checkAtStartup   \* mutant: a failed save is not taken back
SnapsBack(save) == IF save.state = "failed" THEN ~save.enabled ELSE checkAtStartup

SaveAnswered == \E save \in preferenceSaves :
  /\ save.state # "sent"
  /\ checkAtStartup' = SnapsBack(save)
  /\ preferenceSaves' = preferenceSaves \ {save}
  /\ UNCHANGED <<updateRest, storedPreference, loadedPreference, overlapped, acts>>

Updater == CheckAnswered \/ HandedOver \/ InstallFailed \/ Relaunched
UpdateStep == /\ phaseKind # "relaunched"
              /\ \/ StartupTimer \/ CheckNow \/ installAndRestart \/ reset \/ Updater
                 \/ loadStartupPreference \/ setCheckAtStartup \/ SaveRuns \/ SaveAnswered

---------------------------------------------------------------------------
(* At most one operation of the updater runs, and what is on offer or      *)
(* being installed is what the updater has ready: two downloads never      *)
(* race to one install path (updateState.svelte.ts:170).                   *)
OneUpdate ==
  /\ Cardinality(network) <= 1
  /\ phaseKind \in {"available", "downloading", "installing"} => version = pending

(* A user who had turned the check off is not checked for at startup once  *)
(* the setting is loaded, though the timer was set before                  *)
(* (updateState.svelte.ts:151-154).                                        *)
OptOutHeld == startupChecked # "unwanted"

(* The checkbox shows what is stored, unless saves ran beside each other   *)
(* or beside the load, or loading failed (updateState.svelte.ts:139).      *)
PreferenceShown ==
  loadedPreference = "loaded" /\ preferenceSaves = {} /\ ~overlapped =>
    checkAtStartup = storedPreference

(* The updater does one thing at a time, and only what the setting allows  *)
(* (updateState.svelte.ts:151-170).                                        *)
UpdatesOrderly == OneUpdate /\ OptOutHeld /\ PreferenceShown

(* The check button never stays disabled.                                  *)
UpdaterEnds == busy ~> ~busy
=============================================================================
