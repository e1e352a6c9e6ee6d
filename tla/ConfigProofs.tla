---------------------------- MODULE ConfigProofs ----------------------------
(***************************************************************************)
(* What holds of the configuration files for any number of windows and     *)
(* threads, any paths and settings, any number of crashes and failures.    *)
(*                                                                         *)
(* Contents need no type: the proofs only ask whether a file is whole.     *)
(***************************************************************************)
EXTENDS ConfigStore, ListingProofs

AppOps == {"push", "clear", "dir", "updates", "version"}
Steps == {"idle", "read", "write", "legacy", "fill", "rename", "migrate"}

(* A command is one of those that are started.                             *)
CommandShape(c) ==
  /\ c.op \in AppOps \cup {"none", "save", "load"}
  /\ c.op \in {"save", "load", "push"} => c.path \in Paths
  /\ c.op = "save" => c.config \in SavedConfigs

(* What a command that read this changes.                                  *)
Decoded(content) == IF Usable(content) THEN content.config ELSE DefaultAppConfig

Shape ==
  /\ files = [f \in Targets |-> files[f]]
  /\ temp = [t \in Threads |-> temp[t]] /\ mem = [t \in Threads |-> mem[t]]
  /\ base = [t \in Threads |-> base[t]] /\ cmd = [t \in Threads |-> cmd[t]]
  /\ pc \in [Threads -> Steps]
  /\ \A t \in Threads : CommandShape(cmd[t])
  /\ \A t \in Threads : pc[t] \notin {"idle", "read"} => cmd[t].op # "none"

(* What a thread has in its temp file at each step of a write.             *)
TempsKept == \A t \in Threads :
  /\ pc[t] = "fill" => temp[t] = Torn
  /\ pc[t] = "rename" => temp[t] = Whole(mem[t])
  /\ pc[t] \notin {"fill", "rename"} => temp[t] = Absent

(* The old key goes only while the new one holds a configuration.          *)
MigrationHolds == \A t \in Threads :
  pc[t] = "migrate" => /\ cmd[t].op = "save"
                       /\ cmd[t].path # normalize[cmd[t].path]
                       /\ Usable(files[normalize[cmd[t].path]])

(* What is about to be written of app.json is what was read, changed.      *)
ChangeOfBase == \A t \in Threads :
  pc[t] \in {"write", "fill", "rename"} /\ cmd[t].op \in AppOps
    => mem[t] = Changes(cmd[t], Decoded(base[t]))

ConfigInv == Shape /\ FilesWhole /\ TempsKept /\ MigrationHolds /\ ChangeOfBase

-----------------------------------------------------------------------------
(* Lemmas about the operators.                                             *)

(* The commands that are started have the shape.                           *)
LEMMA CommandsShaped ==
  ASSUME NEW c \in VersionCommands \cup AppCommands \cup FileCommands
  PROVE  CommandShape(c) /\ c.op # "none"
<1>1. CASE c \in VersionCommands
  BY <1>1 DEF VersionCommands, CommandShape, AppOps
<1>2. CASE c \in AppCommands
  BY <1>2 DEF AppCommands, CommandShape, AppOps
<1>3. CASE c \in FileCommands
  BY <1>3 DEF FileCommands, CommandShape, AppOps
<1> QED BY <1>1, <1>2, <1>3

(* A view configuration goes into a file of a database, a setting into     *)
(* app.json.                                                               *)
LEMMA TargetsKnown ==
  ASSUME NEW c, CommandShape(c)
  PROVE  /\ TargetOf(c) \in Targets
         /\ TargetOf(c) = App <=> c.op \notin {"save", "load"}
         /\ c.op \in {"save", "load"} => TargetOf(c) = normalize[c.path]
  BY ConfigAssumption DEF CommandShape, TargetOf, Targets

(* A command changes its own setting and keeps the others.                 *)
LEMMA ChangesKeep ==
  ASSUME NEW c, c.op \in AppOps, NEW app, NEW field \in DOMAIN app \ {SettingOf(c.op)}
  PROVE  Changes(c, app)[field] = app[field]
<1>1. CASE c.op = "push"
  <2>1. PICK recent : push_recent_file(app, c.path) = [app EXCEPT !.recent_files = recent]
    BY DEF push_recent_file
  <2> QED BY <1>1, <2>1 DEF Changes, SettingOf
<1>2. CASE c.op = "clear"
  BY <1>2 DEF Changes, SettingOf, clear_recent_files
<1>3. CASE c.op = "dir"
  BY <1>3 DEF Changes, SettingOf, set_export_dir
<1>4. CASE c.op = "updates"
  BY <1>4 DEF Changes, SettingOf, set_check_for_updates
<1>5. CASE c.op = "version"
  BY <1>5 DEF Changes, SettingOf, record_run_version
<1> QED BY <1>1, <1>2, <1>3, <1>4, <1>5 DEF AppOps

(* The invariant holds when the first window starts.                       *)
LEMMA ConfigInit == Init => ConfigInv
<1> SUFFICES ASSUME Init PROVE ConfigInv
  OBVIOUS
<1>1. PICK app \in {Whole(c) : c \in OldApps} \cup {Absent, Corrupt},
           old \in [Paths -> {Whole(c) : c \in OldConfigs} \cup {Absent}] :
        files = [f \in Targets |-> IF f = App THEN app ELSE old[f]]
  BY DEF Init
<1>2. Shape
  BY <1>1 DEF Init, Shape, Steps, CommandShape, NoCommand, AppOps
<1>3. FilesWhole
  BY <1>1 DEF FilesWhole, Targets, Whole, Absent, Corrupt, Torn
<1>4. TempsKept /\ MigrationHolds /\ ChangeOfBase
  BY DEF Init, TempsKept, MigrationHolds, ChangeOfBase
<1> QED BY <1>2, <1>3, <1>4 DEF ConfigInv

-----------------------------------------------------------------------------
(* The steps of one thread.                                                *)

(* A step of a thread that leaves the files alone and has no temp file     *)
(* before or after it.                                                     *)
LEMMA QuietStepKeeps ==
  ASSUME ConfigInv, NEW t \in Threads,
         pc[t] \notin {"fill", "rename"}, UNCHANGED <<files, temp>>,
         NEW step \in Steps, pc' = [pc EXCEPT ![t] = step],
         step \notin {"fill", "rename", "migrate"},
         NEW c, CommandShape(c), cmd' = [cmd EXCEPT ![t] = c],
         step \notin {"idle", "read"} => c.op # "none",
         NEW m, mem' = [mem EXCEPT ![t] = m], NEW b, base' = [base EXCEPT ![t] = b],
         step = "write" /\ c.op \in AppOps => m = Changes(c, Decoded(b))
  PROVE  ConfigInv'
<1> USE DEF ConfigInv, Shape
<1>1. Shape'
  OBVIOUS
<1>2. FilesWhole' /\ TempsKept'
  BY DEF FilesWhole, TempsKept
<1>3. MigrationHolds'
  BY DEF MigrationHolds
<1>4. ChangeOfBase'
  BY DEF ChangeOfBase
<1> QED BY <1>1, <1>2, <1>3, <1>4

(* A thread that has nothing to run stands still.                          *)
LEMMA NothingRuns == CommandShape(NoCommand)
  BY DEF CommandShape, NoCommand, AppOps

LEMMA StartKeeps ==
  ASSUME ConfigInv, NEW t \in Threads, Start(t)
  PROVE  ConfigInv'
<1>1. PICK c \in VersionCommands \cup AppCommands \cup FileCommands : cmd' = [cmd EXCEPT ![t] = c]
  BY DEF Start
<1>2. CommandShape(c) /\ c.op # "none"
  BY CommandsShaped
<1>3. mem' = [mem EXCEPT ![t] = mem[t]] /\ base' = [base EXCEPT ![t] = base[t]]
  BY DEF Start, ConfigInv, Shape
<1>4. /\ pc[t] = "idle" /\ pc' = [pc EXCEPT ![t] = "read"]
      /\ UNCHANGED <<files, temp>>
  BY DEF Start, Goto
<1>5. "read" \in Steps
  BY DEF Steps
<1> HIDE DEF ConfigInv
<1> QED BY <1>1, <1>2, <1>3, <1>4, <1>5, QuietStepKeeps

LEMMA ReadAppKeeps ==
  ASSUME ConfigInv, NEW t \in Threads, ReadApp(t)
  PROVE  ConfigInv'
<1>1. cmd' = [cmd EXCEPT ![t] = cmd[t]] /\ CommandShape(cmd[t])
  BY DEF ReadApp, Goes, ConfigInv, Shape
<1>2. /\ base' = [base EXCEPT ![t] = files[App]]
      /\ mem' = [mem EXCEPT ![t] = Changes(cmd[t], load_app_config)]
      /\ UNCHANGED <<files, temp>> /\ cmd[t].op # "none"
  BY DEF ReadApp
<1>3. load_app_config = Decoded(files[App])
  BY DEF load_app_config, Decoded
<1>4. pc[t] = "read" /\ pc' = [pc EXCEPT ![t] = "write"] /\ "write" \in Steps
  BY DEF ReadApp, Goto, Steps
<1> QED BY <1>1, <1>2, <1>3, <1>4, QuietStepKeeps

LEMMA StartSaveKeeps ==
  ASSUME ConfigInv, NEW t \in Threads, StartSave(t)
  PROVE  ConfigInv'
<1>1. cmd' = [cmd EXCEPT ![t] = cmd[t]] /\ CommandShape(cmd[t])
  BY DEF StartSave, Goes, ConfigInv, Shape
<1>2. /\ base' = [base EXCEPT ![t] = base[t]]
      /\ mem' = [mem EXCEPT ![t] = sanitize_file_config(cmd[t].config)]
      /\ UNCHANGED <<files, temp>> /\ cmd[t].op = "save" /\ cmd[t].op \notin AppOps
  BY DEF StartSave, ConfigInv, Shape, AppOps
<1>3. pc[t] = "read" /\ pc' = [pc EXCEPT ![t] = "write"] /\ "write" \in Steps
  BY DEF StartSave, Goto, Steps
<1> QED BY <1>1, <1>2, <1>3, QuietStepKeeps

(* A command that ends without a file to write.                            *)
LEMMA FinishKeeps ==
  ASSUME ConfigInv, NEW t \in Threads, NEW step \in {"read", "legacy"}, NEW given,
         Finish(t, step, given), UNCHANGED <<files, temp>>
  PROVE  ConfigInv'
<1>1. /\ pc[t] = step /\ pc' = [pc EXCEPT ![t] = "idle"] /\ "idle" \in Steps
      /\ cmd' = [cmd EXCEPT ![t] = NoCommand]
      /\ mem' = [mem EXCEPT ![t] = None] /\ base' = [base EXCEPT ![t] = None]
  BY DEF Finish, Goto, Steps
<1> QED BY <1>1, NothingRuns, QuietStepKeeps

LEMMA LoadKeeps ==
  ASSUME ConfigInv, NEW t \in Threads, load_config(t) \/ LoadLegacy(t)
  PROVE  ConfigInv'
<1>1. CASE LoadLegacy(t)
  BY <1>1, FinishKeeps DEF LoadLegacy, Loaded
<1>2. CASE load_config(t)
  <2>1. CASE Loaded(t, "read", files[TargetOf(cmd[t])])
    BY <1>2, <2>1, FinishKeeps DEF load_config, Loaded
  <2>2. CASE /\ Goto(t, "read", "legacy") /\ Goes
             /\ base' = [base EXCEPT ![t] = files[cmd[t].path]] /\ UNCHANGED mem
    <3>1. cmd' = [cmd EXCEPT ![t] = cmd[t]] /\ mem' = [mem EXCEPT ![t] = mem[t]]
          /\ CommandShape(cmd[t])
      BY <2>2 DEF Goes, ConfigInv, Shape
    <3>2. pc[t] = "read" /\ pc' = [pc EXCEPT ![t] = "legacy"] /\ "legacy" \in Steps
      BY <2>2 DEF Goto, Steps
    <3>3. UNCHANGED <<files, temp>> /\ cmd[t].op = "load"
      BY <1>2 DEF load_config
    <3>4. base' = [base EXCEPT ![t] = files[cmd[t].path]]
      BY <2>2
    <3>5. pc[t] \notin {"fill", "rename"} /\ cmd[t].op # "none"
      BY <3>2, <3>3
    <3> QED BY <3>1, <3>2, <3>3, <3>4, <3>5, QuietStepKeeps
  <2> QED BY <1>2, <2>1, <2>2 DEF load_config
<1> QED BY <1>1, <1>2

-----------------------------------------------------------------------------
(* The steps of a write.                                                   *)

(* Another content of a target that is no torn one, and whole where the    *)
(* old content was: the new key of a migration stays.                      *)
LEMMA WholeFilesKeep ==
  ASSUME ConfigInv, files' = [f \in Targets |-> files'[f]],
         \A f \in Targets : files'[f] # Torn,
         \A u \in Threads : pc'[u] = "migrate" =>
           /\ cmd'[u].op = "save" /\ cmd'[u].path # normalize[cmd'[u].path]
           /\ Usable(files'[normalize[cmd'[u].path]]),
         NEW t \in Threads, NEW step \in Steps \ {"write"}, pc' = [pc EXCEPT ![t] = step],
         NEW held, temp' = [temp EXCEPT ![t] = held],
         CASE step = "fill" -> held = Torn [] step = "rename" -> held = Whole(mem[t])
           [] OTHER -> held = Absent,
         NEW c, CommandShape(c), cmd' = [cmd EXCEPT ![t] = c],
         step \notin {"idle", "read"} => c.op # "none",
         \/ step = "idle" /\ mem' = [mem EXCEPT ![t] = None] /\ base' = [base EXCEPT ![t] = None]
         \/ step = "migrate" /\ UNCHANGED <<mem, base>>
         \/ pc[t] \in {"write", "fill"} /\ c = cmd[t] /\ UNCHANGED <<mem, base>>
  PROVE  ConfigInv'
<1> USE DEF ConfigInv, Shape
<1>1. Shape'
  OBVIOUS
<1>2. FilesWhole' /\ MigrationHolds'
  BY DEF FilesWhole, MigrationHolds
<1>3. /\ step = "fill" => held = Torn
      /\ step = "rename" => held = Whole(mem[t])
      /\ step \notin {"fill", "rename"} => held = Absent
  OBVIOUS
<1>4. step = "rename" => UNCHANGED mem
  OBVIOUS
<1>5. TempsKept'
  BY <1>3, <1>4 DEF TempsKept
<1>6. ChangeOfBase'
  BY DEF ChangeOfBase
<1> QED BY <1>1, <1>2, <1>5, <1>6

(* What is true of the files and the other threads stays so.               *)
LEMMA FilesStay ==
  ASSUME ConfigInv, UNCHANGED files, NEW t \in Threads, NEW step \in Steps \ {"migrate"},
         pc' = [pc EXCEPT ![t] = step], NEW c, cmd' = [cmd EXCEPT ![t] = c]
  PROVE  /\ files' = [f \in Targets |-> files'[f]]
         /\ \A f \in Targets : files'[f] # Torn
         /\ \A u \in Threads : pc'[u] = "migrate" =>
              /\ cmd'[u].op = "save" /\ cmd'[u].path # normalize[cmd'[u].path]
              /\ Usable(files'[normalize[cmd'[u].path]])
  BY DEF ConfigInv, Shape, FilesWhole, MigrationHolds

LEMMA CreateTempKeeps ==
  ASSUME ConfigInv, NEW t \in Threads, CreateTemp(t)
  PROVE  ConfigInv'
<1>1. /\ pc[t] = "write" /\ pc' = [pc EXCEPT ![t] = "fill"] /\ "fill" \in Steps \ {"write", "migrate"}
      /\ temp' = [temp EXCEPT ![t] = Torn] /\ UNCHANGED <<files, mem, base>>
  BY DEF CreateTemp, Goto, Steps
<1>2. cmd' = [cmd EXCEPT ![t] = cmd[t]] /\ CommandShape(cmd[t]) /\ cmd[t].op # "none"
  BY <1>1 DEF CreateTemp, Goes, ConfigInv, Shape
<1> QED BY <1>1, <1>2, FilesStay, WholeFilesKeep

LEMMA FillTempKeeps ==
  ASSUME ConfigInv, NEW t \in Threads, FillTemp(t)
  PROVE  ConfigInv'
<1>1. /\ pc[t] = "fill" /\ pc' = [pc EXCEPT ![t] = "rename"]
      /\ "rename" \in Steps \ {"write", "migrate"}
      /\ temp' = [temp EXCEPT ![t] = Whole(mem[t])] /\ UNCHANGED <<files, mem, base>>
  BY DEF FillTemp, Goto, Steps
<1>2. cmd' = [cmd EXCEPT ![t] = cmd[t]] /\ CommandShape(cmd[t]) /\ cmd[t].op # "none"
  BY <1>1 DEF FillTemp, Goes, ConfigInv, Shape
<1> QED BY <1>1, <1>2, FilesStay, WholeFilesKeep

LEMMA WriteFailsKeeps ==
  ASSUME ConfigInv, NEW t \in Threads, WriteFails(t)
  PROVE  ConfigInv'
<1>1. /\ pc' = [pc EXCEPT ![t] = "idle"] /\ "idle" \in Steps \ {"write", "migrate"}
      /\ temp' = [temp EXCEPT ![t] = Absent] /\ UNCHANGED files
      /\ mem' = [mem EXCEPT ![t] = None] /\ base' = [base EXCEPT ![t] = None]
      /\ cmd' = [cmd EXCEPT ![t] = NoCommand]
  BY DEF WriteFails, Finish, Goto, Steps
<1> QED BY <1>1, NothingRuns, FilesStay, WholeFilesKeep

(* The rename puts a whole content in place.                               *)
LEMMA RenameReplaces ==
  ASSUME ConfigInv, NEW t \in Threads, Rename(t)
  PROVE  /\ pc[t] = "rename" /\ TargetOf(cmd[t]) \in Targets
         /\ files' = [files EXCEPT ![TargetOf(cmd[t])] = Whole(mem[t])]
         /\ files' = [f \in Targets |-> files'[f]]
         /\ \A f \in Targets : files'[f] # Torn
         /\ \A f \in Targets : Usable(files[f]) => Usable(files'[f])
         /\ Usable(files'[TargetOf(cmd[t])])
<1>1. TargetOf(cmd[t]) \in Targets
  BY TargetsKnown DEF ConfigInv, Shape
<1>2. pc[t] = "rename" /\ files' = [files EXCEPT ![TargetOf(cmd[t])] = Whole(mem[t])]
  BY DEF Rename, Renames, ConfigInv, TempsKept
<1>3. Usable(Whole(mem[t])) /\ Whole(mem[t]) # Torn
  BY DEF Usable, Whole, Torn
<1> QED BY <1>1, <1>2, <1>3 DEF ConfigInv, Shape, FilesWhole

LEMMA RenameKeeps ==
  ASSUME ConfigInv, NEW t \in Threads, Rename(t)
  PROVE  ConfigInv'
<1> USE RenameReplaces
<1>1. temp' = [temp EXCEPT ![t] = Absent]
  BY DEF Rename, Renames
<1>2. \A u \in Threads \ {t} : pc[u] = "migrate" =>
        /\ cmd[u].op = "save" /\ cmd[u].path # normalize[cmd[u].path]
        /\ Usable(files'[normalize[cmd[u].path]])
  BY TargetsKnown, ConfigAssumption DEF ConfigInv, Shape, MigrationHolds, Targets, CommandShape
<1>3. CASE LegacyLeft(t) /\ Goto(t, "rename", "migrate") /\ UNCHANGED <<mem, base>> /\ Goes
  <2>1. /\ pc' = [pc EXCEPT ![t] = "migrate"] /\ "migrate" \in Steps \ {"write"}
        /\ cmd' = [cmd EXCEPT ![t] = cmd[t]] /\ CommandShape(cmd[t]) /\ cmd[t].op = "save"
        /\ cmd[t].path # TargetOf(cmd[t])
    BY <1>3 DEF Goto, Goes, Steps, LegacyLeft, ConfigInv, Shape
  <2>2. TargetOf(cmd[t]) = normalize[cmd[t].path]
    BY <2>1, TargetsKnown
  <2>3. \A u \in Threads : pc'[u] = "migrate" =>
          /\ cmd'[u].op = "save" /\ cmd'[u].path # normalize[cmd'[u].path]
          /\ Usable(files'[normalize[cmd'[u].path]])
    BY <1>2, <2>1, <2>2 DEF ConfigInv, Shape
  <2> QED BY <1>1, <1>3, <2>1, <2>3, WholeFilesKeep
<1>4. CASE Finish(t, "rename", [op |-> cmd[t].op, written |-> mem[t]])
  <2>1. /\ pc' = [pc EXCEPT ![t] = "idle"] /\ "idle" \in Steps \ {"write"}
        /\ mem' = [mem EXCEPT ![t] = None] /\ base' = [base EXCEPT ![t] = None]
        /\ cmd' = [cmd EXCEPT ![t] = NoCommand]
    BY <1>4 DEF Finish, Goto, Steps
  <2>2. \A u \in Threads : pc'[u] = "migrate" =>
          /\ cmd'[u].op = "save" /\ cmd'[u].path # normalize[cmd'[u].path]
          /\ Usable(files'[normalize[cmd'[u].path]])
    BY <1>2, <2>1 DEF ConfigInv, Shape
  <2> QED BY <1>1, <2>1, <2>2, NothingRuns, WholeFilesKeep
<1> QED BY <1>3, <1>4 DEF Rename

(* The old key goes, and no key that a migration relies on is an old one.  *)
LEMMA RemovalSpares ==
  ASSUME ConfigInv, NEW t \in Threads, RemoveLegacy(t), NEW p \in Paths
  PROVE  /\ files'[normalize[p]] = files[normalize[p]]
         /\ files'[p] # files[p] => Usable(files'[normalize[p]])
<1>1. /\ cmd[t].op = "save" /\ cmd[t].path \in Paths
      /\ cmd[t].path # normalize[cmd[t].path]
      /\ Usable(files[normalize[cmd[t].path]])
  BY DEF RemoveLegacy, ConfigInv, Shape, MigrationHolds, CommandShape
<1>2. normalize[p] \in Paths /\ normalize[normalize[p]] = normalize[p]
  BY ConfigAssumption
<1>3. normalize[p] # cmd[t].path
  BY <1>1, <1>2
<1>4. files'[normalize[p]] = files[normalize[p]]
  BY <1>2, <1>3 DEF RemoveLegacy, ConfigInv, Shape, Targets
<1>5. files'[p] # files[p] => p = cmd[t].path
  BY DEF RemoveLegacy, ConfigInv, Shape, Targets
<1> QED BY <1>1, <1>4, <1>5

LEMMA RemoveLegacyKeeps ==
  ASSUME ConfigInv, NEW t \in Threads, RemoveLegacy(t)
  PROVE  ConfigInv'
<1>1. /\ pc[t] = "migrate" /\ pc' = [pc EXCEPT ![t] = "idle"] /\ "idle" \in Steps \ {"write"}
      /\ mem' = [mem EXCEPT ![t] = None] /\ base' = [base EXCEPT ![t] = None]
      /\ cmd' = [cmd EXCEPT ![t] = NoCommand]
  BY DEF RemoveLegacy, Finish, Goto, Steps
<1>2. temp' = [temp EXCEPT ![t] = Absent]
  BY <1>1 DEF RemoveLegacy, ConfigInv, Shape, TempsKept
<1>3. /\ files' = [f \in Targets |-> files'[f]]
      /\ \A f \in Targets : files'[f] # Torn
  BY DEF RemoveLegacy, ConfigInv, Shape, FilesWhole, Absent, Torn
<1>4. \A u \in Threads : pc'[u] = "migrate" =>
        /\ cmd'[u].op = "save" /\ cmd'[u].path # normalize[cmd'[u].path]
        /\ Usable(files'[normalize[cmd'[u].path]])
  BY <1>1, RemovalSpares DEF ConfigInv, Shape, MigrationHolds, CommandShape
<1> QED BY <1>1, <1>2, <1>3, <1>4, NothingRuns, WholeFilesKeep

LEMMA CrashKeeps ==
  ASSUME ConfigInv, NEW p \in Processes, Crash(p)
  PROVE  ConfigInv'
<1> DEFINE dead == {t \in Threads : Process[t] = p}
<1>1. /\ temp' = [t \in Threads |-> IF t \in dead THEN Absent ELSE temp[t]]
      /\ pc' = [t \in Threads |-> IF t \in dead THEN "idle" ELSE pc[t]]
      /\ cmd' = [t \in Threads |-> IF t \in dead THEN NoCommand ELSE cmd[t]]
      /\ mem' = [t \in Threads |-> IF t \in dead THEN None ELSE mem[t]]
      /\ base' = [t \in Threads |-> IF t \in dead THEN None ELSE base[t]]
      /\ UNCHANGED files
  BY DEF Crash
<1> HIDE DEF dead
<1> USE <1>1, NothingRuns DEF ConfigInv, Shape
<1>2. Shape'
  BY DEF Steps, NoCommand
<1>3. FilesWhole' /\ TempsKept' /\ MigrationHolds'
  BY DEF FilesWhole, TempsKept, MigrationHolds
<1>4. ChangeOfBase'
  BY DEF ChangeOfBase
<1> QED BY <1>2, <1>3, <1>4

-----------------------------------------------------------------------------
(* Every step.                                                             *)

LEMMA ConfigStep == ConfigInv /\ [Next]_vars => ConfigInv'
<1> SUFFICES ASSUME ConfigInv, [Next]_vars PROVE ConfigInv'
  OBVIOUS
<1>1. ASSUME NEW t \in Threads, SameVersion(t) PROVE ConfigInv'
  BY <1>1, FinishKeeps DEF SameVersion
<1>2. CASE UNCHANGED vars
  BY <1>2 DEF vars, ConfigInv, Shape, FilesWhole, TempsKept, MigrationHolds, ChangeOfBase
<1> QED
  BY <1>1, <1>2, StartKeeps, ReadAppKeeps, StartSaveKeeps, LoadKeeps, CreateTempKeeps,
     FillTempKeeps, WriteFailsKeeps, RenameKeeps, RemoveLegacyKeeps, CrashKeeps
  DEF Next

LEMMA ConfigAlways == Spec => []ConfigInv
  BY ConfigInit, ConfigStep, PTL DEF Spec

(* No file is half written, and a thread at rest has no temp file, however *)
(* many windows write, fail and die.                                       *)
THEOREM WritesAlwaysClean == Spec => []WritesClean
<1>1. ConfigInv => WritesClean
  BY DEF ConfigInv, Shape, TempsKept, WritesClean, FilesWhole, TempsCollected
<1> QED BY <1>1, ConfigAlways, PTL

(* What is saved of a database stays on disk under one of its keys.        *)
THEOREM ConfigAlwaysSurvives == Spec => ConfigSurvives
<1> DEFINE Survives == \A p \in Paths :
      Usable(files[p]) \/ Usable(files[normalize[p]])
        => Usable(files'[p]) \/ Usable(files'[normalize[p]])
<1>1. ConfigInv /\ [Next]_vars => Survives
  <2> SUFFICES ASSUME ConfigInv, [Next]_vars PROVE Survives
    OBVIOUS
  <2>1. ASSUME NEW t \in Threads, Rename(t) PROVE Survives
    BY <2>1, RenameReplaces, ConfigAssumption DEF Targets
  <2>2. ASSUME NEW t \in Threads, RemoveLegacy(t) PROVE Survives
    BY <2>2, RemovalSpares
  <2>3. CASE UNCHANGED files
    BY <2>3
  <2>4. CASE UNCHANGED vars
    BY <2>4 DEF vars
  <2> HIDE DEF Survives
  <2> QED
    BY <2>1, <2>2, <2>3, <2>4
    DEF Next, Start, ReadApp, SameVersion, StartSave, load_config, LoadLegacy, CreateTemp,
        FillTemp, WriteFails, Crash
<1>2. [][Survives]_vars <=> ConfigSurvives
  BY DEF ConfigSurvives
<1> QED BY <1>1, <1>2, ConfigAlways, PTL DEF Spec

(* Of app.json a command that was not overtaken changes its own setting.   *)
THEOREM OwnSettingAlwaysOnly == Spec => OwnSettingOnly
<1> DEFINE OwnOnly == \A t \in Threads :
      (files'[App] # files[App] /\ pc[t] = "rename" /\ pc'[t] = "idle" /\ files[App] = base[t]) =>
        LET before == load_app_config
        IN \A field \in DOMAIN before \ {SettingOf(cmd[t].op)} :
             files'[App].config[field] = before[field]
<1>1. ConfigInv /\ [Next]_vars => OwnOnly
  <2> SUFFICES ASSUME ConfigInv, [Next]_vars, NEW t \in Threads,
                      files'[App] # files[App], pc[t] = "rename", pc'[t] = "idle",
                      files[App] = base[t], NEW field \in DOMAIN load_app_config \ {SettingOf(cmd[t].op)}
               PROVE  files'[App].config[field] = load_app_config[field]
    OBVIOUS
  <2>1. App \in Targets /\ App \notin Paths
    BY ConfigAssumption DEF Targets
  <2>2. PICK u \in Threads : Rename(u)
    <3>1. ASSUME NEW u \in Threads, RemoveLegacy(u) PROVE FALSE
      BY <2>1, <3>1 DEF RemoveLegacy, ConfigInv, Shape, MigrationHolds, CommandShape
    <3> QED
      BY <3>1
      DEF Next, vars, Start, ReadApp, SameVersion, StartSave, load_config, LoadLegacy, CreateTemp,
          FillTemp, WriteFails, Crash
  <2>3. u = t
    BY <2>2 DEF Rename, Finish, Goto, ConfigInv, Shape
  <2>4. TargetOf(cmd[t]) = App /\ files'[App] = Whole(mem[t])
    BY <2>1, <2>2, <2>3, RenameReplaces DEF ConfigInv, Shape
  <2>5. cmd[t].op \in AppOps
    BY <2>4, TargetsKnown DEF ConfigInv, Shape, CommandShape
  <2>6. mem[t] = Changes(cmd[t], load_app_config)
    BY <2>5 DEF ConfigInv, ChangeOfBase, Decoded, load_app_config
  <2>7. files'[App].config = mem[t]
    BY <2>4 DEF Whole
  <2> QED BY <2>5, <2>6, <2>7, ChangesKeep
<1>2. [][OwnOnly]_vars <=> OwnSettingOnly
  BY DEF OwnSettingOnly
<1> QED BY <1>1, <1>2, ConfigAlways, PTL DEF Spec

-----------------------------------------------------------------------------
(* What the frontend is given of the settings.                             *)

(* Recent files are a list of what they hold.                              *)
LEMMA RecentsListed ==
  ASSUME NEW recent, SaneRecents(recent)
  PROVE  LET held == {recent[i] : i \in DOMAIN recent}
         IN IsFiniteSet(held) /\ held \in SUBSET Paths /\ Lists(recent, held)
<1> DEFINE held == {recent[i] : i \in DOMAIN recent}
           n == Len(recent)
<1>1. recent \in Seq(Paths) /\ n \in Nat /\ DOMAIN recent = 1 .. n
  BY DEF SaneRecents
<1>2. recent \in [1 .. n -> held] /\ held \in SUBSET Paths
  BY <1>1
<1>3. \A i, j \in 1 .. n : recent[i] = recent[j] => i = j
  BY <1>1 DEF SaneRecents
<1>4. \A a \in held : \E i \in 1 .. n : recent[i] = a
  BY <1>1
<1> HIDE DEF held, n
<1>5. recent \in Bijection(1 .. n, held)
  BY <1>2, <1>3, <1>4 DEF Bijection, Injection, IsInjective, Surjection
<1>6. IsFiniteSet(1 .. n) /\ Cardinality(1 .. n) = n
  BY <1>1, FS_Interval
<1>7. ExistsBijection(1 .. n, held)
  BY <1>5 DEF ExistsBijection
<1>8. IsFiniteSet(held) /\ Cardinality(held) = n
  BY <1>6, <1>7, FS_Bijection
<1>9. Lists(recent, held)
  BY <1>2, <1>3, <1>4, <1>8 DEF Lists
<1> QED BY <1>2, <1>8, <1>9 DEF held

(* What is kept of them is what they have of the set.                      *)
LEMMA RecentsKept ==
  ASSUME NEW recent, SaneRecents(recent), NEW S
  PROVE  LET held == {recent[i] : i \in DOMAIN recent}
             kept == Kept(recent, S)
         IN /\ kept \in Seq(Paths)
            /\ {kept[i] : i \in DOMAIN kept} = held \cap S
            /\ \A i, j \in DOMAIN kept : normalize[kept[i]] = normalize[kept[j]] => i = j
<1> DEFINE held == {recent[i] : i \in DOMAIN recent}
           kept == Kept(recent, S)
           both == held \cap S
<1>1. IsFiniteSet(held) /\ held \in SUBSET Paths /\ Lists(recent, held)
  BY RecentsListed
<1>2. \A p, q \in held : normalize[p] = normalize[q] => p = q
  BY DEF SaneRecents
<1> HIDE DEF held
<1>3. Lists(kept, both)
  BY <1>1, KeptLists
<1>4. IsFiniteSet(both)
  BY <1>1, FS_Subset
<1> HIDE DEF kept, both
<1>5. kept \in Seq(both) /\ DOMAIN kept = 1 .. Cardinality(both)
  BY <1>3, <1>4, ListIsSeq
<1>6. both \in SUBSET Paths /\ both \in SUBSET held
  BY <1>1 DEF both
<1>7. kept \in Seq(Paths)
  BY <1>5, <1>6
<1>8. {kept[i] : i \in DOMAIN kept} = both
  BY <1>3, <1>5 DEF Lists
<1>9. ASSUME NEW i \in DOMAIN kept, NEW j \in DOMAIN kept,
             normalize[kept[i]] = normalize[kept[j]]
      PROVE  i = j
  <2>1. kept[i] \in held /\ kept[j] \in held
    BY <1>6, <1>8
  <2>2. kept[i] = kept[j]
    BY <1>2, <1>9, <2>1
  <2> QED BY <1>3, <1>5, <2>2 DEF Lists
<1> QED BY <1>7, <1>8, <1>9 DEF kept, both, held

(* A file that is opened goes to the front, in place of its other          *)
(* spellings, and the list stays under the cap.                            *)
LEMMA PushedSane ==
  ASSUME NEW recent, SaneRecents(recent), NEW p \in Paths
  PROVE  SaneRecents(Truncated(<<p>> \o Kept(recent, OtherThan(p)), RECENT_FILES_MAX))
<1> DEFINE kept == Kept(recent, OtherThan(p))
           all == <<p>> \o kept
           m == IF Len(all) < RECENT_FILES_MAX THEN Len(all) ELSE RECENT_FILES_MAX
           cut == SubSeq(all, 1, m)
<1>1. /\ kept \in Seq(Paths)
      /\ \A i \in DOMAIN kept : kept[i] \in OtherThan(p)
      /\ \A i, j \in DOMAIN kept : normalize[kept[i]] = normalize[kept[j]] => i = j
  BY RecentsKept
<1> HIDE DEF kept
<1>2. /\ all \in Seq(Paths) /\ Len(all) = Len(kept) + 1 /\ Len(kept) \in Nat
      /\ DOMAIN kept = 1 .. Len(kept)
      /\ all[1] = p
  BY <1>1
<1>3. \A i \in 2 .. Len(kept) + 1 : all[i] = kept[i - 1] /\ i - 1 \in 1 .. Len(kept)
  BY <1>1
<1> HIDE DEF all
<1>4. \A i, j \in 1 .. Len(all) : normalize[all[i]] = normalize[all[j]] => i = j
  <2>1. SUFFICES ASSUME NEW i \in 1 .. Len(all), NEW j \in 1 .. Len(all),
                        normalize[all[i]] = normalize[all[j]]
                 PROVE  i = j
    OBVIOUS
  <2>2. \A k \in 2 .. Len(kept) + 1 : normalize[all[k]] # normalize[all[1]]
    BY <1>1, <1>2, <1>3 DEF OtherThan
  <2>3. CASE i = 1 \/ j = 1
    BY <1>2, <2>1, <2>2, <2>3
  <2>4. CASE i # 1 /\ j # 1
    <3>1. i \in 2 .. Len(kept) + 1 /\ j \in 2 .. Len(kept) + 1
      BY <1>2, <2>4
    <3>2. i - 1 = j - 1
      BY <1>1, <1>2, <1>3, <2>1, <3>1
    <3> QED BY <3>1, <3>2
  <2> QED BY <2>3, <2>4
<1>5. m \in Nat /\ m <= Len(all) /\ m <= RECENT_FILES_MAX
  BY <1>2, ConfigAssumption
<1> HIDE DEF m
<1>6. cut \in Seq(Paths) /\ Len(cut) = m /\ \A i \in 1 .. m : cut[i] = all[i]
  BY <1>2, <1>5
<1>7. DOMAIN cut = 1 .. m
  BY <1>6
<1>8. SaneRecents(cut)
  BY <1>2, <1>4, <1>5, <1>6, <1>7 DEF SaneRecents
<1> QED BY <1>8 DEF Truncated, m, all, kept

(* The menu lists those that exist and leaves out none.                    *)
Held(list) == {list[i] : i \in DOMAIN list}

LEMMA MenuRight ==
  ASSUME NEW recent, SaneRecents(recent), NEW S
  PROVE  Held(Kept(Truncated(recent, RECENT_FILES_MAX), S)) = Held(recent) \cap S
<1>1. recent \in Seq(Paths) /\ Len(recent) <= RECENT_FILES_MAX /\ Len(recent) \in Nat
  BY DEF SaneRecents
<1>2. SubSeq(recent, 1, Len(recent)) = recent
  BY <1>1
<1>3. Truncated(recent, RECENT_FILES_MAX) = recent
  BY <1>1, <1>2, ConfigAssumption DEF Truncated
<1> QED BY <1>3, RecentsKept DEF Held

(* What the frontend is given of a file: LoadedClean of an answer.         *)
DistinctNames(presets) ==
  \A i, j \in DOMAIN presets : presets[i].name = presets[j].name => i = j

Clean(config) ==
  /\ config.tint \in TINT_PRESETS \cup {None} /\ config.label <= LABEL_MAX_LEN
  /\ \A col \in DOMAIN config.colors : config.colors[col] \in COLUMN_COLOR_PRESETS
  /\ DistinctNames(config.presets)

(* No two of the presets that stay have one name, and each has a name that *)
(* can be trimmed again.                                                   *)
LEMMA PresetsClean ==
  ASSUME NEW presets, Len(presets) \in Nat, DOMAIN presets = 1 .. Len(presets),
         \A i \in DOMAIN presets : /\ "name" \in DOMAIN presets[i]
                                   /\ presets[i].name \in DOMAIN trim
  PROVE  LET clean == sanitize_column_presets(presets)
         IN /\ Len(clean) \in Nat /\ DOMAIN clean = 1 .. Len(clean)
            /\ \A i \in DOMAIN clean : /\ "name" \in DOMAIN clean[i]
                                       /\ clean[i].name \in DOMAIN trim
            /\ DistinctNames(clean)
<1> DEFINE first == {i \in DOMAIN presets :
                       /\ PresetNamed(presets[i])
                       /\ \A j \in 1 .. i - 1 :
                            PresetNamed(presets[j])
                              => trim[presets[j].name] # trim[presets[i].name]}
           order == Ascending(first)
           n == Cardinality(first)
           clean == sanitize_column_presets(presets)
<1>1. first \in SUBSET (1 .. Len(presets)) /\ first \in SUBSET Nat
  OBVIOUS
<1>2. ASSUME NEW i \in first, NEW j \in first, j < i
      PROVE  trim[presets[j].name] # trim[presets[i].name]
  BY <1>1, <1>2
<1>3. clean = [k \in DOMAIN order |-> [presets[order[k]] EXCEPT !.name = trim[@]]]
  BY DEF sanitize_column_presets
<1> HIDE DEF first
<1>4. IsFiniteSet(first)
  <2>1. IsFiniteSet(1 .. Len(presets))
    BY FS_Interval
  <2> QED BY <1>1, <2>1, FS_Subset
<1>5. Lists(order, first) /\ n \in Nat
  BY <1>1, <1>4, AscendingLists, FS_CardinalityType
<1>6. order \in [1 .. n -> first]
  BY <1>5 DEF Lists
<1> HIDE DEF order, clean
<1>7. DOMAIN clean = 1 .. n /\ Len(clean) = n
  <2>1. clean = [k \in 1 .. n |-> [presets[order[k]] EXCEPT !.name = trim[@]]]
    BY <1>3, <1>6
  <2> QED BY <1>5, <2>1
<1>8. ASSUME NEW k \in 1 .. n
      PROVE  /\ order[k] \in first /\ order[k] \in DOMAIN presets
             /\ "name" \in DOMAIN clean[k]
             /\ clean[k].name = trim[presets[order[k]].name]
             /\ clean[k].name \in DOMAIN trim
  <2>1. order[k] \in first /\ order[k] \in DOMAIN presets
    BY <1>1, <1>6
  <2>2. clean[k] = [presets[order[k]] EXCEPT !.name = trim[@]]
    BY <1>3, <1>6
  <2>3. "name" \in DOMAIN presets[order[k]] /\ presets[order[k]].name \in DOMAIN trim
    BY <2>1
  <2>4. "name" \in DOMAIN clean[k] /\ clean[k].name = trim[presets[order[k]].name]
    BY <2>2, <2>3
  <2> QED BY <2>1, <2>3, <2>4, ConfigAssumption
<1>9. ASSUME NEW k \in 1 .. n, NEW l \in 1 .. n, clean[k].name = clean[l].name
      PROVE  k = l
  <2>1. trim[presets[order[k]].name] = trim[presets[order[l]].name]
    BY <1>8, <1>9
  <2>2. order[k] \in first /\ order[l] \in first /\ order[k] \in Nat /\ order[l] \in Nat
    BY <1>1, <1>8
  <2>3. ~(order[k] < order[l]) /\ ~(order[l] < order[k])
    BY <1>2, <2>1, <2>2
  <2>4. order[k] = order[l]
    BY <2>2, <2>3
  <2> QED BY <1>5, <2>4 DEF Lists
<1>10. DistinctNames(clean)
  BY <1>7, <1>9 DEF DistinctNames
<1> QED BY <1>5, <1>7, <1>8, <1>10 DEF clean

LEMMA SanitizedClean ==
  ASSUME NEW config, Parsed(config)
  PROVE  Parsed(sanitize_file_config(config)) /\ Clean(sanitize_file_config(config))
<1> DEFINE new == sanitize_file_config(config)
           colors == sanitize_column_colors(config.colors)
           presets == sanitize_column_presets(config.presets)
<1>1. /\ new.tint = sanitize_tint(config.tint) /\ new.label = sanitize_label(config.label)
      /\ new.colors = colors /\ new.presets = presets
  BY DEF sanitize_file_config
<1>2. new.tint \in TINT_PRESETS \cup {None}
  BY <1>1 DEF sanitize_tint
<1>3. new.label \in Nat /\ new.label <= LABEL_MAX_LEN
  BY <1>1, ConfigAssumption DEF sanitize_label, Parsed
<1>4. \A col \in DOMAIN colors : colors[col] \in COLUMN_COLOR_PRESETS
  BY DEF sanitize_column_colors
<1>5. /\ Len(presets) \in Nat /\ DOMAIN presets = 1 .. Len(presets)
      /\ \A i \in DOMAIN presets : /\ "name" \in DOMAIN presets[i]
                                   /\ presets[i].name \in DOMAIN trim
      /\ DistinctNames(presets)
  BY PresetsClean DEF Parsed
<1> HIDE DEF new, colors, presets
<1>6. Parsed(new)
  BY <1>1, <1>3, <1>5 DEF Parsed
<1>7. Clean(new)
  BY <1>1, <1>2, <1>3, <1>4, <1>5 DEF Clean
<1> QED BY <1>6, <1>7 DEF new

LEMMA DefaultClean == Clean(DefaultFileConfig)
  BY ConfigAssumption DEF Clean, DefaultFileConfig, DistinctNames

(* What is read of the files, and what is about to be written into them.   *)
SaneApp(app) == "recent_files" \in DOMAIN app /\ SaneRecents(app.recent_files)

FilesSound ==
  /\ Usable(files[App]) => SaneApp(files[App].config)
  /\ \A p \in Paths : Usable(files[p]) => Parsed(files[p].config)

SoundFor(c, value) ==
  /\ c.op # "load"
  /\ c.op \in AppOps => SaneApp(value)
  /\ c.op = "save" => Parsed(value)

WritesSound == \A t \in Threads :
  /\ pc[t] \in {"write", "fill", "rename"} => SoundFor(cmd[t], mem[t])
  /\ pc[t] = "legacy" => cmd[t].op = "load"

ContentInv == FilesSound /\ WritesSound /\ LoadedClean

LEMMA ContentInit == Init => ContentInv
<1> SUFFICES ASSUME Init PROVE ContentInv
  OBVIOUS
<1>1. PICK app \in {Whole(c) : c \in OldApps} \cup {Absent, Corrupt},
           old \in [Paths -> {Whole(c) : c \in OldConfigs} \cup {Absent}] :
        files = [f \in Targets |-> IF f = App THEN app ELSE old[f]]
  BY DEF Init
<1>2. Usable(files[App]) => SaneApp(files[App].config)
  <2>1. files[App] = app
    BY <1>1 DEF Targets
  <2>2. ASSUME NEW c \in OldApps PROVE SaneApp(Whole(c).config)
    BY ContentAssumption DEF SaneApp, Whole, AppConfig
  <2> QED BY <2>1, <2>2 DEF Usable, Absent, Corrupt
<1>3. ASSUME NEW p \in Paths, Usable(files[p]) PROVE Parsed(files[p].config)
  <2>1. files[p] = old[p]
    BY <1>1, ConfigAssumption DEF Targets
  <2>2. ASSUME NEW c \in OldConfigs PROVE Parsed(Whole(c).config)
    BY ContentAssumption DEF Whole
  <2>3. old[p] \in {Whole(c) : c \in OldConfigs}
    BY <1>3, <2>1 DEF Usable, Absent
  <2> QED BY <2>1, <2>2, <2>3
<1>4. WritesSound /\ LoadedClean
  BY DEF Init, WritesSound, LoadedClean, NoAnswer
<1> QED BY <1>2, <1>3, <1>4 DEF ContentInv, FilesSound

(* A command changes sane settings into sane ones.                         *)
LEMMA ChangesSane ==
  ASSUME NEW c, CommandShape(c), c.op \in AppOps, NEW app, SaneApp(app)
  PROVE  SaneApp(Changes(c, app))
<1>1. CASE c.op = "push"
  <2>1. c.path \in Paths
    BY <1>1 DEF CommandShape
  <2>2. SaneRecents(Truncated(<<c.path>> \o Kept(app.recent_files, OtherThan(c.path)),
                              RECENT_FILES_MAX))
    BY <2>1, PushedSane DEF SaneApp
  <2> QED BY <1>1, <2>2 DEF Changes, push_recent_file, SaneApp
<1>2. CASE c.op = "clear"
  <2>1. SaneRecents(<<>>)
    BY ConfigAssumption DEF SaneRecents
  <2> QED BY <1>2, <2>1 DEF Changes, clear_recent_files, SaneApp
<1>3. CASE c.op \in {"dir", "updates", "version"}
  <2>1. /\ Changes(c, app).recent_files = app.recent_files
        /\ DOMAIN Changes(c, app) = DOMAIN app
    BY <1>3 DEF Changes, set_export_dir, set_check_for_updates, record_run_version, SaneApp
  <2> QED BY <2>1 DEF SaneApp
<1> QED BY <1>1, <1>2, <1>3 DEF AppOps

LEMMA SettingsSane ==
  ASSUME FilesSound
  PROVE  SaneApp(load_app_config)
<1>1. SaneApp(DefaultAppConfig)
  BY ConfigAssumption DEF SaneApp, SaneRecents, DefaultAppConfig
<1> QED BY <1>1 DEF FilesSound, load_app_config

(* A step that leaves the files alone and answers no load.                 *)
LEMMA ContentStays ==
  ASSUME ConfigInv, ContentInv, UNCHANGED files, answer'.op # "load",
         NEW t \in Threads, NEW step \in Steps, pc' = [pc EXCEPT ![t] = step],
         NEW c, cmd' = [cmd EXCEPT ![t] = c], NEW m, mem' = [mem EXCEPT ![t] = m],
         step \in {"write", "fill", "rename"} => SoundFor(c, m),
         step = "legacy" => c.op = "load"
  PROVE  ContentInv'
<1>1. FilesSound' /\ LoadedClean'
  BY DEF ContentInv, FilesSound, LoadedClean
<1>2. WritesSound'
  BY DEF ContentInv, WritesSound, ConfigInv, Shape
<1> QED BY <1>1, <1>2 DEF ContentInv

(* What is loaded is clean, whoever wrote it.                              *)
LEMMA LoadedContent ==
  ASSUME ConfigInv, ContentInv, NEW t \in Threads, NEW step, NEW content,
         Usable(content) => Parsed(content.config),
         Loaded(t, step, content), UNCHANGED files
  PROVE  ContentInv'
<1> DEFINE config == IF Usable(content) THEN sanitize_file_config(content.config)
                     ELSE DefaultFileConfig
<1>1. /\ pc' = [pc EXCEPT ![t] = "idle"]
      /\ cmd' = [cmd EXCEPT ![t] = NoCommand] /\ mem' = [mem EXCEPT ![t] = None]
      /\ answer' = [op |-> "load", path |-> cmd[t].path, config |-> config]
  BY DEF Loaded, Finish, Goto
<1>2. Clean(config)
  BY SanitizedClean, DefaultClean
<1> HIDE DEF config
<1>3. LoadedClean'
  BY <1>1, <1>2 DEF LoadedClean, Clean, DistinctNames
<1>4. FilesSound' /\ WritesSound'
  BY <1>1 DEF ContentInv, FilesSound, WritesSound, ConfigInv, Shape
<1> QED BY <1>3, <1>4 DEF ContentInv

(* What is renamed over a file is sound for it.                            *)
LEMMA RenamedContent ==
  ASSUME ConfigInv, ContentInv, NEW t \in Threads, Rename(t)
  PROVE  ContentInv'
<1>1. /\ pc[t] = "rename" /\ TargetOf(cmd[t]) \in Targets
      /\ files' = [files EXCEPT ![TargetOf(cmd[t])] = Whole(mem[t])]
  BY RenameReplaces
<1>2. files = [f \in Targets |-> files[f]] /\ CommandShape(cmd[t]) /\ cmd[t].op # "none"
  BY <1>1 DEF ConfigInv, Shape
<1>3. SoundFor(cmd[t], mem[t])
  BY <1>1 DEF ContentInv, WritesSound
<1>4. Whole(mem[t]).config = mem[t]
  BY DEF Whole
<1>5. Usable(files'[App]) => SaneApp(files'[App].config)
  <2>1. App \in Targets
    BY DEF Targets
  <2>2. CASE TargetOf(cmd[t]) = App
    <3>1. cmd[t].op \in AppOps /\ files'[App] = Whole(mem[t])
      BY <1>1, <1>2, <2>1, <2>2, TargetsKnown DEF CommandShape
    <3> QED BY <1>3, <1>4, <3>1 DEF SoundFor
  <2>3. CASE TargetOf(cmd[t]) # App
    BY <1>1, <1>2, <2>1, <2>3 DEF ContentInv, FilesSound
  <2> QED BY <2>2, <2>3
<1>6. ASSUME NEW p \in Paths, Usable(files'[p]) PROVE Parsed(files'[p].config)
  <2>1. p \in Targets /\ p # App
    BY ConfigAssumption DEF Targets
  <2>2. CASE TargetOf(cmd[t]) = p
    <3>1. cmd[t].op \in {"save", "load"} /\ files'[p] = Whole(mem[t])
      BY <1>1, <1>2, <2>1, <2>2, TargetsKnown
    <3>2. cmd[t].op # "load"
      BY <1>3 DEF SoundFor
    <3> QED BY <1>3, <1>4, <3>1, <3>2 DEF SoundFor
  <2>3. CASE TargetOf(cmd[t]) # p
    BY <1>1, <1>2, <1>6, <2>1, <2>3 DEF ContentInv, FilesSound
  <2> QED BY <2>2, <2>3
<1>7. /\ \A u \in Threads : pc'[u] \in {"write", "fill", "rename", "legacy"} =>
           pc'[u] = pc[u] /\ cmd'[u] = cmd[u] /\ mem'[u] = mem[u]
      /\ answer'.op # "load"
  <2>1. CASE Goto(t, "rename", "migrate") /\ UNCHANGED <<mem, base>> /\ Goes
    BY <2>1 DEF Goto, Goes, NoAnswer, ConfigInv, Shape
  <2>2. CASE Finish(t, "rename", [op |-> cmd[t].op, written |-> mem[t]])
    <3>1. cmd[t].op # "load"
      BY <1>3 DEF SoundFor
    <3>2. answer'.op = cmd[t].op
      BY <2>2 DEF Finish
    <3> QED BY <2>2, <3>1, <3>2 DEF Finish, Goto, ConfigInv, Shape
  <2> QED BY <2>1, <2>2 DEF Rename
<1>8. WritesSound' /\ LoadedClean'
  BY <1>7 DEF ContentInv, WritesSound, LoadedClean
<1> QED BY <1>5, <1>6, <1>8 DEF ContentInv, FilesSound

(* Every step keeps what is on disk and what is about to be written sound. *)
LEMMA ContentStep == ConfigInv /\ ContentInv /\ [Next]_vars => ContentInv'
<1> SUFFICES ASSUME ConfigInv, ContentInv, [Next]_vars PROVE ContentInv'
  OBVIOUS
<1>0. {"idle", "read", "write", "legacy", "fill", "rename"} \subseteq Steps
  BY DEF Steps
<1>1. ASSUME NEW t \in Threads
      PROVE  mem = [mem EXCEPT ![t] = mem[t]] /\ cmd = [cmd EXCEPT ![t] = cmd[t]]
  BY DEF ConfigInv, Shape
<1>2. ASSUME NEW t \in Threads, Start(t) PROVE ContentInv'
  <2>1. PICK c : cmd' = [cmd EXCEPT ![t] = c]
    BY <1>2 DEF Start
  <2>2. /\ UNCHANGED files /\ answer'.op # "load" /\ pc' = [pc EXCEPT ![t] = "read"]
        /\ mem' = [mem EXCEPT ![t] = mem[t]]
    BY <1>1, <1>2 DEF Start, Goto, NoAnswer
  <2> QED BY <2>1, <2>2, <1>0, ContentStays
<1>3. ASSUME NEW t \in Threads, ReadApp(t) PROVE ContentInv'
  <2>1. /\ UNCHANGED files /\ answer'.op # "load" /\ pc' = [pc EXCEPT ![t] = "write"]
        /\ cmd' = [cmd EXCEPT ![t] = cmd[t]] /\ cmd[t].op \in AppOps
        /\ mem' = [mem EXCEPT ![t] = Changes(cmd[t], load_app_config)]
    BY <1>1, <1>3 DEF ReadApp, Goto, Goes, NoAnswer, AppOps
  <2>2. SaneApp(Changes(cmd[t], load_app_config))
    BY <2>1, SettingsSane, ChangesSane DEF ContentInv, ConfigInv, Shape
  <2>3. SoundFor(cmd[t], Changes(cmd[t], load_app_config))
    BY <2>1, <2>2 DEF SoundFor, AppOps
  <2> QED BY <2>1, <2>3, <1>0, ContentStays
<1>4. ASSUME NEW t \in Threads, SameVersion(t) PROVE ContentInv'
  <2>1. /\ UNCHANGED files /\ answer'.op # "load" /\ pc' = [pc EXCEPT ![t] = "idle"]
        /\ cmd' = [cmd EXCEPT ![t] = NoCommand] /\ mem' = [mem EXCEPT ![t] = None]
    BY <1>4 DEF SameVersion, Finish, Goto
  <2> QED BY <2>1, <1>0, ContentStays
<1>5. ASSUME NEW t \in Threads, StartSave(t) PROVE ContentInv'
  <2> DEFINE new == sanitize_file_config(cmd[t].config)
  <2>1. /\ UNCHANGED files /\ answer'.op # "load" /\ pc' = [pc EXCEPT ![t] = "write"]
        /\ cmd' = [cmd EXCEPT ![t] = cmd[t]] /\ cmd[t].op = "save"
        /\ mem' = [mem EXCEPT ![t] = new]
    BY <1>1, <1>5 DEF StartSave, Goto, Goes, NoAnswer
  <2>2. cmd[t].config \in SavedConfigs
    BY <2>1 DEF ConfigInv, Shape, CommandShape
  <2>3. Parsed(new)
    BY <2>2, ContentAssumption, SanitizedClean
  <2> HIDE DEF new
  <2>4. SoundFor(cmd[t], new)
    BY <2>1, <2>3 DEF SoundFor, AppOps
  <2> QED BY <2>1, <2>4, <1>0, ContentStays
<1>6. ASSUME NEW t \in Threads, load_config(t) PROVE ContentInv'
  <2>1. UNCHANGED files /\ cmd[t].op = "load" /\ CommandShape(cmd[t])
    BY <1>6 DEF load_config, ConfigInv, Shape
  <2>2. TargetOf(cmd[t]) \in Paths
    BY <2>1, TargetsKnown, ConfigAssumption DEF CommandShape
  <2>3. CASE Loaded(t, "read", files[TargetOf(cmd[t])])
    BY <2>1, <2>2, <2>3, LoadedContent DEF ContentInv, FilesSound
  <2>4. CASE Goto(t, "read", "legacy") /\ UNCHANGED mem /\ Goes
    <3>1. /\ answer'.op # "load" /\ pc' = [pc EXCEPT ![t] = "legacy"]
          /\ cmd' = [cmd EXCEPT ![t] = cmd[t]] /\ mem' = [mem EXCEPT ![t] = mem[t]]
      BY <1>1, <2>4 DEF Goto, Goes, NoAnswer
    <3> QED BY <2>1, <3>1, <1>0, ContentStays
  <2> QED BY <1>6, <2>3, <2>4 DEF load_config
<1>7. ASSUME NEW t \in Threads, LoadLegacy(t) PROVE ContentInv'
  <2>1. UNCHANGED files /\ Loaded(t, "legacy", files[cmd[t].path])
    BY <1>7 DEF LoadLegacy
  <2>2. cmd[t].path \in Paths
    BY <1>7 DEF LoadLegacy, ContentInv, WritesSound, ConfigInv, Shape, CommandShape
  <2> QED BY <2>1, <2>2, LoadedContent DEF ContentInv, FilesSound
<1>8. ASSUME NEW t \in Threads, CreateTemp(t) \/ FillTemp(t) PROVE ContentInv'
  <2>1. /\ UNCHANGED files /\ answer'.op # "load" /\ pc[t] \in {"write", "fill"}
        /\ cmd' = [cmd EXCEPT ![t] = cmd[t]] /\ mem' = [mem EXCEPT ![t] = mem[t]]
    BY <1>1, <1>8 DEF CreateTemp, FillTemp, Goto, Goes, NoAnswer
  <2>2. SoundFor(cmd[t], mem[t])
    BY <2>1 DEF ContentInv, WritesSound
  <2>3. PICK step \in {"fill", "rename"} : pc' = [pc EXCEPT ![t] = step]
    BY <1>8 DEF CreateTemp, FillTemp, Goto
  <2> QED BY <2>1, <2>2, <2>3, <1>0, ContentStays
<1>9. ASSUME NEW t \in Threads, WriteFails(t) PROVE ContentInv'
  <2>1. /\ UNCHANGED files /\ answer'.op # "load" /\ pc' = [pc EXCEPT ![t] = "idle"]
        /\ cmd' = [cmd EXCEPT ![t] = NoCommand] /\ mem' = [mem EXCEPT ![t] = None]
    BY <1>9 DEF WriteFails, Finish, Goto
  <2> QED BY <2>1, <1>0, ContentStays
<1>10. ASSUME NEW t \in Threads, RemoveLegacy(t) PROVE ContentInv'
  <2>1. /\ files' \in {files, [files EXCEPT ![cmd[t].path] = Absent]}
        /\ answer'.op # "load" /\ pc' = [pc EXCEPT ![t] = "idle"]
        /\ cmd' = [cmd EXCEPT ![t] = NoCommand] /\ mem' = [mem EXCEPT ![t] = None]
    BY <1>10 DEF RemoveLegacy, Finish, Goto
  <2>2. ~Usable(Absent)
    BY DEF Usable, Absent
  <2>3. \A f \in Targets : Usable(files'[f]) => files'[f] = files[f]
    BY <2>1, <2>2 DEF ConfigInv, Shape
  <2>4. FilesSound'
    BY <2>3 DEF ContentInv, FilesSound, Targets
  <2>5. WritesSound' /\ LoadedClean'
    BY <2>1 DEF ContentInv, WritesSound, LoadedClean, ConfigInv, Shape
  <2> QED BY <2>4, <2>5 DEF ContentInv
<1>11. ASSUME NEW p \in Processes, Crash(p) PROVE ContentInv'
  <2>1. /\ UNCHANGED files /\ answer'.op # "load"
        /\ \A u \in Threads : pc'[u] \in {"write", "fill", "rename", "legacy"} =>
             pc'[u] = pc[u] /\ cmd'[u] = cmd[u] /\ mem'[u] = mem[u]
    BY <1>11 DEF Crash, NoAnswer
  <2> QED BY <2>1 DEF ContentInv, FilesSound, WritesSound, LoadedClean
<1>12. CASE UNCHANGED vars
  BY <1>12 DEF vars, ContentInv, FilesSound, WritesSound, LoadedClean
<1> QED
  BY <1>2, <1>3, <1>4, <1>5, <1>6, <1>7, <1>8, <1>9, <1>10, <1>11, <1>12, RenamedContent DEF Next

(* What the frontend is given of the settings can be used as it is: the    *)
(* recent files are of distinct databases and under the cap and the menu   *)
(* shows all that exist, and what is loaded of a database names only       *)
(* preset colors and has one preset of a name, whoever wrote the files     *)
(* (config.rs, push_recent_file, get_recent_files, sanitize_file_config).  *)
THEOREM SettingsAlwaysClean == Spec => []SettingsClean
<1>1. ContentInv => SettingsClean
  <2> SUFFICES ASSUME ContentInv PROVE SettingsClean
    OBVIOUS
  <2>1. RecentsSane
    <3> SUFFICES ASSUME Usable(files[App]) PROVE RecentsSane
      BY DEF RecentsSane
    <3> DEFINE recent == files[App].config.recent_files
               menu(p) == get_recent_files(files[App].config, Paths \ {p})
    <3>1. SaneRecents(recent)
      BY DEF ContentInv, FilesSound, SaneApp
    <3>2. ASSUME NEW p \in Paths
          PROVE  {menu(p)[i] : i \in DOMAIN menu(p)} = {recent[i] : i \in DOMAIN recent} \ {p}
      <4>1. menu(p) = Kept(Truncated(recent, RECENT_FILES_MAX), Paths \ {p})
        BY DEF get_recent_files
      <4> HIDE DEF recent, menu
      <4>2. Held(menu(p)) = Held(recent) \cap (Paths \ {p})
        BY <3>1, <4>1, MenuRight
      <4>3. Held(recent) \in SUBSET Paths
        BY <3>1, RecentsListed DEF Held
      <4> QED BY <4>2, <4>3 DEF Held
    <3> QED BY <3>1, <3>2 DEF RecentsSane
  <2> QED BY <2>1 DEF ContentInv, SettingsClean
<1>2. Spec => []ContentInv
  BY ContentInit, ContentStep, ConfigAlways, PTL DEF Spec
<1> QED BY <1>1, <1>2, PTL
=============================================================================
