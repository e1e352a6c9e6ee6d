---------------------------- MODULE ConfigStore ----------------------------
(***************************************************************************)
(* The configuration files of dblitz (src-tauri/src/config.rs): app.json,  *)
(* shared by every window, and one file per database, named by a hash of   *)
(* its normalized path.  Commands run on threads of several processes and  *)
(* take no lock: each reads a file, changes the value in memory and        *)
(* replaces the file through a temp file and a rename.  A process may die  *)
(* between any two of these steps.                                         *)
(*                                                                         *)
(* Temp files are told apart by the thread that writes them: their names   *)
(* carry the process and a time stamp, which is taken to differ between    *)
(* the writes of one process that are in flight at the same time.          *)
(***************************************************************************)
EXTENDS Naturals, Sequences, Listings

CONSTANTS
  Threads, Process,    \* command threads, and [Threads -> the process of each]
  Paths,               \* spellings of database paths
  normalize,           \* normalize_path_key: [Paths -> Paths]
  Dirs, Blank,         \* export directories, and a blank one
  Versions,
  SavedConfigs,        \* view configurations the frontend saves
  OldConfigs, OldApps, \* contents of the files of earlier versions, hand-edited or not
  TINT_PRESETS, COLUMN_COLOR_PRESETS,
  trim,                \* preset names: [names -> trimmed, then cut to LABEL_MAX_LEN]
  NoName,              \* the blank name
  LABEL_MAX_LEN, RECENT_FILES_MAX,
  None,
  MaxFaults, MaxCommands

Processes == {Process[t] : t \in Threads}
App == "app.json"

ASSUME ConfigAssumption ==
  /\ normalize \in [Paths -> Paths]
  /\ \A p \in Paths : normalize[normalize[p]] = normalize[p]
  /\ LABEL_MAX_LEN \in Nat /\ RECENT_FILES_MAX \in Nat \ {0}
  /\ None \notin TINT_PRESETS /\ App \notin Paths
  /\ \A n \in DOMAIN trim : trim[n] \in DOMAIN trim

---------------------------------------------------------------------------
(* A FileConfig: the window marker, and of every table the column colors   *)
(* and the column presets; the other fields pass through unchanged.  A     *)
(* label is its length.                                                    *)

sanitize_tint(tint) == IF tint \in TINT_PRESETS THEN tint ELSE None

sanitize_label(label) == IF label > LABEL_MAX_LEN THEN LABEL_MAX_LEN ELSE label

sanitize_column_colors(colors) ==
  [c \in {d \in DOMAIN colors : colors[d] \in COLUMN_COLOR_PRESETS} |-> colors[c]]

(* Presets with a blank name or without columns go, and so does every      *)
(* later one of the same name.                                             *)
PresetNamed(preset) == trim[preset.name] # NoName /\ preset.columns # {}

KeepAllPresets(presets) ==   \* mutant: presets of one name are all kept
  LET kept == SelectSeq(presets, PresetNamed)
  IN [i \in DOMAIN kept |-> [kept[i] EXCEPT !.name = trim[@]]]

sanitize_column_presets(presets) ==
  LET first == {i \in DOMAIN presets :
                  /\ PresetNamed(presets[i])
                  /\ \A j \in 1 .. i - 1 :
                       PresetNamed(presets[j]) => trim[presets[j].name] # trim[presets[i].name]}
      order == Ascending(first)
  IN [k \in DOMAIN order |-> [presets[order[k]] EXCEPT !.name = trim[@]]]

sanitize_file_config(config) ==
  [tint |-> sanitize_tint(config.tint), label |-> sanitize_label(config.label),
   colors |-> sanitize_column_colors(config.colors),
   presets |-> sanitize_column_presets(config.presets)]

DefaultFileConfig == [tint |-> None, label |-> 0, colors |-> <<>>, presets |-> <<>>]

---------------------------------------------------------------------------
(* app.json and the commands that change it.                               *)

AppConfig == [recent_files : Seq(Paths), export_dir : Dirs \cup {None},
              check_for_updates : BOOLEAN, last_run_version : Versions \cup {None}]
DefaultAppConfig == [recent_files |-> <<>>, export_dir |-> None,
                     check_for_updates |-> TRUE, last_run_version |-> None]

Truncated(s, n) == SubSeq(s, 1, IF Len(s) < n THEN Len(s) ELSE n)

OtherThan(p) == {q \in Paths : normalize[q] # normalize[p]}

PushTruncatedFirst(app, p) ==   \* mutant: the list is cut before the path is put in front
  [app EXCEPT !.recent_files =
     <<p>> \o Truncated(Kept(@, OtherThan(p)), RECENT_FILES_MAX)]

push_recent_file(app, p) ==
  [app EXCEPT !.recent_files =
     Truncated(<<p>> \o Kept(@, OtherThan(p)), RECENT_FILES_MAX)]

clear_recent_files(app) == [app EXCEPT !.recent_files = <<>>]
SetDirFromDefaults(app, dir) ==   \* mutant: the other settings are not read first
  [DefaultAppConfig EXCEPT !.export_dir = IF dir = Blank THEN None ELSE dir]

set_export_dir(app, dir) == [app EXCEPT !.export_dir = IF dir = Blank THEN None ELSE dir]
set_check_for_updates(app, on) == [app EXCEPT !.check_for_updates = on]
record_run_version(app, v) == [app EXCEPT !.last_run_version = v]

(* What the recent-files menu lists: the cap applies before the filter.    *)
get_recent_files(app, existing) ==
  Kept(Truncated(app.recent_files, RECENT_FILES_MAX), existing)

Changes(cmd, app) ==
  CASE cmd.op = "push"    -> push_recent_file(app, cmd.path)
    [] cmd.op = "clear"   -> clear_recent_files(app)
    [] cmd.op = "dir"     -> set_export_dir(app, cmd.dir)
    [] cmd.op = "updates" -> set_check_for_updates(app, cmd.on)
    [] cmd.op = "version" -> record_run_version(app, cmd.version)

AppCommands == [op : {"push"}, path : Paths] \cup [op : {"clear"}]
  \cup [op : {"dir"}, dir : Dirs \cup {Blank}] \cup [op : {"updates"}, on : {FALSE}]
VersionCommands == [op : {"version"}, version : Versions]
FileCommands == [op : {"save"}, path : Paths, config : SavedConfigs]
  \cup [op : {"load"}, path : Paths]
NoCommand == [op |-> "none"]

(* Recent files of distinct databases, no more than the cap.               *)
SaneRecents(recent) ==
  /\ recent \in Seq(Paths) /\ Len(recent) <= RECENT_FILES_MAX
  /\ \A i, j \in DOMAIN recent : normalize[recent[i]] = normalize[recent[j]] => i = j

(* Whatever parses as a file's configuration has a label of some length    *)
(* and presets with names.                                                 *)
Parsed(config) ==
  /\ config.label \in Nat
  /\ Len(config.presets) \in Nat /\ DOMAIN config.presets = 1 .. Len(config.presets)
  /\ \A i \in DOMAIN config.presets : /\ "name" \in DOMAIN config.presets[i]
                                      /\ config.presets[i].name \in DOMAIN trim

(* The recent files that earlier versions left went through                *)
(* push_recent_file too, under the same cap.                               *)
ASSUME ContentAssumption ==
  /\ \A app \in OldApps : app \in AppConfig /\ SaneRecents(app.recent_files)
  /\ \A config \in SavedConfigs \cup OldConfigs : Parsed(config)

---------------------------------------------------------------------------
Targets == {App} \cup Paths   \* the file of a key is called by the key
TargetOf(cmd) == IF cmd.op \in {"save", "load"} THEN normalize[cmd.path] ELSE App

(* What a file holds: nothing that can be parsed, or a configuration.      *)
Absent == [is |-> "absent"]
Corrupt == [is |-> "corrupt"]
Torn == [is |-> "torn"]
Whole(config) == [is |-> "whole", config |-> config]
Usable(content) == content.is = "whole"

VARIABLES
  files,     \* [Targets -> Absent, Corrupt, Torn or Whole(a configuration)]
  temp,      \* each thread's temp file
  stranded,  \* temp files of dead processes
  pc, cmd,
  mem,       \* the value a thread is about to write
  base,      \* what app.json held when it read it; for a load, what the old key held
  launched,  \* processes that have recorded their version
  answer,    \* what this step answers, to load or save
  faults, commands

vars == <<files, temp, stranded, pc, cmd, mem, base, launched, answer, faults, commands>>
NoAnswer == [op |-> "none"]

Init ==
  /\ \E app \in {Whole(c) : c \in OldApps} \cup {Absent, Corrupt},
        old \in [Paths -> {Whole(c) : c \in OldConfigs} \cup {Absent}] :
       files = [f \in Targets |-> IF f = App THEN app ELSE old[f]]
  /\ temp = [t \in Threads |-> Absent] /\ stranded = {}
  /\ pc = [t \in Threads |-> "idle"] /\ cmd = [t \in Threads |-> NoCommand]
  /\ mem = [t \in Threads |-> None] /\ base = [t \in Threads |-> None]
  /\ launched = {} /\ answer = NoAnswer
  /\ faults = 0 /\ commands = 0

Goto(t, from, to) == pc[t] = from /\ pc' = [pc EXCEPT ![t] = to]

Finish(t, from, given) ==
  /\ Goto(t, from, "idle")
  /\ cmd' = [cmd EXCEPT ![t] = NoCommand]
  /\ mem' = [mem EXCEPT ![t] = None] /\ base' = [base EXCEPT ![t] = None]
  /\ answer' = given
  /\ launched' = IF cmd[t].op = "version" THEN launched \cup {Process[t]} ELSE launched
  /\ UNCHANGED <<stranded, commands>>

Goes == UNCHANGED <<stranded, cmd, launched, commands>> /\ answer' = NoAnswer

(* A process records its version first, in the setup of its launch, and    *)
(* runs commands after that.                                               *)
Start(t) ==
  /\ commands < MaxCommands /\ commands' = commands + 1
  /\ Goto(t, "idle", "read")
  /\ \E c \in VersionCommands \cup AppCommands \cup FileCommands :
       /\ (c.op = "version") = (Process[t] \notin launched)
       /\ c.op = "version" => \A u \in Threads : Process[u] = Process[t] => pc[u] = "idle"
       /\ cmd' = [cmd EXCEPT ![t] = c]
  /\ UNCHANGED <<files, temp, stranded, mem, base, launched, faults>> /\ answer' = NoAnswer

(* load_app_config: absent, unreadable and unparseable all give defaults.  *)
load_app_config == IF Usable(files[App]) THEN files[App].config ELSE DefaultAppConfig

ReadApp(t) ==
  /\ cmd[t].op \in {"push", "clear", "dir", "updates", "version"}
  /\ Goto(t, "read", "write")
  /\ ~(cmd[t].op = "version" /\ load_app_config.last_run_version = cmd[t].version)
  /\ base' = [base EXCEPT ![t] = files[App]]
  /\ mem' = [mem EXCEPT ![t] = Changes(cmd[t], load_app_config)]
  /\ UNCHANGED <<files, temp, faults>> /\ Goes

(* The build that ran last runs again: nothing is written.                 *)
SameVersion(t) ==
  /\ cmd[t].op = "version" /\ load_app_config.last_run_version = cmd[t].version
  /\ Finish(t, "read", [op |-> "version", previous |-> cmd[t].version])
  /\ UNCHANGED <<files, temp, faults>>

LegacyLeft(t) ==
  /\ cmd[t].op = "save" /\ cmd[t].path # TargetOf(cmd[t])
  /\ files[cmd[t].path] # Absent

MigrateFirst(t) ==   \* mutant: the file of the old key is removed before the new one is in place
  /\ cmd[t].op = "save"
  /\ Goto(t, "read", "write")
  /\ mem' = [mem EXCEPT ![t] = sanitize_file_config(cmd[t].config)]
  /\ files' = IF LegacyLeft(t) THEN [files EXCEPT ![cmd[t].path] = Absent] ELSE files
  /\ UNCHANGED <<temp, base, faults>> /\ Goes

(* save_config reads nothing.                                              *)
StartSave(t) ==
  /\ cmd[t].op = "save"
  /\ Goto(t, "read", "write")
  /\ mem' = [mem EXCEPT ![t] = sanitize_file_config(cmd[t].config)]
  /\ UNCHANGED <<files, temp, base, faults>> /\ Goes

(* load_config: the normalized key, then the key of earlier versions.      *)
Loaded(t, from, content) ==
  Finish(t, from, [op |-> "load", path |-> cmd[t].path,
                   config |-> IF Usable(content) THEN sanitize_file_config(content.config)
                              ELSE DefaultFileConfig])

load_config(t) ==
  /\ cmd[t].op = "load"
  /\ LET path == TargetOf(cmd[t]) legacy == cmd[t].path
     IN IF Usable(files[path]) \/ legacy = path
        THEN Loaded(t, "read", files[path])
        ELSE /\ Goto(t, "read", "legacy")
             /\ base' = [base EXCEPT ![t] = files[legacy]]
             /\ UNCHANGED mem /\ Goes
  /\ UNCHANGED <<files, temp, faults>>

LoadLegacy(t) ==
  /\ pc[t] = "legacy"
  /\ Loaded(t, "legacy", files[cmd[t].path])
  /\ UNCHANGED <<files, temp, faults>>

---------------------------------------------------------------------------
(* atomic_write: the temp file is created, filled, renamed over the target.*)

WriteInPlace(t) ==   \* mutant: the target itself is opened and truncated
  /\ Goto(t, "write", "fill")
  /\ temp' = [temp EXCEPT ![t] = Torn]
  /\ files' = [files EXCEPT ![TargetOf(cmd[t])] = Torn]
  /\ UNCHANGED <<mem, base, faults>> /\ Goes

CreateTemp(t) ==
  /\ Goto(t, "write", "fill")
  /\ temp' = [temp EXCEPT ![t] = Torn]
  /\ UNCHANGED <<files, mem, base, faults>> /\ Goes

FillTemp(t) ==
  /\ Goto(t, "fill", "rename")
  /\ temp' = [temp EXCEPT ![t] = Whole(mem[t])]
  /\ UNCHANGED <<files, mem, base, faults>> /\ Goes

FailAndLeaveTemp(t) ==   \* mutant: a failed write returns without removing its temp file
  /\ faults < MaxFaults /\ faults' = faults + 1
  /\ pc[t] \in {"fill", "rename"}
  /\ Finish(t, pc[t], [op |-> "error"])
  /\ UNCHANGED <<files, temp>>

(* A write or a rename that fails removes the temp file and is reported.   *)
WriteFails(t) ==
  /\ faults < MaxFaults /\ faults' = faults + 1
  /\ pc[t] \in {"fill", "rename"}
  /\ Finish(t, pc[t], [op |-> "error"])
  /\ temp' = [temp EXCEPT ![t] = Absent]
  /\ UNCHANGED <<files>>

Renames(t) ==
  /\ files' = [files EXCEPT ![TargetOf(cmd[t])] = temp[t]]
  /\ temp' = [temp EXCEPT ![t] = Absent]
  /\ UNCHANGED <<launched, faults>>

Rename(t) ==
  /\ pc[t] = "rename" /\ Renames(t)
  /\ IF LegacyLeft(t)
     THEN Goto(t, "rename", "migrate") /\ UNCHANGED <<mem, base>> /\ Goes
     ELSE Finish(t, "rename", [op |-> cmd[t].op, written |-> mem[t]])

(* The file under the old key is stale now; it may resist removal.         *)
RemoveLegacy(t) ==
  /\ pc[t] = "migrate"
  /\ files' \in {files, [files EXCEPT ![cmd[t].path] = Absent]}
  /\ Finish(t, "migrate", [op |-> "save", written |-> mem[t]])
  /\ UNCHANGED <<temp, faults>>

(* The process dies; its temp files stay.                                  *)
Crash(p) ==
  LET dead == {t \in Threads : Process[t] = p}
  IN /\ faults < MaxFaults /\ faults' = faults + 1
     /\ launched' = launched \ {p}
     /\ \E t \in dead : pc[t] # "idle"
     /\ stranded' = stranded \cup ({temp[t] : t \in dead} \ {Absent})
     /\ temp' = [t \in Threads |-> IF t \in dead THEN Absent ELSE temp[t]]
     /\ pc' = [t \in Threads |-> IF t \in dead THEN "idle" ELSE pc[t]]
     /\ cmd' = [t \in Threads |-> IF t \in dead THEN NoCommand ELSE cmd[t]]
     /\ mem' = [t \in Threads |-> IF t \in dead THEN None ELSE mem[t]]
     /\ base' = [t \in Threads |-> IF t \in dead THEN None ELSE base[t]]
     /\ answer' = NoAnswer
     /\ UNCHANGED <<files, commands>>

Next ==
  \/ \E t \in Threads :
       \/ Start(t) \/ ReadApp(t) \/ SameVersion(t) \/ StartSave(t)
       \/ load_config(t) \/ LoadLegacy(t)
       \/ CreateTemp(t) \/ FillTemp(t) \/ WriteFails(t) \/ Rename(t) \/ RemoveLegacy(t)
  \/ \E p \in Processes : Crash(p)

Spec == Init /\ [][Next]_vars

---------------------------------------------------------------------------
(* No file is ever seen half written, whoever dies while writing           *)
(* (config.rs:145-152).                                                    *)
FilesWhole == \A f \in Targets : files[f] # Torn

(* The recent files are of distinct databases and no more than the cap,    *)
(* although the writers of two windows overwrite each other, and the menu  *)
(* shows those that exist, no recent one left out.                         *)
RecentsSane ==
  Usable(files[App]) =>
    LET recent == files[App].config.recent_files
    IN /\ SaneRecents(recent)
       /\ \A p \in Paths : LET menu == get_recent_files(files[App].config, Paths \ {p})
                         IN {menu[i] : i \in DOMAIN menu} = {recent[i] : i \in DOMAIN recent} \ {p}

(* Whatever is saved of a database, or was saved by an earlier version, is *)
(* on disk under one of its two keys at every moment of a migration.       *)
ConfigSurvives ==
  [][\A p \in Paths :
       Usable(files[p]) \/ Usable(files[normalize[p]])
         => Usable(files'[p]) \/ Usable(files'[normalize[p]])]_vars

(* A command that nobody overtook between its read and its rename changes  *)
(* its own setting only; a corrupt file starts from the defaults.          *)
SettingOf(op) == [push |-> "recent_files", clear |-> "recent_files", dir |-> "export_dir",
                  updates |-> "check_for_updates", version |-> "last_run_version"][op]

OwnSettingOnly ==
  [][\A t \in Threads :
       (files'[App] # files[App] /\ pc[t] = "rename" /\ pc'[t] = "idle" /\ files[App] = base[t]) =>
         LET before == load_app_config
         IN \A field \in DOMAIN before \ {SettingOf(cmd[t].op)} :
              files'[App].config[field] = before[field]]_vars

(* Temp files are collected on every path but a crash.                     *)
TempsCollected == \A t \in Threads : pc[t] = "idle" => temp[t] = Absent

(* A write replaces a file as a whole and leaves nothing beside it         *)
(* (config.rs:145-165).                                                    *)
WritesClean == FilesWhole /\ TempsCollected

(* What the frontend loads is clean, whoever wrote the file: the colors it *)
(* puts into style attributes are presets, and no two column presets of a  *)
(* table share a name.                                                     *)
LoadedClean ==
  answer.op = "load" =>
    LET c == answer.config
    IN /\ c.tint \in TINT_PRESETS \cup {None} /\ c.label <= LABEL_MAX_LEN
       /\ \A col \in DOMAIN c.colors : c.colors[col] \in COLUMN_COLOR_PRESETS
       /\ \A i, j \in DOMAIN c.presets : c.presets[i].name = c.presets[j].name => i = j

(* What the frontend is given of the settings can be used as it is.        *)
SettingsClean == RecentsSane /\ LoadedClean

(* An upgrade does not reset the saved views (config.rs:335-339): a load   *)
(* that begins with a configuration on disk finds one.                     *)
UpgradeKeepsViews ==
  [][\A t \in Threads :
       (pc[t] = "legacy" /\ answer'.op = "load" /\ pc'[t] = "idle" /\ Usable(base[t]))
         => Usable(files[cmd[t].path])]_vars
=============================================================================
