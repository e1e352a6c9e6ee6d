---------------------------- MODULE OpenRequests ----------------------------
(***************************************************************************)
(* From "open this file" to a file on screen: the requests of the system   *)
(* before and after the page has mounted (launch.rs, +page.svelte), the    *)
(* frontend's queue of open and close requests with its generation, and    *)
(* its queue of saves (store.svelte.ts), the commands they send            *)
(* (commands.rs), and the marker of the window by which a later launch     *)
(* finds it (platform/windows.rs).  The page's tasks run on one thread and *)
(* interleave with the commands, with the user and with the system at      *)
(* every await.                                                            *)
(*                                                                         *)
(* The view settings of a file are the set of edits they hold.             *)
(***************************************************************************)
EXTENDS Naturals, Sequences, FiniteSets, SequencesExt

CONSTANTS
  Paths, None,
  Casts        \* sets of budgets: how often each outside actor acts

\* A cast: the system, its launch argument, and the most files the system
\* names, launches elsewhere, requests of the user, edits and lost saves.
ASSUME CastAssumption ==
  /\ None \notin Paths
  /\ \A c \in Casts :
       /\ c.macos \in BOOLEAN /\ c.argument \in Paths \cup {None}
       /\ {c.names, c.launches, c.requests, c.edits, c.faults} \subseteq Nat

VARIABLES
  cast,
  \* launch: PendingOpen, the page's mount sequence, the messages to the page
  stash, webview_ready, mount, emitted, initial,
  named,       \* [path, opened] of every file the system named
  replaced,    \* those another one took the place of in the stash
  \* store: the generation, the queue (its head runs), how far the head is
  generation, queue, phase, last,
  shown,       \* dbPath and the session its tables and columns come from
  fileConfig, loading, error,
  loaded, described,     \* what the running open has read so far
  saves,
  \* backend: the open file and its session, the saved settings, the marker
  backend, session, disk, marker,
  \* history
  madeOn,      \* the file every edit was made on
  outdated,    \* edits missing in a save that failed or a configuration shown
  unpublished, \* the backend was changed by a request that showed nothing
  raised,      \* launches that left it to this window
  left         \* how often each outside actor may still act

launchVars  == <<stash, webview_ready, mount, emitted, initial, named, replaced>>
requestVars == <<generation, queue, phase, last>>
pageVars    == <<shown, fileConfig, loading, error, loaded, described>>
saveVars    == <<saves, disk, madeOn, outdated>>
backendVars == <<backend, session, marker>>
otherVars   == <<cast, unpublished, raised, left>>
vars == <<launchVars, requestVars, pageVars, saveVars, backendVars, otherVars>>

NoFile == [path |-> None, session |-> 0]
Spend(actor) == /\ left[actor] > 0
                /\ left' = [left EXCEPT ![actor] = @ - 1]

Init ==
  /\ cast \in Casts
  /\ left = [names |-> cast.names, launches |-> cast.launches, requests |-> cast.requests,
             edits |-> cast.edits, faults |-> cast.faults]
  /\ stash = 0 /\ webview_ready = FALSE /\ mount = "listen" /\ emitted = <<>> /\ initial = 0
  /\ named = IF cast.argument = None THEN <<>> ELSE <<[path |-> cast.argument, opened |-> 0]>>
  /\ replaced = {}
  /\ generation = 0 /\ queue = <<>> /\ phase = "start" /\ last = [op |-> "none", path |-> None]
  /\ shown = NoFile /\ fileConfig = {} /\ loading = FALSE /\ error = None
  /\ loaded = {} /\ described = NoFile
  /\ saves = <<>> /\ madeOn = <<>> /\ outdated = {}
  /\ disk = [p \in Paths |-> {}]
  /\ backend = NoFile /\ session = 0 /\ marker = None
  /\ unpublished = FALSE /\ raised = 0

---------------------------------------------------------------------------
(* store.svelte.ts: a request takes a generation when it is called and     *)
(* waits for its turn in the queue.                                        *)

openDatabase(path) ==
  /\ generation' = generation + 1
  /\ loading' = TRUE /\ error' = None
  /\ queue' = Append(queue, [op |-> "open", path |-> path, request |-> generation + 1])
  /\ last' = [op |-> "open", path |-> path]
  /\ UNCHANGED <<phase, shown, fileConfig, loaded, described>>

closeDatabase ==
  /\ generation' = generation + 1
  /\ loading' = TRUE
  /\ queue' = Append(queue, [op |-> "close", path |-> None, request |-> generation + 1])
  /\ last' = [op |-> "close", path |-> None]
  /\ UNCHANGED <<phase, shown, fileConfig, error, loaded, described>>

User ==
  /\ Spend("requests")
  /\ closeDatabase \/ \E p \in Paths : openDatabase(p)
  /\ UNCHANGED <<launchVars, saveVars, backendVars, cast, unpublished, raised>>

Running == queue # <<>>
Request == Head(queue)
Superseded == Request.request # generation
Finish == queue' = Tail(queue) /\ phase' = "start"
Proceed(next) == phase' = next /\ UNCHANGED queue
QuietPage == UNCHANGED <<generation, last, launchVars, saveVars, shown, fileConfig, error,
                         loading, cast, raised, left>>

(* A superseded open does nothing; a superseded close still closes.        *)
Start ==
  /\ Running /\ phase = "start"
  /\ IF Request.op = "open"
     THEN IF Superseded THEN Finish ELSE Proceed("opening")
     ELSE Proceed("closing")
  /\ QuietPage
  /\ UNCHANGED <<loaded, described, backendVars, unpublished>>

(* The commands open_database and close_database: the file changes, then   *)
(* the window's title and marker.  A failed open changes nothing.          *)
OpenCommand ==
  /\ Running /\ phase = "opening"
  /\ \/ /\ backend' = [path |-> Request.path, session |-> session + 1]
        /\ session' = session + 1
        /\ unpublished' = TRUE
        /\ Proceed("marking")
     \/ /\ Proceed("failed")
        /\ UNCHANGED <<backend, session, unpublished>>
  /\ QuietPage
  /\ UNCHANGED <<loaded, described, marker>>

CloseCommand ==
  /\ Running /\ phase = "closing"
  /\ backend' = NoFile
  /\ unpublished' = TRUE
  /\ Proceed("marking")
  /\ QuietPage
  /\ UNCHANGED <<loaded, described, session, marker>>

MarkOpensOnly ==   \* mutant: the marker survives a close
  IF Request.op = "open" THEN Request.path ELSE marker

set_window_db_marker == Request.path

Mark ==
  /\ Running /\ phase = "marking"
  /\ marker' = set_window_db_marker
  /\ Proceed(IF Request.op = "open" THEN "opened" ELSE "closed")
  /\ QuietPage
  /\ UNCHANGED <<loaded, described, backend, session, unpublished>>

ReportAlways(p) ==   \* mutant: the error of a superseded request is shown too
  error' = p /\ (IF Superseded THEN UNCHANGED loading ELSE loading' = FALSE)

Reported(p) ==
  IF Superseded THEN UNCHANGED <<error, loading>> ELSE error' = p /\ loading' = FALSE

NothingShown == shown' = NoFile   \* mutant: a failed open clears the page
PageStays == UNCHANGED shown

Failed ==
  /\ Running /\ phase = "failed"
  /\ Reported(Request.path)
  /\ PageStays
  /\ Finish
  /\ UNCHANGED <<generation, last, launchVars, saveVars, fileConfig, loaded, described,
                 backendVars, otherVars>>

Opened ==
  /\ Running /\ phase = "opened"
  /\ IF Superseded THEN Finish ELSE Proceed("config")
  /\ QuietPage
  /\ UNCHANGED <<loaded, described, backendVars, unpublished>>

(* load_view_config: the settings of the file the backend has open.        *)
SettingsOfShown ==   \* mutant: the settings of the file the page shows
  IF shown.path = None THEN {} ELSE disk[shown.path]

load_view_config == IF backend.path = None THEN {} ELSE disk[backend.path]

LoadConfig ==
  /\ Running /\ phase = "config"
  /\ loaded' = load_view_config
  /\ Proceed("loaded")
  /\ QuietPage
  /\ UNCHANGED <<described, backendVars, unpublished>>

Loaded ==
  /\ Running /\ phase = "loaded"
  /\ IF Superseded THEN Finish ELSE Proceed("columns")
  /\ QuietPage
  /\ UNCHANGED <<loaded, described, backendVars, unpublished>>

(* get_columns of every table, and sql_engine.                             *)
Describe ==
  /\ Running /\ phase = "columns"
  /\ described' = backend
  /\ Proceed("described")
  /\ QuietPage
  /\ UNCHANGED <<loaded, backendVars, unpublished>>

Publish ==
  /\ Running /\ phase = "described"
  /\ Finish
  /\ IF Superseded
     THEN UNCHANGED <<shown, fileConfig, loading, unpublished, outdated>>
     ELSE /\ shown' = [path |-> Request.path, session |-> described.session]
          /\ fileConfig' = loaded
          /\ loading' = FALSE /\ unpublished' = FALSE
          /\ outdated' = outdated
               \cup {n \in DOMAIN madeOn : madeOn[n] = Request.path /\ n \notin loaded}
  /\ UNCHANGED <<generation, last, launchVars, saves, disk, madeOn, error, loaded, described,
                 backendVars, cast, raised, left>>

LoadingStays == UNCHANGED loading   \* mutant: a close leaves the spinner on
LoadingOver == loading' = FALSE

Closed ==
  /\ Running /\ phase = "closed"
  /\ Finish
  /\ IF Superseded
     THEN UNCHANGED <<shown, fileConfig, loading, unpublished>>
     ELSE shown' = NoFile /\ fileConfig' = {} /\ LoadingOver /\ unpublished' = FALSE
  /\ UNCHANGED <<generation, last, launchVars, saveVars, error, loaded, described, backendVars,
                 cast, raised, left>>

RunRequest == \/ Start \/ OpenCommand \/ CloseCommand \/ Mark \/ Failed \/ Opened
              \/ LoadConfig \/ Loaded \/ Describe \/ Publish \/ Closed

---------------------------------------------------------------------------
(* The saves: every edit of the shown file queues a copy of its settings   *)
(* with the path they belong to, and the next save starts when the         *)
(* previous one is through.  The frontend sends save_view_config, which    *)
(* stores the settings of the path it is given.                            *)

saveViewConfig(config) ==
  saves' = IF shown.path = None THEN saves
           ELSE Append(saves, [path |-> shown.path, edits |-> config])

Edit ==
  /\ shown.path # None
  /\ Spend("edits")
  /\ madeOn' = Append(madeOn, shown.path)
  /\ fileConfig' = fileConfig \cup {Len(madeOn) + 1}
  /\ saveViewConfig(fileConfig')
  /\ UNCHANGED <<launchVars, requestVars, shown, loading, error, loaded, described, disk,
                 outdated, backendVars, cast, unpublished, raised>>

save_view_config(save) == disk' = [disk EXCEPT ![save.path] = save.edits]

SaveAnyOrder == DOMAIN saves   \* mutant: saves are sent at once and land in any order
SaveTurns == {i \in DOMAIN saves : i = 1}

SaveLands == \E i \in SaveTurns :
  /\ saves' = RemoveAt(saves, i)
  /\ save_view_config(saves[i])
  /\ UNCHANGED <<launchVars, requestVars, pageVars, madeOn, outdated, backendVars, otherVars>>

SaveFails == \E i \in SaveTurns :
  /\ Spend("faults")
  /\ saves' = RemoveAt(saves, i)
  /\ outdated' = outdated \cup saves[i].edits
  /\ UNCHANGED <<launchVars, requestVars, pageVars, disk, madeOn, backendVars, cast,
                 unpublished, raised>>

---------------------------------------------------------------------------
(* Launching.  On macOS the system names files at any time: until the page *)
(* listens they are stashed, one at a time, and then emitted.  The launch  *)
(* argument is the first named file.                                       *)

DeliverBothWays(n) ==   \* mutant: a file is stashed and emitted
  /\ emitted' = (IF mount = "listen" THEN emitted ELSE Append(emitted, n))
  /\ stash' = (IF webview_ready THEN stash ELSE n)
  /\ replaced' = IF stash = 0 \/ webview_ready THEN replaced ELSE replaced \cup {stash}

deliver(n) ==
  IF webview_ready
  THEN emitted' = (IF mount = "listen" THEN emitted ELSE Append(emitted, n)) /\ UNCHANGED <<stash, replaced>>
  ELSE /\ stash' = n
       /\ replaced' = IF stash = 0 THEN replaced ELSE replaced \cup {stash}
       /\ UNCHANGED emitted

handle_open_request == \E p \in Paths :
  /\ cast.macos
  /\ Spend("names")
  /\ named' = Append(named, [path |-> p, opened |-> 0])
  /\ deliver(Len(named) + 1)
  /\ UNCHANGED <<webview_ready, mount, initial, requestVars, pageVars, saveVars, backendVars,
                 cast, unpublished, raised>>

Listen ==
  /\ mount = "listen"
  /\ mount' = "ask"
  /\ UNCHANGED <<stash, webview_ready, emitted, initial, named, replaced, requestVars, pageVars,
                 saveVars, backendVars, otherVars>>

(* get_initial_file: the stash, else the launch argument.                  *)
launch_argument == IF cast.argument = None THEN 0 ELSE 1

take_initial ==
  /\ mount = "ask"
  /\ webview_ready' = TRUE
  /\ initial' = IF stash # 0 THEN stash ELSE launch_argument
  /\ replaced' = IF stash # 0 /\ launch_argument # 0 THEN replaced \cup {launch_argument} ELSE replaced
  /\ stash' = 0
  /\ mount' = "answered"
  /\ UNCHANGED <<emitted, named, requestVars, pageVars, saveVars, backendVars, otherVars>>

handleOpenFile(n) ==
  /\ named' = [named EXCEPT ![n].opened = @ + 1]
  /\ openDatabase(named[n].path)

OpenInitial ==
  /\ mount = "answered"
  /\ mount' = "mounted"
  /\ IF initial = 0 THEN UNCHANGED <<named, requestVars, pageVars>> ELSE handleOpenFile(initial)
  /\ UNCHANGED <<stash, webview_ready, emitted, initial, replaced, saveVars, backendVars,
                 otherVars>>

OpenEmitted ==
  /\ emitted # <<>>
  /\ emitted' = Tail(emitted)
  /\ handleOpenFile(Head(emitted))
  /\ UNCHANGED <<stash, webview_ready, mount, initial, replaced, saveVars, backendVars, otherVars>>

(* Windows: a launch with a file looks for a window that carries the       *)
(* file's marker, raises it and ends.                                      *)
try_activate_existing == \E p \in Paths :
  /\ ~cast.macos
  /\ marker = p
  /\ Spend("launches")
  /\ raised' = raised + 1
  /\ UNCHANGED <<launchVars, requestVars, pageVars, saveVars, backendVars, cast, unpublished>>

System == handle_open_request \/ Listen \/ take_initial \/ OpenInitial \/ OpenEmitted
Next == User \/ RunRequest \/ Edit \/ SaveLands \/ SaveFails \/ System \/ try_activate_existing
Spec == Init /\ [][Next]_vars

---------------------------------------------------------------------------
(* When no request is running, the page shows the file and the very        *)
(* session the backend has open (store.svelte.ts:94).  The one exception   *)
(* is what the superseding of requests leaves: a request changed the       *)
(* backend, was superseded before it showed anything, and the request that *)
(* superseded it failed, which the user is told.                           *)
ShownIsOpen ==
  ~Running => \/ shown = backend /\ ~unpublished
              \/ unpublished /\ error # None /\ last.path = error

(* Of several requests the last one decides: when none is running, its     *)
(* file is shown and no error, or its own error is, or nothing is shown    *)
(* after a close (store.svelte.ts:96).                                     *)
LastRequestWins ==
  ~Running /\ generation > 0 =>
    /\ last.op = "open" => \/ shown.path = last.path /\ error = None
                           \/ error = last.path
    /\ last.op = "close" => shown = NoFile

(* Requests that supersede each other end as if only the last had been made. *)
LastRequestShown == ShownIsOpen /\ LastRequestWins

(* The settings of a file hold what was changed while that file was shown, *)
(* on disk, on screen and in every save on its way, however requests and   *)
(* saves interleave (commands.rs:308).                                     *)
SettingsStayWithFile ==
  /\ \A p \in Paths : \A n \in disk[p] : madeOn[n] = p
  /\ \A n \in fileConfig : madeOn[n] = shown.path
  /\ \A i \in DOMAIN saves : \A n \in saves[i].edits : madeOn[n] = saves[i].path

(* A change of the settings is on disk or on its way there: an older       *)
(* snapshot never undoes it (store.svelte.ts:198).  It is lost only when   *)
(* its save failed, or when a reopened file is shown with settings that    *)
(* were read before the change had landed.                                 *)
EditsKept ==
  \A n \in DOMAIN madeOn \ outdated :
    \/ n \in disk[madeOn[n]]
    \/ \E i \in DOMAIN saves : saves[i].path = madeOn[n] /\ n \in saves[i].edits

(* No setting moves to another file or is undone, unless a save failed.    *)
SettingsKept == SettingsStayWithFile /\ EditsKept

(* Every file the system names is opened once: never twice, and once the   *)
(* page has mounted and heard everything sent to it, not never, unless     *)
(* another file took its place before the page asked (launch.rs:41-48).    *)
OpenedOnce ==
  \A n \in DOMAIN named :
    /\ named[n].opened <= 1
    /\ mount = "mounted" /\ emitted = <<>> /\ n \notin replaced => named[n].opened = 1

(* A launch that ends because a window has its file open was right: that   *)
(* window has the file open, or is just opening or closing one             *)
(* (windows.rs:30).                                                        *)
RaisedWindowHasFile ==
  raised' > raised => marker = backend.path \/ Running

(* A file the system names is opened, once, by this process or by the one  *)
(* that has it open (launch.rs:41, windows.rs:30).                         *)
LaunchesServed == [][OpenedOnce' /\ RaisedWindowHasFile]_vars

(* The page never loads forever.                                           *)
LoadingEnds == loading ~> ~loading
=============================================================================
