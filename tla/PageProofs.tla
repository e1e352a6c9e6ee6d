----------------------------- MODULE PageProofs -----------------------------
(***************************************************************************)
(* What holds of open requests, settings, panels and the updater for any   *)
(* files and releases, any number of requests, edits, launches and clicks, *)
(* and any interleaving of them with the commands.                         *)
(***************************************************************************)
EXTENDS Page, FiniteSetTheorems, TLAPS

---------------------------------------------------------------------------
(* The queue of requests.                                                  *)

Requests == [op : {"open"}, path : Paths, request : Nat]
              \cup [op : {"close"}, path : {None}, request : Nat]

(* The file of the running request is open in the backend, and not shown.  *)
Unshown == {"opened", "config", "loaded", "columns", "described"}
Phases == {"start", "opening", "failed", "closing", "closed", "marking"} \cup Unshown

(* A phase belongs to an open or to a close.                               *)
Fits(p, op) == /\ p \in {"opening", "failed"} \cup Unshown => op = "open"
               /\ p \in {"closing", "closed"} => op = "close"

(* The requests in the queue are the latest ones, without a gap: a request *)
(* is superseded exactly if another one waits behind it.                   *)
QueueInv ==
  /\ generation \in Nat /\ queue \in Seq(Requests) /\ phase \in Phases
  /\ \A i \in 1..Len(queue) : queue[i].request = generation - Len(queue) + i
  /\ Running => last.op = queue[Len(queue)].op /\ last.path = queue[Len(queue)].path
  /\ phase # "start" => Running
  /\ Running => Fits(phase, Request.op)

LEMMA RunningRequest ==
  ASSUME QueueInv, Running
  PROVE  /\ Request \in Requests /\ Request = queue[1] /\ Len(queue) \in Nat \ {0}
         /\ Superseded <=> Len(queue) # 1
         /\ ~Superseded => last.op = Request.op /\ last.path = Request.path
<1>1. Len(queue) \in Nat \ {0} /\ Request = queue[1] /\ queue[1] \in Requests
  BY DEF QueueInv, Running, Request
<1>2. queue[1].request = generation - Len(queue) + 1 /\ generation \in Nat
  BY <1>1 DEF QueueInv
<1>3. Superseded <=> Len(queue) # 1
  <2>1. Request.request = generation - Len(queue) + 1
    BY <1>1, <1>2
  <2>2. \A n, g \in Nat : g - n + 1 = g <=> n = 1
    OBVIOUS
  <2>3. generation - Len(queue) + 1 = generation <=> Len(queue) = 1
    BY <1>1, <1>2, <2>2, Zenon
  <2> QED BY <2>1, <2>3 DEF Superseded
<1> QED BY <1>1, <1>3 DEF QueueInv

LEMMA Proceeds ==
  ASSUME QueueInv, Running, NEW p \in Phases, Proceed(p), Fits(p, Request.op),
         UNCHANGED <<generation, last>>
  PROVE  QueueInv' /\ Running' /\ Request' = Request /\ phase' = p
  BY DEF QueueInv, Running, Request, Proceed

LEMMA Finishes ==
  ASSUME QueueInv, Running, Finish, UNCHANGED <<generation, last>>
  PROVE  QueueInv' /\ (Running' <=> Superseded) /\ phase' = "start"
<1>1. /\ queue' = Tail(queue) /\ queue' \in Seq(Requests) /\ Len(queue') = Len(queue) - 1
      /\ \A i \in 1..Len(queue') : queue'[i] = queue[i + 1]
      /\ Len(queue) \in Nat \ {0}
  BY DEF QueueInv, Running, Finish
<1>2. \A i \in 1..Len(queue') : queue'[i].request = generation' - Len(queue') + i
  BY <1>1 DEF QueueInv
<1>3. Running' <=> Superseded
  BY <1>1, RunningRequest DEF Running
<1>4. Running' => last'.op = queue'[Len(queue')].op /\ last'.path = queue'[Len(queue')].path
  BY <1>1 DEF QueueInv, Running
<1> QED BY <1>1, <1>2, <1>3, <1>4 DEF QueueInv, Finish, Phases, Fits, Unshown

LEMMA AsksStore ==
  ASSUME QueueInv, closeDatabase \/ \E path \in Paths : openDatabase(path)
  PROVE  /\ QueueInv' /\ Running' /\ phase' = phase
         /\ Running => Request' = Request
         /\ last'.op = "open" => error' = None
         /\ UNCHANGED <<shown, fileConfig, loaded, described>>
<1>1. PICK r \in Requests : /\ queue' = Append(queue, r) /\ r.request = generation + 1
                            /\ last'.op = r.op /\ last'.path = r.path
                            /\ r.op = "open" => error' = None
  <2>1. CASE closeDatabase
    <3>1. [op |-> "close", path |-> None, request |-> generation + 1] \in Requests
      BY DEF QueueInv, Requests
    <3> QED BY <2>1, <3>1 DEF closeDatabase
  <2>2. CASE \E path \in Paths : openDatabase(path)
    <3>1. PICK path \in Paths : openDatabase(path)
      BY <2>2
    <3>2. [op |-> "open", path |-> path, request |-> generation + 1] \in Requests
      BY DEF QueueInv, Requests
    <3> QED BY <3>1, <3>2 DEF openDatabase
  <2> QED BY <2>1, <2>2
<1>2. /\ generation' = generation + 1 /\ phase' = phase
      /\ UNCHANGED <<shown, fileConfig, loaded, described>>
  BY DEF closeDatabase, openDatabase
<1>3. /\ queue' \in Seq(Requests) /\ Len(queue') = Len(queue) + 1
      /\ \A i \in 1..Len(queue) : queue'[i] = queue[i]
      /\ queue'[Len(queue')] = r
      /\ queue \in Seq(Requests) /\ Len(queue) \in Nat
  BY <1>1 DEF QueueInv
<1>4. \A i \in 1..Len(queue') : queue'[i].request = generation' - Len(queue') + i
  <2> SUFFICES ASSUME NEW i \in 1..Len(queue') PROVE queue'[i].request = generation' - Len(queue') + i
    OBVIOUS
  <2>1. CASE i = Len(queue')
    BY <1>1, <1>2, <1>3, <2>1 DEF QueueInv
  <2>2. CASE i # Len(queue')
    BY <1>2, <1>3, <2>2 DEF QueueInv
  <2> QED BY <2>1, <2>2
<1>5. Running' /\ (Running => Request' = Request)
  BY <1>3 DEF Running, Request
<1>6. Fits(phase', Request'.op)
  BY <1>2, <1>5 DEF QueueInv, Fits, Unshown
<1>7. last'.op = queue'[Len(queue')].op /\ last'.path = queue'[Len(queue')].path
  BY <1>1, <1>3
<1>8. QueueInv'
  BY <1>2, <1>3, <1>4, <1>5, <1>6, <1>7 DEF QueueInv
<1> QED BY <1>1, <1>2, <1>5, <1>8

---------------------------------------------------------------------------
(* What the page shows, against what the backend has open.  A request that *)
(* is not superseded ends with the backend's file on screen, or with its   *)
(* error; the next request of the user waits in the queue, so the error of *)
(* an earlier one is gone before it runs.                                  *)

OpenFile == [path : Paths, session : Nat] \cup {NoFile}

ShownInv ==
  /\ session \in Nat /\ backend \in OpenFile /\ shown \in OpenFile
  /\ shown.session <= session /\ backend.session <= session
  /\ ~unpublished => shown = backend
  /\ unpublished => backend = NoFile \/ backend.session > shown.session
  /\ phase \in Unshown \/ (phase = "marking" /\ Request.op = "open") =>
       unpublished /\ backend.path = Request.path /\ backend # NoFile
  /\ phase = "closed" \/ (phase = "marking" /\ Request.op = "close") =>
       unpublished /\ backend = NoFile
  /\ phase = "described" => described = backend
  /\ phase # "marking" => marker = backend.path
  /\ last.op \in {"none", "open", "close"} /\ (last.op = "open" => last.path \in Paths)
  /\ Running /\ last.op = "open" => error = None
  /\ ~Running => \/ shown = backend /\ ~unpublished
                 \/ unpublished /\ last.op = "open" /\ error = last.path
  /\ ~Running /\ last.op = "open" =>
       (shown.path = last.path /\ error = None) \/ error = last.path
  /\ ~Running /\ last.op = "close" => shown = NoFile

LEMMA StoreStarts == Init => QueueInv /\ ShownInv
<1> SUFFICES ASSUME Init PROVE QueueInv /\ ShownInv
  OBVIOUS
<1>1. QueueInv
  BY DEF Init, QueueInv, Running, Phases
<1>2. ShownInv
  BY DEF Init, ShownInv, Running, OpenFile, NoFile, Unshown
<1> QED BY <1>1, <1>2

(* A new request changes nothing of what is on screen but the error.       *)
LEMMA AskingKeepsShown ==
  ASSUME QueueInv, ShownInv, closeDatabase \/ \E path \in Paths : openDatabase(path),
         UNCHANGED <<backend, session, marker, unpublished>>
  PROVE  ShownInv'
<1>1. /\ QueueInv' /\ Running' /\ phase' = phase /\ (Running => Request' = Request)
      /\ last'.op = "open" => error' = None
      /\ UNCHANGED <<shown, described>>
  BY AsksStore
<1>2. /\ last'.op \in {"none", "open", "close"} /\ (last'.op = "open" => last'.path \in Paths)
  <2>1. CASE closeDatabase
    BY <2>1 DEF closeDatabase
  <2>2. CASE \E path \in Paths : openDatabase(path)
    BY <2>2 DEF openDatabase
  <2> QED BY <2>1, <2>2
<1>3. phase # "start" => Request' = Request
  BY <1>1 DEF QueueInv
<1>4. phase = "start" => phase \notin Unshown \cup {"marking", "closed", "described"}
  BY DEF Unshown
<1> QED BY <1>1, <1>2, <1>3, <1>4 DEF ShownInv, Unshown, NoFile

LEMMA RunningKeepsShown ==
  ASSUME QueueInv, ShownInv, RunRequest
  PROVE  QueueInv' /\ ShownInv'
<1> USE DEF QuietPage, launchVars, requestVars, pageVars, saveVars, backendVars, otherVars
<1>0. /\ Running /\ Request \in Requests
      /\ ~Superseded => last.op = Request.op /\ last.path = Request.path
      /\ Request.op = "open" <=> Request.op # "close"
      /\ Request.op = "open" => Request.path \in Paths
  <2>1. Running
    BY DEF RunRequest, Start, OpenCommand, CloseCommand, Mark, Failed, Opened, LoadConfig, Loaded,
           Describe, Publish, Closed
  <2> QED BY <2>1, RunningRequest DEF Requests
<1>1. CASE Start
  <2>1. CASE Request.op = "open" /\ Superseded
    <3>1. QueueInv' /\ Running' /\ phase' = "start"
      BY <1>0, <1>1, <2>1, Finishes DEF Start
    <3> QED BY <1>1, <2>1, <3>1, <1>0 DEF Start, ShownInv, Unshown
  <2>2. CASE Request.op = "open" /\ ~Superseded
    <3>1. QueueInv' /\ Running' /\ phase' = "opening" /\ Request' = Request
      BY <1>0, <1>1, <2>2, Proceeds DEF Start, Phases, Fits
    <3> QED BY <1>1, <2>2, <3>1, <1>0 DEF Start, ShownInv, Unshown
  <2>3. CASE Request.op # "open"
    <3>1. QueueInv' /\ Running' /\ phase' = "closing" /\ Request' = Request
      BY <1>0, <1>1, <2>3, Proceeds DEF Start, Phases, Fits, Unshown
    <3> QED BY <1>1, <2>3, <3>1, <1>0 DEF Start, ShownInv, Unshown
  <2> QED BY <2>1, <2>2, <2>3
<1>2. CASE OpenCommand
  <2>0. Request.op = "open" /\ Request.path \in Paths
    BY <1>0, <1>2 DEF OpenCommand, QueueInv, Fits
  <2>1. CASE Proceed("marking") /\ backend' = [path |-> Request.path, session |-> session + 1]
                /\ session' = session + 1 /\ unpublished' = TRUE
    <3>1. QueueInv' /\ Running' /\ phase' = "marking" /\ Request' = Request
      BY <1>0, <1>2, <2>0, <2>1, Proceeds DEF OpenCommand, Phases, Fits, Unshown
    <3>2. backend' \in OpenFile /\ backend' # NoFile /\ backend'.session = session + 1
          /\ backend'.path = Request.path
      BY <2>0, <2>1 DEF OpenFile, ShownInv, NoFile
    <3>3. session \in Nat /\ shown.session <= session /\ shown.session \in Nat
      BY DEF ShownInv, OpenFile, NoFile
    <3> QED BY <1>0, <1>2, <2>0, <2>1, <3>1, <3>2, <3>3 DEF OpenCommand, ShownInv, Unshown
  <2>2. CASE Proceed("failed") /\ UNCHANGED <<backend, session, unpublished>>
    <3>1. QueueInv' /\ Running' /\ phase' = "failed" /\ Request' = Request
      BY <1>0, <1>2, <2>0, <2>2, Proceeds DEF OpenCommand, Phases, Fits, Unshown
    <3> QED BY <1>0, <1>2, <2>2, <3>1 DEF OpenCommand, ShownInv, Unshown
  <2> QED BY <1>2, <2>1, <2>2 DEF OpenCommand
<1>3. CASE CloseCommand
  <2>0. Request.op = "close"
    BY <1>0, <1>3 DEF CloseCommand, QueueInv, Fits
  <2>1. QueueInv' /\ Running' /\ phase' = "marking" /\ Request' = Request
    BY <1>0, <1>3, <2>0, Proceeds DEF CloseCommand, Phases, Fits, Unshown
  <2>2. NoFile \in OpenFile /\ NoFile.session <= session
    BY DEF OpenFile, NoFile, ShownInv
  <2> QED BY <1>0, <1>3, <2>0, <2>1, <2>2 DEF CloseCommand, ShownInv, Unshown
<1>4. CASE Mark
  <2>0. Request.op = "close" => Request.path = None
    BY <1>0 DEF Requests
  <2>1. CASE Request.op = "open"
    <3>1. QueueInv' /\ Running' /\ phase' = "opened" /\ Request' = Request
      BY <1>0, <1>4, <2>1, Proceeds DEF Mark, Phases, Fits, Unshown
    <3> QED BY <1>0, <1>4, <2>1, <3>1 DEF Mark, ShownInv, Unshown, set_window_db_marker
  <2>2. CASE Request.op # "open"
    <3>1. QueueInv' /\ Running' /\ phase' = "closed" /\ Request' = Request
      BY <1>0, <1>4, <2>2, Proceeds DEF Mark, Phases, Fits, Unshown
    <3> QED BY <1>0, <1>4, <2>0, <2>2, <3>1 DEF Mark, ShownInv, Unshown, set_window_db_marker, NoFile
  <2> QED BY <2>1, <2>2
<1>5. CASE Failed
  <2>1. /\ QueueInv' /\ (Running' <=> Superseded) /\ phase' = "start"
        /\ UNCHANGED <<backend, session, shown, unpublished, marker, last>>
    BY <1>0, <1>5, Finishes DEF Failed, PageStays
  <2>2. Request.op = "open" /\ marker = backend.path
    BY <1>0, <1>5 DEF Failed, QueueInv, Fits, ShownInv
  <2>3. CASE Superseded
    BY <1>5, <2>1, <2>2, <2>3, <1>0 DEF Failed, Reported, ShownInv, Unshown
  <2>4. CASE ~Superseded
    <3>1. error' = last.path /\ last.op = "open"
      BY <1>5, <2>2, <2>4, <1>0 DEF Failed, Reported
    <3> QED BY <1>0, <2>1, <2>2, <2>4, <3>1 DEF ShownInv, Unshown
  <2> QED BY <2>1, <2>3, <2>4
<1>6. CASE Opened \/ Loaded
  <2>1. CASE Superseded
    <3>1. /\ QueueInv' /\ Running' /\ phase' = "start"
          /\ UNCHANGED <<backend, session, shown, unpublished, marker, last, error>>
          /\ marker = backend.path
      BY <1>0, <1>6, <2>1, Finishes DEF Opened, Loaded, ShownInv
    <3> QED BY <1>0, <3>1 DEF ShownInv, Unshown
  <2>2. CASE ~Superseded
    <3>1. PICK p \in {"config", "columns"} : Proceed(p)
      BY <1>6, <2>2 DEF Opened, Loaded
    <3>2. Request.op = "open" /\ phase \in Unshown /\ phase # "marking"
      BY <1>0, <1>6 DEF Opened, Loaded, QueueInv, Fits, Unshown
    <3>3. /\ QueueInv' /\ Running' /\ phase' = p /\ Request' = Request
          /\ UNCHANGED <<backend, session, shown, unpublished, marker, last, error>>
      BY <1>0, <1>6, <3>1, <3>2, Proceeds DEF Opened, Loaded, Phases, Fits, Unshown
    <3> QED BY <1>0, <3>2, <3>3 DEF ShownInv, Unshown
  <2> QED BY <2>1, <2>2
<1>7. CASE LoadConfig \/ Describe
  <2>1. PICK p \in {"loaded", "described"} : Proceed(p) /\ (p = "described" => described' = backend)
    BY <1>7 DEF LoadConfig, Describe
  <2>2. Request.op = "open" /\ phase \in Unshown /\ phase # "marking"
    BY <1>0, <1>7 DEF LoadConfig, Describe, QueueInv, Fits, Unshown
  <2>3. /\ QueueInv' /\ Running' /\ phase' = p /\ Request' = Request
        /\ UNCHANGED <<backend, session, shown, unpublished, marker, last, error>>
    BY <1>0, <1>7, <2>1, <2>2, Proceeds DEF LoadConfig, Describe, Phases, Fits, Unshown
  <2> QED BY <1>0, <2>1, <2>2, <2>3 DEF ShownInv, Unshown
<1>8. CASE Publish
  <2>1. /\ QueueInv' /\ (Running' <=> Superseded) /\ phase' = "start"
        /\ UNCHANGED <<backend, session, marker, last, error>>
    BY <1>0, <1>8, Finishes DEF Publish
  <2>2. /\ Request.op = "open" /\ unpublished /\ marker = backend.path /\ described = backend
        /\ backend.path = Request.path /\ backend # NoFile
    BY <1>0, <1>8 DEF Publish, QueueInv, Fits, ShownInv, Unshown
  <2>3. CASE Superseded
    BY <1>0, <1>8, <2>1, <2>2, <2>3 DEF Publish, ShownInv, Unshown
  <2>4. CASE ~Superseded
    <3>1. shown' = backend /\ unpublished' = FALSE
      BY <1>8, <2>2, <2>4 DEF Publish, ShownInv, OpenFile
    <3> QED BY <1>0, <2>1, <2>2, <2>4, <3>1 DEF ShownInv, Unshown
  <2> QED BY <2>1, <2>3, <2>4
<1>9. CASE Closed
  <2>1. /\ QueueInv' /\ (Running' <=> Superseded) /\ phase' = "start"
        /\ UNCHANGED <<backend, session, marker, last, error>>
    BY <1>0, <1>9, Finishes DEF Closed
  <2>2. /\ Request.op = "close" /\ unpublished /\ marker = backend.path /\ backend = NoFile
    BY <1>0, <1>9 DEF Closed, QueueInv, Fits, ShownInv
  <2>3. CASE Superseded
    BY <1>0, <1>9, <2>1, <2>2, <2>3 DEF Closed, ShownInv, Unshown
  <2>4. CASE ~Superseded
    <3>1. shown' = backend /\ unpublished' = FALSE
      BY <1>9, <2>2, <2>4 DEF Closed
    <3> QED BY <1>0, <2>1, <2>2, <2>4, <3>1 DEF ShownInv, Unshown
  <2> QED BY <2>1, <2>3, <2>4
<1> QED BY <1>1, <1>2, <1>3, <1>4, <1>5, <1>6, <1>7, <1>8, <1>9 DEF RunRequest

---------------------------------------------------------------------------
(* The files the system names.  Each waits in one place, was opened, or    *)
(* was replaced by another one before the page asked.                      *)

LEMMA ElementOfSeq ==
  ASSUME NEW S, NEW seq \in Seq(S), NEW i \in 1..Len(seq)
  PROVE  seq[i] \in S
  OBVIOUS

LEMMA AppendedSeq ==
  ASSUME NEW S, NEW seq \in Seq(S), NEW e \in S
  PROVE  /\ Append(seq, e) \in Seq(S) /\ Len(Append(seq, e)) = Len(seq) + 1 /\ Len(seq) \in Nat
         /\ Append(seq, e)[Len(seq) + 1] = e
         /\ \A i \in 1..Len(seq) : Append(seq, e)[i] = seq[i]
  OBVIOUS

LEMMA TailOfSeq ==
  ASSUME NEW S, NEW seq \in Seq(S), seq # <<>>
  PROVE  /\ Tail(seq) \in Seq(S) /\ Len(Tail(seq)) = Len(seq) - 1 /\ Len(seq) \in Nat \ {0}
         /\ Head(seq) = seq[1] /\ Head(seq) \in S
         /\ \A i \in 1..Len(seq) - 1 : Tail(seq)[i] = seq[i + 1]
  OBVIOUS

MountSteps == {"listen", "ask", "answered", "mounted"}

Waiting(n) ==
  \/ stash = n
  \/ \E i \in 1..Len(emitted) : emitted[i] = n
  \/ mount = "answered" /\ initial = n
  \/ mount \in {"listen", "ask"} /\ cast.argument # None /\ n = 1

LaunchInv ==
  /\ cast \in Casts
  /\ mount \in MountSteps /\ (webview_ready <=> mount \in {"answered", "mounted"})
  /\ named \in Seq([path : Paths, opened : {0, 1}])
  /\ mount \in {"listen", "ask"} /\ cast.argument # None => Len(named) > 0
  /\ stash \in 0..Len(named) /\ (webview_ready => stash = 0)
  /\ mount \in {"listen", "ask"} /\ cast.argument # None => stash # 1
  /\ initial \in 0..Len(named)
  /\ emitted \in Seq(1..Len(named)) /\ (emitted # <<>> => webview_ready)
  /\ \A i, j \in 1..Len(emitted) : emitted[i] = emitted[j] => i = j
  /\ mount = "answered" => \A i \in 1..Len(emitted) : emitted[i] # initial
  /\ \A n \in 1..Len(named) :
       /\ Waiting(n) => named[n].opened = 0
       /\ ~Waiting(n) /\ n \notin replaced => named[n].opened = 1

LEMMA LaunchStarts == ASSUME CastAssumption, Init PROVE LaunchInv
<1>1. cast \in Casts /\ cast.argument \in Paths \cup {None}
  BY DEF Init, CastAssumption
<1>2. CASE cast.argument = None
  <2>1. named = <<>>
    BY <1>2 DEF Init
  <2> QED BY <1>1, <1>2, <2>1 DEF Init, LaunchInv, MountSteps, Waiting
<1>3. CASE cast.argument # None
  <2>1. /\ named = <<[path |-> cast.argument, opened |-> 0]>> /\ Len(named) = 1
        /\ named[1].opened = 0
        /\ named \in Seq([path : Paths, opened : {0, 1}])
    BY <1>1, <1>3 DEF Init
  <2> QED BY <1>1, <1>3, <2>1 DEF Init, LaunchInv, MountSteps, Waiting
<1> QED BY <1>2, <1>3

LEMMA NamingKeepsLaunch ==
  ASSUME LaunchInv, handle_open_request
  PROVE  LaunchInv'
<1>1. PICK p \in Paths :
        /\ named' = Append(named, [path |-> p, opened |-> 0])
        /\ deliver(Len(named) + 1)
        /\ UNCHANGED <<webview_ready, mount, initial, cast>>
  BY DEF handle_open_request
<1>0. PICK new : new = Len(named) + 1
  OBVIOUS
<1>2. /\ named' \in Seq([path : Paths, opened : {0, 1}]) /\ Len(named') = new
      /\ named'[new].opened = 0
      /\ \A n \in 1..Len(named) : named'[n] = named[n]
      /\ Len(named) \in Nat
  <2>1. [path |-> p, opened |-> 0] \in [path : Paths, opened : {0, 1}]
    OBVIOUS
  <2> QED BY <1>0, <1>1, <2>1 DEF LaunchInv
<1>3. CASE webview_ready
  <2>1. /\ emitted' = Append(emitted, new) /\ stash' = stash /\ replaced' = replaced
        /\ mount \in {"answered", "mounted"} /\ stash = 0
    BY <1>0, <1>1, <1>3 DEF deliver, LaunchInv
  <2>2. /\ emitted \in Seq(Nat) /\ Len(emitted) \in Nat
        /\ \A i \in 1..Len(emitted) : emitted[i] \in 1..Len(named)
    BY DEF LaunchInv
  <2>3. /\ Len(emitted') = Len(emitted) + 1 /\ emitted'[Len(emitted) + 1] = new
        /\ \A i \in 1..Len(emitted) : emitted'[i] = emitted[i]
        /\ emitted' \in Seq(1..new)
    BY <1>0, <1>2, <2>1, <2>2 DEF LaunchInv
  <2>4. \A i, j \in 1..Len(emitted') : emitted'[i] = emitted'[j] => i = j
    <3> SUFFICES ASSUME NEW i \in 1..Len(emitted'), NEW j \in 1..Len(emitted'),
                        emitted'[i] = emitted'[j]
                 PROVE  i = j
      OBVIOUS
    <3>1. \A k \in 1..Len(emitted') : k = Len(emitted) + 1 \/ k \in 1..Len(emitted)
      BY <2>2, <2>3
    <3>2. \A k \in 1..Len(emitted) : emitted'[k] = emitted[k] /\ emitted'[k] # new
      BY <1>0, <1>2, <2>2, <2>3
    <3>3. CASE i \in 1..Len(emitted) /\ j \in 1..Len(emitted)
      BY <3>2, <3>3 DEF LaunchInv
    <3>4. CASE i = Len(emitted) + 1 \/ j = Len(emitted) + 1
      BY <2>3, <3>1, <3>2, <3>4
    <3> QED BY <3>1, <3>3, <3>4
  <2>5. ASSUME mount = "answered", NEW i \in 1..Len(emitted') PROVE emitted'[i] # initial
    <3>1. initial \in 0..Len(named) /\ new # initial
      BY <1>0, <1>2 DEF LaunchInv
    <3>2. CASE i = Len(emitted) + 1
      BY <2>3, <3>1, <3>2
    <3>3. CASE i # Len(emitted) + 1
      <4>1. i \in 1..Len(emitted)
        BY <2>2, <2>3, <3>3
      <4> QED BY <2>3, <2>5, <4>1 DEF LaunchInv
    <3> QED BY <3>2, <3>3
  <2>6. \A n \in 1..Len(named) : Waiting(n)' <=> Waiting(n)
    BY <1>0, <1>1, <1>2, <2>1, <2>2, <2>3 DEF Waiting
  <2>7. Waiting(new)'
    BY <1>0, <1>1, <1>2, <2>1, <2>2, <2>3 DEF Waiting
  <2>8. \A n \in 1..Len(named') :
          /\ Waiting(n)' => named'[n].opened = 0
          /\ ~Waiting(n)' /\ n \notin replaced' => named'[n].opened = 1
    <3> SUFFICES ASSUME NEW n \in 1..new
                 PROVE  /\ Waiting(n)' => named'[n].opened = 0
                        /\ ~Waiting(n)' /\ n \notin replaced' => named'[n].opened = 1
      BY <1>2
    <3>1. CASE n = new
      BY <1>2, <2>7, <3>1
    <3>2. CASE n # new
      <4>1. n \in 1..Len(named)
        BY <1>0, <1>2, <3>2
      <4> QED BY <1>2, <2>1, <2>6, <4>1 DEF LaunchInv
    <3> QED BY <3>1, <3>2
  <2> QED BY <1>0, <1>1, <1>2, <1>3, <2>1, <2>3, <2>4, <2>5, <2>8 DEF LaunchInv
<1>4. CASE ~webview_ready
  <2>1. /\ emitted' = emitted /\ stash' = new /\ mount \in {"listen", "ask"} /\ emitted = <<>>
        /\ replaced' = IF stash = 0 THEN replaced ELSE replaced \cup {stash}
    BY <1>0, <1>1, <1>4 DEF deliver, LaunchInv, MountSteps
  <2>2. \A n \in 1..Len(named) : Waiting(n)' <=> Waiting(n) /\ n # stash
    BY <1>0, <1>1, <1>2, <2>1 DEF Waiting, LaunchInv
  <2>3. Waiting(new)'
    BY <1>0, <1>1, <1>2, <2>1 DEF Waiting
  <2>4. \A n \in 1..Len(named') :
          /\ Waiting(n)' => named'[n].opened = 0
          /\ ~Waiting(n)' /\ n \notin replaced' => named'[n].opened = 1
    <3> SUFFICES ASSUME NEW n \in 1..new
                 PROVE  /\ Waiting(n)' => named'[n].opened = 0
                        /\ ~Waiting(n)' /\ n \notin replaced' => named'[n].opened = 1
      BY <1>2
    <3>1. CASE n = new
      BY <1>2, <2>3, <3>1
    <3>2. CASE n # new
      <4>1. n \in 1..Len(named)
        BY <1>0, <1>2, <3>2
      <4> QED BY <1>2, <2>1, <2>2, <4>1 DEF LaunchInv
    <3> QED BY <3>1, <3>2
  <2>5. new # 1 \/ cast.argument = None
    BY <1>0, <1>2, <2>1 DEF LaunchInv
  <2>6. emitted' \in Seq(1..Len(named'))
    BY <2>1
  <2> QED BY <1>0, <1>1, <1>2, <1>4, <2>1, <2>4, <2>5, <2>6 DEF LaunchInv
<1> QED BY <1>3, <1>4

LEMMA MountingKeepsLaunch ==
  ASSUME LaunchInv, Listen \/ take_initial
  PROVE  LaunchInv'
<1> USE DEF otherVars
<1>1. CASE Listen
  <2>1. mount = "listen" /\ mount' = "ask" /\ UNCHANGED <<cast, webview_ready, stash, emitted,
                                                          initial, named, replaced>>
    BY <1>1 DEF Listen
  <2>2. \A n : Waiting(n)' <=> Waiting(n)
    BY <2>1 DEF Waiting
  <2> QED BY <2>1, <2>2 DEF LaunchInv, MountSteps
<1>2. CASE take_initial
  <2>1. /\ mount = "ask" /\ mount' = "answered" /\ webview_ready' = TRUE /\ stash' = 0
        /\ initial' = IF stash # 0 THEN stash ELSE launch_argument
        /\ replaced' = IF stash # 0 /\ launch_argument # 0 THEN replaced \cup {launch_argument}
                                                           ELSE replaced
        /\ UNCHANGED <<emitted, named, cast>>
    BY <1>2 DEF take_initial
  <2>2. emitted = <<>> /\ launch_argument \in 0..Len(named) /\ Len(named) \in Nat
    BY <2>1 DEF LaunchInv, launch_argument
  <2>3. \A n \in 1..Len(named) : Waiting(n) <=> Waiting(n)' \/ (stash # 0 /\ launch_argument = n)
    BY <2>1, <2>2 DEF Waiting, launch_argument, LaunchInv
  <2>4. \A n \in 1..Len(named) : Waiting(n)' => Waiting(n)
    BY <2>3
  <2>5. \A n \in 1..Len(named) : ~Waiting(n)' /\ n \notin replaced' => ~Waiting(n) /\ n \notin replaced
    BY <2>1, <2>2, <2>3
  <2>6. initial' \in 0..Len(named)
    BY <2>1, <2>2 DEF LaunchInv
  <2>7. \A n \in 1..Len(named') :
          /\ Waiting(n)' => named'[n].opened = 0
          /\ ~Waiting(n)' /\ n \notin replaced' => named'[n].opened = 1
    BY <2>1, <2>4, <2>5 DEF LaunchInv
  <2> QED BY <2>1, <2>2, <2>6, <2>7 DEF LaunchInv, MountSteps
<1> QED BY <1>1, <1>2

LEMMA OpeningKeepsLaunch ==
  ASSUME LaunchInv, OpenInitial \/ OpenEmitted
  PROVE  LaunchInv'
<1> USE DEF otherVars
<1>0. /\ named \in Seq([path : Paths, opened : {0, 1}]) /\ Len(named) \in Nat
      /\ emitted \in Seq(1..Len(named)) /\ Len(emitted) \in Nat
      /\ \A i \in 1..Len(emitted) : emitted[i] \in 1..Len(named)
  BY DEF LaunchInv
<1>1. ASSUME NEW n \in 1..Len(named), named' = [named EXCEPT ![n].opened = @ + 1],
             named[n].opened = 0
      PROVE  /\ named' \in Seq([path : Paths, opened : {0, 1}]) /\ Len(named') = Len(named)
             /\ named'[n].opened = 1
             /\ \A k \in 1..Len(named) \ {n} : named'[k] = named[k]
  <2>0. named[n] \in [path : Paths, opened : {0, 1}]
    BY <1>0, ElementOfSeq
  <2>1. PICK r : r = [named[n] EXCEPT !.opened = 1]
    OBVIOUS
  <2>2. r \in [path : Paths, opened : {0, 1}] /\ r.opened = 1
    BY <2>0, <2>1
  <2>3. named' = [named EXCEPT ![n] = r]
    BY <1>0, <1>1, <2>1
  <2> QED BY <1>0, <2>2, <2>3
<1>2. CASE OpenInitial /\ initial = 0
  <2>1. /\ mount = "answered" /\ mount' = "mounted"
        /\ UNCHANGED <<cast, webview_ready, stash, emitted, initial, named, replaced>>
    BY <1>2 DEF OpenInitial
  <2>2. \A n \in 1..Len(named) : Waiting(n)' <=> Waiting(n)
    BY <1>2, <2>1 DEF Waiting
  <2> QED BY <2>1, <2>2 DEF LaunchInv, MountSteps
<1>3. CASE OpenInitial /\ initial # 0
  <2>1. /\ mount = "answered" /\ mount' = "mounted" /\ initial \in 1..Len(named)
        /\ named' = [named EXCEPT ![initial].opened = @ + 1]
        /\ UNCHANGED <<cast, webview_ready, stash, emitted, initial, replaced>>
    BY <1>0, <1>3 DEF OpenInitial, handleOpenFile, LaunchInv
  <2>2. Waiting(initial)
    BY <2>1 DEF Waiting
  <2>3. \A n \in 1..Len(named) : Waiting(n)' <=> Waiting(n) /\ n # initial
    BY <2>1 DEF Waiting, LaunchInv
  <2>4. named[initial].opened = 0
    BY <2>1, <2>2 DEF LaunchInv
  <2>5. /\ named' \in Seq([path : Paths, opened : {0, 1}]) /\ Len(named') = Len(named)
        /\ named'[initial].opened = 1
        /\ \A k \in 1..Len(named) \ {initial} : named'[k] = named[k]
    BY <1>1, <2>1, <2>4
  <2>6. \A n \in 1..Len(named') :
          /\ Waiting(n)' => named'[n].opened = 0
          /\ ~Waiting(n)' /\ n \notin replaced' => named'[n].opened = 1
    BY <2>1, <2>3, <2>5 DEF LaunchInv
  <2> QED BY <2>1, <2>5, <2>6 DEF LaunchInv, MountSteps
<1>4. CASE OpenEmitted
  <2>1. PICK n : n = Head(emitted)
    OBVIOUS
  <2>2. /\ emitted # <<>> /\ emitted' = Tail(emitted) /\ n \in 1..Len(named) /\ n = emitted[1]
        /\ named' = [named EXCEPT ![n].opened = @ + 1]
        /\ UNCHANGED <<cast, webview_ready, stash, mount, initial, replaced>>
    BY <1>0, <1>4, <2>1 DEF OpenEmitted, handleOpenFile
  <2>3. /\ Len(emitted) >= 1 /\ Len(emitted') = Len(emitted) - 1 /\ emitted' \in Seq(1..Len(named))
        /\ \A i \in 1..Len(emitted') : emitted'[i] = emitted[i + 1]
    BY <1>0, <2>2
  <2>4. Waiting(n)
    BY <2>2, <2>3 DEF Waiting
  <2>5. named[n].opened = 0
    BY <2>2, <2>4 DEF LaunchInv
  <2>6. /\ named' \in Seq([path : Paths, opened : {0, 1}]) /\ Len(named') = Len(named)
        /\ named'[n].opened = 1
        /\ \A k \in 1..Len(named) \ {n} : named'[k] = named[k]
    BY <1>1, <2>2, <2>5
  <2>7. ~Waiting(n)'
    <3>1. stash = 0 /\ mount \in {"answered", "mounted"} /\ (mount = "answered" => n # initial)
      BY <2>2, <2>3 DEF LaunchInv
    <3>2. \A i \in 1..Len(emitted') : emitted'[i] # n
      BY <1>0, <2>2, <2>3 DEF LaunchInv
    <3> QED BY <2>2, <3>1, <3>2 DEF Waiting
  <2>8. \A k \in 1..Len(named) \ {n} : Waiting(k)' <=> Waiting(k)
    <3> SUFFICES ASSUME NEW k \in 1..Len(named) \ {n} PROVE Waiting(k)' <=> Waiting(k)
      OBVIOUS
    <3>1. (\E i \in 1..Len(emitted') : emitted'[i] = k) <=> (\E i \in 1..Len(emitted) : emitted[i] = k)
      <4>1. ASSUME NEW i \in 1..Len(emitted), emitted[i] = k
            PROVE  i - 1 \in 1..Len(emitted') /\ emitted'[i - 1] = k
        BY <1>0, <2>2, <2>3, <4>1
      <4> QED BY <1>0, <2>3, <4>1
    <3> QED BY <2>2, <3>1 DEF Waiting
  <2>9. \A k \in 1..Len(named') :
          /\ Waiting(k)' => named'[k].opened = 0
          /\ ~Waiting(k)' /\ k \notin replaced' => named'[k].opened = 1
    BY <2>2, <2>6, <2>7, <2>8 DEF LaunchInv
  <2>10. \A i, j \in 1..Len(emitted') : emitted'[i] = emitted'[j] => i = j
    <3> SUFFICES ASSUME NEW i \in 1..Len(emitted'), NEW j \in 1..Len(emitted'),
                        emitted'[i] = emitted'[j]
                 PROVE  i = j
      OBVIOUS
    <3>1. /\ i + 1 \in 1..Len(emitted) /\ j + 1 \in 1..Len(emitted)
          /\ emitted[i + 1] = emitted[j + 1]
      BY <1>0, <2>3
    <3>2. i + 1 = j + 1
      BY <3>1 DEF LaunchInv
    <3> QED BY <1>0, <2>3, <3>2
  <2>12. ASSUME mount = "answered", NEW i \in 1..Len(emitted') PROVE emitted'[i] # initial
    <3>1. i + 1 \in 1..Len(emitted) /\ emitted'[i] = emitted[i + 1]
      BY <1>0, <2>3
    <3> QED BY <2>12, <3>1 DEF LaunchInv
  <2>11. emitted' # <<>> => webview_ready
    BY <2>2 DEF LaunchInv
  <2> QED BY <2>2, <2>3, <2>6, <2>9, <2>10, <2>11, <2>12 DEF LaunchInv
<1> QED BY <1>2, <1>3, <1>4

LEMMA LaunchKeeps ==
  ASSUME LaunchInv, [Next]_vars
  PROVE  LaunchInv'
<1> USE DEF launchVars, requestVars, pageVars, saveVars, backendVars, otherVars
<1>1. CASE UNCHANGED <<launchVars, cast>>
  BY <1>1 DEF LaunchInv, Waiting
<1>2. CASE System
  BY <1>2, NamingKeepsLaunch, MountingKeepsLaunch, OpeningKeepsLaunch DEF System
<1>3. CASE RunRequest
  <2>1. UNCHANGED <<launchVars, cast>>
    BY <1>3 DEF RunRequest, QuietPage, Start, OpenCommand, CloseCommand, Mark, Failed, Opened,
                LoadConfig, Loaded, Describe, Publish, Closed
  <2> QED BY <1>1, <2>1
<1>4. CASE User \/ Edit \/ SaveLands \/ SaveFails \/ try_activate_existing
  <2>1. UNCHANGED <<launchVars, cast>>
    BY <1>4 DEF User, Edit, SaveLands, SaveFails, try_activate_existing
  <2> QED BY <1>1, <2>1
<1> QED BY <1>1, <1>2, <1>3, <1>4 DEF Next, vars

---------------------------------------------------------------------------
(* What the requests, the backend and the page on screen are made of.      *)
screen == <<requestVars, backendVars, shown, error, described, unpublished>>

LEMMA ScreenKept ==
  ASSUME QueueInv, ShownInv, UNCHANGED screen
  PROVE  QueueInv' /\ ShownInv'
  BY DEF screen, requestVars, backendVars, QueueInv, ShownInv, Running, Request

LEMMA StoreKeeps ==
  ASSUME CastAssumption, QueueInv, ShownInv, LaunchInv, [Next]_vars
  PROVE  QueueInv' /\ ShownInv'
<1> USE DEF launchVars, requestVars, pageVars, saveVars, backendVars, otherVars
<1>1. CASE User
  BY <1>1, AsksStore, AskingKeepsShown DEF User
<1>2. CASE RunRequest
  BY <1>2, RunningKeepsShown
<1>3. CASE Edit \/ SaveLands \/ SaveFails \/ try_activate_existing
  <2>1. UNCHANGED screen
    BY <1>3 DEF Edit, SaveLands, SaveFails, try_activate_existing, screen
  <2> QED BY <2>1, ScreenKept
<1>4. CASE System
  <2>1. CASE handle_open_request \/ Listen \/ take_initial
    <3>1. UNCHANGED screen
      BY <2>1 DEF handle_open_request, Listen, take_initial, screen
    <3> QED BY <3>1, ScreenKept
  <2>2. CASE OpenInitial
    <3>1. CASE initial = 0
      <4>1. UNCHANGED screen
        BY <2>2, <3>1 DEF OpenInitial, screen
      <4> QED BY <4>1, ScreenKept
    <3>2. CASE initial # 0
      <4>1. named[initial].path \in Paths
        <5>1. /\ initial \in 1..Len(named) /\ Len(named) \in Nat
              /\ named \in Seq([path : Paths, opened : {0, 1}])
          BY <3>2 DEF LaunchInv
        <5>2. named[initial] \in [path : Paths, opened : {0, 1}]
          BY <5>1, ElementOfSeq
        <5> QED BY <5>2
      <4>2. openDatabase(named[initial].path)
        BY <2>2, <3>2 DEF OpenInitial, handleOpenFile
      <4>3. UNCHANGED <<backend, session, marker, unpublished>>
        BY <2>2 DEF OpenInitial
      <4> QED BY <4>1, <4>2, <4>3, AsksStore, AskingKeepsShown
    <3> QED BY <3>1, <3>2
  <2>3. CASE OpenEmitted
    <3>1. named[Head(emitted)].path \in Paths
      <4>1. /\ emitted # <<>> /\ emitted \in Seq(1..Len(named)) /\ Len(named) \in Nat
            /\ named \in Seq([path : Paths, opened : {0, 1}])
        BY <2>3 DEF OpenEmitted, LaunchInv
      <4>2. Head(emitted) \in 1..Len(named)
        BY <4>1
      <4>3. named[Head(emitted)] \in [path : Paths, opened : {0, 1}]
        BY <4>1, <4>2, ElementOfSeq
      <4> QED BY <4>3
    <3>2. openDatabase(named[Head(emitted)].path)
      BY <2>3 DEF OpenEmitted, handleOpenFile
    <3>3. UNCHANGED <<backend, session, marker, unpublished>>
      BY <2>3 DEF OpenEmitted
    <3> QED BY <3>1, <3>2, <3>3, AsksStore, AskingKeepsShown
  <2> QED BY <1>4, <2>1, <2>2, <2>3 DEF System
<1>5. CASE UNCHANGED vars
  <2>1. UNCHANGED screen
    BY <1>5 DEF vars, screen
  <2> QED BY <2>1, ScreenKept
<1> QED BY <1>1, <1>2, <1>3, <1>4, <1>5 DEF Next

---------------------------------------------------------------------------
(* The settings.  What a file holds of the edits made on it only grows     *)
(* along its way: from the disk through the queued saves to the page,      *)
(* but for the edits that were lost.                                       *)

Made(p) == {n \in 1..Len(madeOn) : madeOn[n] = p}
Saves == [path : Paths, edits : SUBSET Nat]
Carrying == {"loaded", "columns", "described"}

SettingsInv ==
  /\ madeOn \in Seq(Paths) /\ disk \in [Paths -> SUBSET Nat] /\ saves \in Seq(Saves)
  /\ \A p \in Paths : disk[p] \subseteq Made(p)
  /\ fileConfig \subseteq Made(shown.path)
  /\ \A i \in 1..Len(saves) : saves[i].edits \subseteq Made(saves[i].path)
  /\ phase \in Carrying => loaded \subseteq Made(Request.path)
  /\ Made(shown.path) \ outdated \subseteq fileConfig
  /\ \A i \in 1..Len(saves) : disk[saves[i].path] \ outdated \subseteq saves[i].edits
  /\ \A i, j \in 1..Len(saves) :
       i < j /\ saves[i].path = saves[j].path => saves[i].edits \ outdated \subseteq saves[j].edits
  /\ EditsKept

LEMMA SettingsStart == ASSUME None \notin Paths, Init PROVE SettingsInv
  BY DEF Init, SettingsInv, Made, Saves, Carrying, EditsKept

LEMMA RemoveAtFirst ==
  ASSUME NEW S, NEW seq \in Seq(S), seq # <<>>
  PROVE  RemoveAt(seq, 1) = Tail(seq)
<1>1. RemoveAt(seq, 1) = SubSeq(seq, 1, 0) \o SubSeq(seq, 2, Len(seq))
  <2>1. 1 - 1 = 0 /\ 1 + 1 = 2
    OBVIOUS
  <2> QED BY <2>1 DEF RemoveAt
<1>2. SubSeq(seq, 1, 0) = <<>> /\ SubSeq(seq, 2, Len(seq)) = Tail(seq)
  OBVIOUS
<1>3. Tail(seq) \in Seq(S)
  OBVIOUS
<1>4. <<>> \o Tail(seq) = Tail(seq)
  BY <1>3
<1> QED BY <1>1, <1>2, <1>4

(* A step that touches neither the settings nor what the page shows.       *)
LEMMA SettingsKeptAside ==
  ASSUME SettingsInv, UNCHANGED <<madeOn, disk, saves, fileConfig, shown, outdated>>,
         phase' \in Carrying => loaded' \subseteq Made(Request'.path)
  PROVE  SettingsInv'
<1>1. \A p : Made(p)' = Made(p)
  BY DEF Made
<1>2. EditsKept'
  BY DEF SettingsInv, EditsKept
<1>3. phase' \in Carrying => loaded' \subseteq Made(Request.path)'
  BY <1>1
<1> QED BY <1>1, <1>2, <1>3 DEF SettingsInv

LEMMA RunningKeepsSettings ==
  ASSUME None \notin Paths, QueueInv, ShownInv, SettingsInv, RunRequest
  PROVE  SettingsInv'
<1> USE DEF QuietPage, launchVars, requestVars, pageVars, saveVars, backendVars, otherVars
<1>0. Running
  BY DEF RunRequest, Start, OpenCommand, CloseCommand, Mark, Failed, Opened, LoadConfig, Loaded,
         Describe, Publish, Closed
<1>1. CASE Start \/ OpenCommand \/ CloseCommand \/ Mark \/ Failed \/ Opened
  <2>1. UNCHANGED <<madeOn, disk, saves, fileConfig, shown, outdated>> /\ phase' \notin Carrying
    BY <1>1 DEF Start, OpenCommand, CloseCommand, Mark, Failed, Opened, PageStays, Finish, Proceed,
                Carrying
  <2> QED BY <2>1, SettingsKeptAside
<1>2. CASE LoadConfig
  <2>1. /\ UNCHANGED <<madeOn, disk, saves, fileConfig, shown, outdated, queue>>
        /\ loaded' = load_view_config
    BY <1>2 DEF LoadConfig, Proceed
  <2>2. Request.op = "open" /\ Request.path \in Paths /\ backend.path = Request.path
    BY <1>0, <1>2, RunningRequest DEF LoadConfig, QueueInv, Fits, ShownInv, Unshown, Requests
  <2>3. loaded' \subseteq Made(Request.path)
    BY <2>1, <2>2 DEF load_view_config, SettingsInv
  <2> QED BY <2>1, <2>3, SettingsKeptAside DEF Request
<1>3. CASE Loaded \/ Describe
  <2>1. /\ UNCHANGED <<madeOn, disk, saves, fileConfig, shown, outdated, loaded>>
        /\ phase \in Carrying /\ (UNCHANGED queue \/ phase' = "start")
    BY <1>3 DEF Loaded, Describe, Finish, Proceed, Carrying
  <2> QED BY <2>1, SettingsKeptAside DEF Request, Carrying, SettingsInv
<1>4. CASE (Publish \/ Closed) /\ Superseded
  <2>1. UNCHANGED <<madeOn, disk, saves, fileConfig, shown, outdated>> /\ phase' = "start"
    BY <1>4 DEF Publish, Closed, Finish
  <2> QED BY <2>1, SettingsKeptAside DEF Carrying
<1>5. CASE Publish /\ ~Superseded
  <2>1. /\ UNCHANGED <<madeOn, disk, saves>> /\ phase' = "start"
        /\ shown'.path = Request.path /\ fileConfig' = loaded
        /\ outdated' = outdated \cup {n \in DOMAIN madeOn : madeOn[n] = Request.path /\ n \notin loaded}
        /\ loaded \subseteq Made(Request.path)
    BY <1>5 DEF Publish, Finish, SettingsInv, Carrying
  <2>2. \A p : Made(p)' = Made(p)
    BY <2>1 DEF Made
  <2>3. /\ fileConfig' \subseteq Made(shown'.path)
        /\ Made(shown'.path) \ outdated' \subseteq fileConfig'
    BY <2>1 DEF Made, SettingsInv
  <2>4. EditsKept'
    BY <2>1 DEF EditsKept, SettingsInv
  <2> QED BY <2>1, <2>2, <2>3, <2>4 DEF SettingsInv, Carrying
<1>6. CASE Closed /\ ~Superseded
  <2>1. /\ UNCHANGED <<madeOn, disk, saves, outdated>> /\ phase' = "start"
        /\ shown'.path = None /\ fileConfig' = {}
    BY <1>6 DEF Closed, Finish, NoFile
  <2>2. \A p : Made(p)' = Made(p)
    BY <2>1 DEF Made
  <2>3. Made(None) = {}
    BY DEF Made, SettingsInv
  <2>4. EditsKept'
    BY <2>1 DEF EditsKept, SettingsInv
  <2> QED BY <2>1, <2>2, <2>3, <2>4 DEF SettingsInv, Carrying
<1> QED BY <1>1, <1>2, <1>3, <1>4, <1>5, <1>6 DEF RunRequest

LEMMA EditKeepsSettings ==
  ASSUME QueueInv, ShownInv, SettingsInv, Edit
  PROVE  SettingsInv'
<1> USE DEF requestVars
<1>0. PICK p, n, save : p = shown.path /\ n = Len(madeOn) + 1
                        /\ save = [path |-> p, edits |-> fileConfig \cup {n}]
  OBVIOUS
<1>1. /\ p # None /\ madeOn' = Append(madeOn, p) /\ fileConfig' = fileConfig \cup {n}
      /\ saves' = Append(saves, save) /\ UNCHANGED <<shown, disk, outdated, loaded, queue, phase>>
  BY <1>0 DEF Edit, saveViewConfig
<1>2. /\ p \in Paths /\ fileConfig \subseteq Made(p) /\ Made(p) \subseteq Nat
      /\ Made(p) \ outdated \subseteq fileConfig
  BY <1>0, <1>1 DEF ShownInv, OpenFile, NoFile, SettingsInv, Made
<1>3. /\ madeOn' \in Seq(Paths) /\ Len(madeOn') = n /\ n \in Nat /\ madeOn'[n] = p
      /\ \A k \in 1..Len(madeOn) : madeOn'[k] = madeOn[k]
  BY <1>0, <1>1, <1>2, AppendedSeq DEF SettingsInv
<1>4. Made(p)' = Made(p) \cup {n} /\ \A q : q # p => Made(q)' = Made(q)
  BY <1>0, <1>3 DEF Made, SettingsInv
<1>5. save \in Saves /\ save.path = p /\ save.edits = fileConfig \cup {n}
  BY <1>0, <1>2, <1>3 DEF Saves
<1>6. /\ saves' \in Seq(Saves) /\ Len(saves') = Len(saves) + 1 /\ saves'[Len(saves) + 1] = save
      /\ \A i \in 1..Len(saves) : saves'[i] = saves[i]
      /\ Len(saves) \in Nat
  BY <1>1, <1>5, AppendedSeq DEF SettingsInv
<1>7. \A i \in 1..Len(saves') : \/ i \in 1..Len(saves) /\ saves'[i] = saves[i]
                                \/ i = Len(saves) + 1 /\ saves'[i] = save
  BY <1>6
<1>8. \A i \in 1..Len(saves') : /\ saves'[i].edits \subseteq Made(saves[i].path)'
                                /\ disk'[saves'[i].path] \ outdated' \subseteq saves'[i].edits
  <2> SUFFICES ASSUME NEW i \in 1..Len(saves')
               PROVE  /\ saves'[i].edits \subseteq Made(saves[i].path)'
                      /\ disk'[saves'[i].path] \ outdated' \subseteq saves'[i].edits
    OBVIOUS
  <2>1. CASE i \in 1..Len(saves) /\ saves'[i] = saves[i]
    BY <1>1, <1>4, <2>1 DEF SettingsInv
  <2>2. CASE i = Len(saves) + 1 /\ saves'[i] = save
    <3>1. disk[p] \subseteq Made(p)
      BY <1>2 DEF SettingsInv
    <3> QED BY <1>1, <1>2, <1>4, <1>5, <2>2, <3>1
  <2> QED BY <1>7, <2>1, <2>2
<1>9. \A i, j \in 1..Len(saves') :
        i < j
          /\ saves'[i].path = saves'[j].path => saves'[i].edits \ outdated' \subseteq saves'[j].edits
  <2> SUFFICES ASSUME NEW i \in 1..Len(saves'), NEW j \in 1..Len(saves'), i < j,
                      saves'[i].path = saves'[j].path
               PROVE  saves'[i].edits \ outdated' \subseteq saves'[j].edits
    OBVIOUS
  <2>1. i \in 1..Len(saves) /\ saves'[i] = saves[i]
    BY <1>6, <1>7
  <2>2. CASE j \in 1..Len(saves) /\ saves'[j] = saves[j]
    BY <1>1, <2>1, <2>2 DEF SettingsInv
  <2>3. CASE j = Len(saves) + 1 /\ saves'[j] = save
    <3>1. saves[i].edits \subseteq Made(p)
      BY <1>5, <2>1, <2>3 DEF SettingsInv
    <3> QED BY <1>1, <1>2, <1>5, <2>1, <2>3, <3>1
  <2> QED BY <1>7, <2>2, <2>3
<1>10. EditsKept'
  <2> SUFFICES ASSUME NEW k \in DOMAIN madeOn', k \notin outdated'
               PROVE  \/ k \in disk'[madeOn'[k]]
                      \/ \E i \in DOMAIN saves' : saves'[i].path = madeOn'[k] /\ k \in saves'[i].edits
    BY DEF EditsKept
  <2>0. DOMAIN saves' = 1..Len(saves') /\ DOMAIN saves = 1..Len(saves) /\ DOMAIN madeOn' = 1..n
        /\ DOMAIN madeOn = 1..Len(madeOn)
    BY <1>3, <1>6 DEF SettingsInv
  <2>1. CASE k = n
    BY <1>3, <1>5, <1>6, <2>0, <2>1
  <2>2. CASE k # n
    <3>1. k \in DOMAIN madeOn /\ madeOn'[k] = madeOn[k] /\ k \notin outdated
      BY <1>0, <1>1, <1>3, <2>0, <2>2
    <3>2. \/ k \in disk[madeOn[k]]
          \/ \E i \in DOMAIN saves : saves[i].path = madeOn[k] /\ k \in saves[i].edits
      BY <3>1 DEF SettingsInv, EditsKept
    <3>3. \A i \in DOMAIN saves : i \in DOMAIN saves' /\ saves'[i] = saves[i]
      BY <1>6, <2>0
    <3> QED BY <1>1, <3>1, <3>2, <3>3
  <2> QED BY <2>1, <2>2
<1>11. phase' \in Carrying => loaded' \subseteq Made(Request.path)'
  <2>1. Request' = Request
    BY <1>1 DEF Request
  <2> QED BY <1>1, <1>4, <2>1 DEF SettingsInv
<1>12. \A q \in Paths : disk'[q] \subseteq Made(q)'
  BY <1>1, <1>4 DEF SettingsInv
<1>13. /\ fileConfig' \subseteq Made(shown.path)'
       /\ Made(shown.path)' \ outdated' \subseteq fileConfig'
  BY <1>0, <1>1, <1>2, <1>4
<1>14. disk' \in [Paths -> SUBSET Nat]
  BY <1>1 DEF SettingsInv
<1> QED BY <1>3, <1>6, <1>8, <1>9, <1>10, <1>11, <1>12, <1>13, <1>14 DEF SettingsInv

(* The save whose turn it is leaves the queue.                             *)
LEMMA HeadSave ==
  ASSUME SettingsInv, NEW i \in SaveTurns, saves' = RemoveAt(saves, i)
  PROVE  /\ i = 1 /\ Len(saves) \in Nat \ {0} /\ saves[1] \in Saves
         /\ saves' \in Seq(Saves) /\ Len(saves') = Len(saves) - 1
         /\ \A k \in 1..Len(saves') : k + 1 \in 1..Len(saves) /\ saves'[k] = saves[k + 1]
         /\ \A k \in 1..Len(saves) \ {1} : k - 1 \in 1..Len(saves') /\ saves'[k - 1] = saves[k]
<1>1. i = 1 /\ saves # <<>> /\ saves \in Seq(Saves)
  BY DEF SaveTurns, SettingsInv
<1>2. saves' = Tail(saves)
  BY <1>1, RemoveAtFirst
<1>3. /\ saves' \in Seq(Saves) /\ Len(saves') = Len(saves) - 1 /\ Len(saves) \in Nat \ {0}
      /\ \A k \in 1..Len(saves) - 1 : saves'[k] = saves[k + 1]
  BY <1>1, <1>2, TailOfSeq
<1>4. saves[1] \in Saves
  BY <1>1, <1>3, ElementOfSeq
<1>5. \A k \in 1..Len(saves) \ {1} : k - 1 \in 1..Len(saves') /\ saves'[k - 1] = saves[k]
  <2> SUFFICES ASSUME NEW k \in 1..Len(saves) \ {1}
               PROVE  k - 1 \in 1..Len(saves') /\ saves'[k - 1] = saves[k]
    OBVIOUS
  <2>1. k - 1 \in 1..Len(saves) - 1 /\ (k - 1) + 1 = k
    BY <1>3
  <2> QED BY <1>3, <2>1
<1> QED BY <1>1, <1>3, <1>4, <1>5

LEMMA SavingKeepsSettings ==
  ASSUME QueueInv, ShownInv, SettingsInv, SaveLands \/ SaveFails
  PROVE  SettingsInv'
<1> USE DEF requestVars, pageVars
<1>1. PICK i \in SaveTurns :
        /\ saves' = RemoveAt(saves, i) /\ UNCHANGED <<requestVars, pageVars, madeOn>>
        /\ \/ save_view_config(saves[i]) /\ UNCHANGED outdated
           \/ outdated' = outdated \cup saves[i].edits /\ UNCHANGED disk
  BY DEF SaveLands, SaveFails
<1>2. /\ i = 1 /\ Len(saves) \in Nat \ {0} /\ saves[1] \in Saves
      /\ saves' \in Seq(Saves) /\ Len(saves') = Len(saves) - 1
      /\ \A k \in 1..Len(saves') : k + 1 \in 1..Len(saves) /\ saves'[k] = saves[k + 1]
      /\ \A k \in 1..Len(saves) \ {1} : k - 1 \in 1..Len(saves') /\ saves'[k - 1] = saves[k]
  BY <1>1, HeadSave
<1>3. PICK save : save = saves[1]
  OBVIOUS
<1>4. save \in Saves /\ save.path \in Paths /\ save.edits \in SUBSET Nat
        /\ save.edits \subseteq Made(save.path)
  BY <1>2, <1>3 DEF Saves, SettingsInv
<1>5. /\ \A p : Made(p)' = Made(p)
      /\ outdated \subseteq outdated'
  BY <1>1 DEF Made
<1>6. /\ disk' \in [Paths -> SUBSET Nat] /\ disk \in [Paths -> SUBSET Nat]
      /\ \A p \in Paths : disk'[p] \in {disk[p]} \/ (p = save.path /\ disk'[p] = save.edits
                            /\ outdated' = outdated)
  BY <1>1, <1>2, <1>3, <1>4 DEF save_view_config, SettingsInv
<1>7. \A p \in Paths : disk'[p] \subseteq Made(p)
  BY <1>4, <1>6 DEF SettingsInv
<1>8. ASSUME NEW k \in 1..Len(saves')
      PROVE  /\ saves'[k].edits \subseteq Made(saves'[k].path)
             /\ disk'[saves'[k].path] \ outdated' \subseteq saves'[k].edits
  <2>1. /\ k + 1 \in 1..Len(saves) /\ saves'[k] = saves[k + 1]
        /\ 1 \in 1..Len(saves) /\ 1 < k + 1 /\ saves[k + 1] \in Saves
    BY <1>2, ElementOfSeq DEF SettingsInv
  <2>2. saves'[k].path \in Paths
    BY <2>1 DEF Saves
  <2>3. saves[k + 1].edits \subseteq Made(saves[k + 1].path)
        /\ disk[saves[k + 1].path] \ outdated \subseteq saves[k + 1].edits
        /\ (save.path = saves[k + 1].path => save.edits \ outdated \subseteq saves[k + 1].edits)
    BY <1>3, <2>1 DEF SettingsInv
  <2> QED BY <1>5, <1>6, <2>1, <2>2, <2>3
<1>9. ASSUME NEW j \in 1..Len(saves'), NEW k \in 1..Len(saves'), j < k,
             saves'[j].path = saves'[k].path
      PROVE  saves'[j].edits \ outdated' \subseteq saves'[k].edits
  <2>1. /\ j + 1 \in 1..Len(saves) /\ saves'[j] = saves[j + 1]
        /\ k + 1 \in 1..Len(saves) /\ saves'[k] = saves[k + 1]
        /\ j + 1 < k + 1
    BY <1>2, <1>9
  <2>2. saves[j + 1].edits \ outdated \subseteq saves[k + 1].edits
    BY <1>9, <2>1 DEF SettingsInv
  <2> QED BY <1>5, <2>1, <2>2
<1>10. EditsKept'
  <2> SUFFICES ASSUME NEW n \in DOMAIN madeOn', n \notin outdated'
               PROVE  \/ n \in disk'[madeOn'[n]]
                      \/ \E k \in DOMAIN saves' : saves'[k].path = madeOn'[n] /\ n \in saves'[k].edits
    BY DEF EditsKept
  <2>1. /\ n \in DOMAIN madeOn /\ n \notin outdated /\ madeOn' = madeOn /\ madeOn[n] \in Paths
        /\ DOMAIN saves' = 1..Len(saves') /\ DOMAIN saves = 1..Len(saves)
    BY <1>1, <1>2, <1>5 DEF SettingsInv
  <2>2. \/ n \in disk[madeOn[n]]
        \/ \E k \in 1..Len(saves) : saves[k].path = madeOn[n] /\ n \in saves[k].edits
    BY <2>1 DEF SettingsInv, EditsKept
  <2>3. CASE n \in disk[madeOn[n]]
    <3>1. CASE disk'[madeOn[n]] = disk[madeOn[n]]
      BY <2>1, <2>3, <3>1
    <3>2. CASE madeOn[n] = save.path /\ disk'[madeOn[n]] = save.edits
      <4>1. disk[save.path] \ outdated \subseteq save.edits
        BY <1>2, <1>3 DEF SettingsInv
      <4> QED BY <2>1, <2>3, <3>2, <4>1
    <3> QED BY <1>6, <2>1, <3>1, <3>2
  <2>4. ASSUME NEW k \in 1..Len(saves), saves[k].path = madeOn[n], n \in saves[k].edits
        PROVE  \/ n \in disk'[madeOn'[n]]
               \/ \E l \in DOMAIN saves' : saves'[l].path = madeOn'[n] /\ n \in saves'[l].edits
    <3>1. CASE k = 1
      <4>1. save.path = madeOn[n] /\ n \in save.edits
        BY <1>3, <2>4, <3>1
      <4>2. save_view_config(saves[i])
        BY <1>1, <1>2, <1>3, <4>1
      <4>3. disk'[save.path] = save.edits
        BY <1>2, <1>3, <1>4, <1>6, <4>2 DEF save_view_config
      <4> QED BY <2>1, <4>1, <4>3
    <3>2. CASE k # 1
      <4>1. k - 1 \in 1..Len(saves') /\ saves'[k - 1] = saves[k]
        BY <1>2, <3>2
      <4> QED BY <2>1, <2>4, <4>1
    <3> QED BY <3>1, <3>2
  <2> QED BY <2>1, <2>2, <2>3, <2>4
<1>11. Request' = Request /\ UNCHANGED <<phase, loaded, shown, fileConfig, madeOn>>
  BY <1>1 DEF Request
<1>12. /\ phase' \in Carrying => loaded' \subseteq Made(Request.path)'
       /\ fileConfig' \subseteq Made(shown.path)'
       /\ Made(shown.path)' \ outdated' \subseteq fileConfig'
  BY <1>5, <1>11 DEF SettingsInv, Made
<1>13. \A k \in 1..Len(saves') : saves'[k].edits \subseteq Made(saves[k].path)'
  BY <1>8, <1>11 DEF Made
<1>14. \A p \in Paths : disk'[p] \subseteq Made(p)'
  BY <1>5, <1>7
<1>15. madeOn' \in Seq(Paths)
  BY <1>11 DEF SettingsInv
<1> QED BY <1>2, <1>6, <1>8, <1>9, <1>10, <1>12, <1>13, <1>14, <1>15 DEF SettingsInv

LEMMA SettingsKeep ==
  ASSUME None \notin Paths, QueueInv, ShownInv, SettingsInv, [Next]_vars
  PROVE  SettingsInv'
<1> USE DEF launchVars, requestVars, pageVars, saveVars, backendVars, otherVars
<1>1. CASE RunRequest
  BY <1>1, RunningKeepsSettings
<1>2. CASE Edit
  BY <1>2, EditKeepsSettings
<1>3. CASE SaveLands \/ SaveFails
  BY <1>3, SavingKeepsSettings
<1>4. ASSUME UNCHANGED saveVars, closeDatabase \/ \E path : openDatabase(path) PROVE SettingsInv'
  <2>1. /\ UNCHANGED <<madeOn, disk, saves, fileConfig, shown, outdated, loaded, phase>>
        /\ \E r : queue' = Append(queue, r)
    BY <1>4 DEF closeDatabase, openDatabase
  <2>2. phase \in Carrying => Request' = Request
    BY <2>1 DEF QueueInv, Carrying, Running, Request
  <2> QED BY <2>1, <2>2, SettingsKeptAside DEF SettingsInv
<1>5. CASE UNCHANGED <<requestVars, pageVars, saveVars>>
  BY <1>5, SettingsKeptAside DEF Request, SettingsInv
<1>6. CASE User
  BY <1>4, <1>6 DEF User
<1>7. CASE System
  <2>1. CASE OpenInitial
    BY <1>4, <1>5, <2>1 DEF OpenInitial, handleOpenFile
  <2>2. CASE OpenEmitted
    BY <1>4, <2>2 DEF OpenEmitted, handleOpenFile
  <2>3. CASE handle_open_request \/ Listen \/ take_initial
    BY <1>5, <2>3 DEF handle_open_request, Listen, take_initial
  <2> QED BY <1>7, <2>1, <2>2, <2>3 DEF System
<1>8. CASE try_activate_existing \/ UNCHANGED vars
  BY <1>5, <1>8 DEF try_activate_existing, vars
<1> QED BY <1>1, <1>2, <1>3, <1>6, <1>7, <1>8 DEF Next

---------------------------------------------------------------------------
(* The store as a whole, and what its steps are to the panels.             *)

StoreInv == QueueInv /\ ShownInv /\ LaunchInv /\ SettingsInv

LEMMA StoreInvStarts == ASSUME CastAssumption, Init PROVE StoreInv
  BY StoreStarts, LaunchStarts, SettingsStart DEF CastAssumption, StoreInv

LEMMA StoreInvKeeps == ASSUME CastAssumption, StoreInv, [Next]_vars PROVE StoreInv'
  BY StoreKeeps, LaunchKeeps, SettingsKeep DEF CastAssumption, StoreInv

(* A publication always shows a session that was not on screen, and while  *)
(* the screen stays, what the backend has that is not shown stays unshown. *)
LEMMA ScreenChanges ==
  ASSUME StoreInv, [Next]_vars
  PROVE  /\ cast' = cast
         /\ shown' = shown /\ unpublished /\ ~unpublished' => shown = NoFile
<1> USE DEF QuietPage, launchVars, requestVars, pageVars, saveVars, backendVars, otherVars
<1>1. CASE Publish
  <2>1. backend # NoFile /\ unpublished /\ described = backend /\ backend.path = Request.path
    BY <1>1 DEF Publish, StoreInv, ShownInv, QueueInv, Fits, Unshown
  <2>2. CASE Superseded
    BY <1>1, <2>2 DEF Publish
  <2>3. CASE ~Superseded
    <3>1. shown'.session = backend.session /\ cast' = cast
      BY <1>1, <2>1, <2>3 DEF Publish
    <3>2. backend.session > shown.session /\ shown.session \in Nat /\ backend.session \in Nat
      BY <2>1 DEF StoreInv, ShownInv, OpenFile, NoFile
    <3> QED BY <3>1, <3>2
  <2> QED BY <2>2, <2>3
<1>2. CASE Closed
  BY <1>2 DEF Closed
<1>3. CASE Start \/ OpenCommand \/ CloseCommand \/ Mark \/ Failed \/ Opened \/ LoadConfig
             \/ Loaded \/ Describe
  BY <1>3 DEF Start, OpenCommand, CloseCommand, Mark, Failed, Opened, LoadConfig, Loaded, Describe
<1>4. CASE System
  <2>1. CASE handle_open_request
    BY <2>1 DEF handle_open_request
  <2>2. CASE Listen \/ take_initial
    BY <2>2 DEF Listen, take_initial
  <2>3. CASE OpenInitial \/ OpenEmitted
    BY <2>3 DEF OpenInitial, OpenEmitted
  <2> QED BY <1>4, <2>1, <2>2, <2>3 DEF System
<1>5. CASE User \/ Edit \/ SaveLands \/ SaveFails \/ try_activate_existing \/ UNCHANGED vars
  BY <1>5 DEF User, Edit, SaveLands, SaveFails, try_activate_existing, vars
<1> QED BY <1>1, <1>2, <1>3, <1>4, <1>5 DEF Next, RunRequest

---------------------------------------------------------------------------
(* The panels.  What they hold of the file on screen is of the session the *)
(* backend has open, unless a request has changed the backend and shown    *)
(* nothing yet; and what they wait for is for the table that is selected.  *)

Abouts == {None} \cup Tables \cup Statements
Askings == [kind : Owned \cup {"check"}, about : Abouts, token : Nat, generation : Nat,
            served : BOOLEAN, session : Nat]

Current(s) == s = shown.session \/ unpublished \/ shown = NoFile

PanelShape ==
  /\ dbOpenGeneration \in Nat /\ latest \in [Owned -> Nat] /\ asked \subseteq Askings
  /\ content \in [Owned -> [about : Abouts, session : Nat]]
  /\ selectedTable \in Tables \cup {None} /\ sql \in Abouts
  /\ \A r \in asked : /\ r.generation <= dbOpenGeneration
                      /\ r.kind \in Owned => r.token <= latest[r.kind]
  /\ lastCheck.generation \in 0..dbOpenGeneration

PanelsCurrent ==
  /\ \A r \in asked : r.generation = dbOpenGeneration /\ r.served /\ r.session # 0 => Current(r.session)
  /\ \A k \in Owned : content[k] # Nothing => Current(content[k].session)
  /\ lastCheck.wrong /\ lastCheck.generation = dbOpenGeneration => Current(lastCheck.session)

AskedForSelected ==
  /\ \A r \in asked : r.kind = "columns" => r.about \in Tables
  /\ shown # NoFile => \A r \in asked : r.kind = "columns" /\ owns(r) => r.about = selectedTable

(* A cast without clicks has no panels.                                    *)
NoPanels ==
  cast.clicks = 0 => /\ asked = {} /\ clicks = 0 /\ ~lastCheck.wrong
                     /\ \A k \in Owned : content[k] = Nothing

PanelInv == /\ PanelShape /\ PanelsCurrent /\ AskedForSelected /\ NoPanels
            /\ StructureOfSelected /\ LoneTableSelected

LEMMA PanelsStart ==
  ASSUME CastAssumption, PanelsAssumption, Init, PanelsInit
  PROVE  PanelInv
<1>0. shown = NoFile /\ None \notin Paths
  BY DEF Init, CastAssumption
<1>1. PanelShape
  BY DEF PanelsInit, PanelShape, Abouts, Nothing, Unchecked
<1>2. PanelsCurrent /\ AskedForSelected /\ NoPanels
  BY <1>0 DEF PanelsInit, PanelsCurrent, Current, AskedForSelected, NoPanels, Unchecked
<1>3. StructureOfSelected /\ LoneTableSelected
  BY <1>0 DEF StructureOfSelected, LoneTableSelected, NoFile, PanelsAssumption
<1> QED BY <1>1, <1>2, <1>3 DEF PanelInv

LEMMA OfAskings ==
  ASSUME NEW r \in Askings
  PROVE  /\ r.generation \in Nat /\ r.token \in Nat /\ r.session \in Nat
         /\ r.served \in BOOLEAN /\ r.about \in Abouts /\ r.kind \in Owned \cup {"check"}
  BY DEF Askings

LEMMA OfAsked ==
  ASSUME PanelShape, NEW r \in asked
  PROVE  /\ r \in Askings /\ r.generation \in Nat /\ r.generation <= dbOpenGeneration
         /\ dbOpenGeneration \in Nat /\ r.token \in Nat /\ r.session \in Nat
         /\ r.kind \in Owned => r.token <= latest[r.kind]
<1>1. r \in Askings /\ r.generation <= dbOpenGeneration /\ dbOpenGeneration \in Nat
  BY DEF PanelShape
<1>2. r.kind \in Owned => r.token <= latest[r.kind]
  BY DEF PanelShape
<1> QED BY <1>1, <1>2, OfAskings

(* A new request takes the next token of its kind.                         *)
LEMMA AsksPanels ==
  ASSUME PanelShape, NEW rs, NEW kinds, Asks(rs), dbOpenGeneration' \in Nat,
         dbOpenGeneration <= dbOpenGeneration', kinds \subseteq Owned,
         \A k \in kinds : \E r \in rs : r.kind = k, \A r \in rs : r.kind \in kinds,
         \A r \in rs : r \in Askings /\ r.token = latest[r.kind] + 1 /\ r.generation = dbOpenGeneration'
  PROVE  /\ latest' \in [Owned -> Nat] /\ asked' = asked \cup rs /\ asked' \subseteq Askings
         /\ failed' = failed \ kinds
         /\ \A k \in Owned : latest'[k] = IF k \in kinds THEN latest[k] + 1 ELSE latest[k]
         /\ \A r \in asked' : /\ r.generation <= dbOpenGeneration'
                              /\ r.kind \in Owned => r.token <= latest'[r.kind]
<1>1. /\ latest' = [k \in Owned |-> IF k \in kinds THEN latest[k] + 1 ELSE latest[k]]
      /\ asked' = asked \cup rs /\ failed' = failed \ kinds
  BY DEF Asks, PanelShape
<1>2. \A r \in asked' : r \in Askings /\ r.generation \in Nat /\ r.token \in Nat
  BY <1>1, OfAsked, OfAskings
<1>3. latest' \in [Owned -> Nat] /\ \A k \in Owned : latest[k] \in Nat
  BY <1>1 DEF PanelShape
<1>4. ASSUME NEW r \in asked PROVE r.generation <= dbOpenGeneration'
  <2>1. r.generation \in Nat /\ r.generation <= dbOpenGeneration /\ dbOpenGeneration \in Nat
    BY OfAsked
  <2> QED BY <2>1
<1>5. ASSUME NEW r \in asked', r.kind \in Owned PROVE r.token <= latest'[r.kind]
  <2>0. /\ r.token \in Nat /\ latest[r.kind] \in Nat /\ latest'[r.kind] \in Nat
        /\ latest[r.kind] <= latest'[r.kind]
    BY <1>1, <1>2, <1>3, <1>5
  <2>1. CASE r \in asked
    <3>1. r.token <= latest[r.kind]
      BY <1>5, <2>1, OfAsked
    <3> QED BY <2>0, <3>1
  <2>2. CASE r \in rs
    <3>1. r.token = latest[r.kind] + 1 /\ r.kind \in kinds
      BY <2>2
    <3> QED BY <1>1, <1>5, <2>0, <3>1
  <2> QED BY <1>1, <2>1, <2>2
<1>6. \A r \in rs : r.generation <= dbOpenGeneration'
  OBVIOUS
<1> QED BY <1>1, <1>2, <1>3, <1>4, <1>5, <1>6

(* A new file on screen.                                                   *)
LEMMA OpenedKeepsPanels ==
  ASSUME PanelsAssumption, CastAssumption, PanelInv, OnOpened, UNCHANGED cast,
         shown' # NoFile, cast.clicks # 0
  PROVE  PanelInv'
<1> PICK lone, new, schema, columns :
           /\ lone = (shown'.path \in OneTable) /\ new = dbOpenGeneration + 1
           /\ schema = request("schema", None, new)
           /\ columns = request("columns", LoneTable, new)
  OBVIOUS
<1>0. /\ PanelShape /\ new \in Nat /\ None \in Abouts /\ LoneTable \in Abouts
      /\ LoneTable \in Tables /\ LoneTable # None
      /\ dbOpenGeneration \in Nat /\ dbOpenGeneration < new
  BY DEF PanelInv, PanelShape, Abouts, PanelsAssumption
<1>1. PICK rs, kinds :
        /\ rs = {schema} \cup (IF lone THEN {columns} ELSE {})
        /\ kinds = {"schema"} \cup (IF lone THEN {"columns"} ELSE {})
  OBVIOUS
<1>2. /\ dbOpenGeneration' = new /\ content' = [k \in Owned |-> Nothing]
      /\ selectedTable' = (IF lone THEN LoneTable ELSE None)
      /\ Asks(rs) /\ UNCHANGED <<sql, lastCheck, clicks>>
  BY <1>1 DEF OnOpened, SessionChanged, ResetThenSelect
<1>3. /\ schema \in Askings /\ schema.kind = "schema" /\ schema.token = latest["schema"] + 1
      /\ schema.generation = new /\ schema.served = FALSE
      /\ columns \in Askings /\ columns.kind = "columns" /\ columns.token = latest["columns"] + 1
      /\ columns.generation = new /\ columns.served = FALSE /\ columns.about = LoneTable
  <2>1. latest["schema"] + 1 \in Nat /\ latest["columns"] + 1 \in Nat
    BY <1>0 DEF PanelShape, Owned
  <2>2. /\ schema \in Askings /\ schema.kind = "schema" /\ schema.token = latest["schema"] + 1
        /\ schema.generation = new /\ schema.served = FALSE
    BY <1>0, <2>1 DEF request, Askings, Owned
  <2>3. /\ columns \in Askings /\ columns.kind = "columns" /\ columns.token = latest["columns"] + 1
        /\ columns.generation = new /\ columns.served = FALSE /\ columns.about = LoneTable
    BY <1>0, <2>1 DEF request, Askings, Owned
  <2> QED BY <2>2, <2>3
<1>4. /\ kinds \subseteq Owned /\ (\A k \in kinds : \E r \in rs : r.kind = k)
      /\ \A r \in rs : r.kind \in kinds
      /\ \A r \in rs : r \in Askings /\ r.token = latest[r.kind] + 1 /\ r.generation = new
           /\ r.served = FALSE
      /\ \A r \in rs : r.kind = "columns" => r.about = LoneTable /\ lone
  BY <1>1, <1>3 DEF Owned
<1>5. /\ latest' \in [Owned -> Nat] /\ asked' = asked \cup rs /\ asked' \subseteq Askings
      /\ failed' = failed \ kinds
      /\ \A k \in Owned : latest'[k] = IF k \in kinds THEN latest[k] + 1 ELSE latest[k]
      /\ \A r \in asked' : /\ r.generation <= new
                           /\ r.kind \in Owned => r.token <= latest'[r.kind]
  <2>1. dbOpenGeneration' \in Nat /\ dbOpenGeneration <= dbOpenGeneration'
    BY <1>0, <1>2
  <2>2. \A r \in rs : r \in Askings /\ r.token = latest[r.kind] + 1 /\ r.generation = dbOpenGeneration'
    BY <1>2, <1>4
  <2>3. /\ latest' \in [Owned -> Nat] /\ asked' = asked \cup rs /\ asked' \subseteq Askings
        /\ failed' = failed \ kinds
        /\ \A k \in Owned : latest'[k] = IF k \in kinds THEN latest[k] + 1 ELSE latest[k]
        /\ \A r \in asked' : /\ r.generation <= dbOpenGeneration'
                             /\ r.kind \in Owned => r.token <= latest'[r.kind]
    BY <1>0, <1>2, <1>4, <2>1, <2>2, AsksPanels
  <2> QED BY <1>2, <2>3
<1>6. ASSUME NEW r \in asked PROVE r.generation # new
  <2>1. r.generation \in Nat /\ r.generation <= dbOpenGeneration
    BY <1>0, OfAsked
  <2> QED BY <1>0, <2>1
<1>7. PanelShape'
  <2>1. content' \in [Owned -> [about : Abouts, session : Nat]]
    BY <1>0, <1>2 DEF Nothing
  <2>2. lastCheck'.generation \in 0..new
    BY <1>0, <1>2 DEF PanelShape
  <2> QED BY <1>0, <1>2, <1>5, <2>1, <2>2 DEF PanelShape
<1>8. PanelsCurrent'
  <2>1. \A r \in asked' : r.generation = new => ~r.served
    BY <1>4, <1>5, <1>6
  <2>2. lastCheck'.generation # new
    BY <1>0, <1>2 DEF PanelShape
  <2> QED BY <1>2, <2>1, <2>2 DEF PanelsCurrent
<1>9. AskedForSelected'
  <2>1. \A r \in asked' : r.kind = "columns" /\ r.generation = new => r.about = selectedTable'
    BY <1>2, <1>4, <1>5, <1>6
  <2>2. \A r \in asked' : r.kind = "columns" => r.about \in Tables
    BY <1>0, <1>4, <1>5 DEF PanelInv, AskedForSelected
  <2> QED BY <1>2, <2>1, <2>2 DEF AskedForSelected, owns
<1>10. StructureOfSelected'
  <2>1. \E r \in asked' : r.kind = "schema" /\ r.token = latest'["schema"] /\ r.generation = new
    BY <1>1, <1>3, <1>5 DEF Owned
  <2>2. CASE lone
    <3>1. \E r \in asked' : r.kind = "columns" /\ r.token = latest'["columns"] /\ r.generation = new
      BY <1>1, <1>3, <1>5, <2>2 DEF Owned
    <3> QED BY <1>2, <2>1, <3>1 DEF StructureOfSelected, owns
  <2>3. CASE ~lone
    <3>1. content'["columns"] = Nothing /\ selectedTable' = None /\ Nothing.about = None
      BY <1>2, <2>3 DEF Owned, Nothing
    <3> QED BY <1>2, <2>1, <3>1 DEF StructureOfSelected, owns
  <2> QED BY <2>2, <2>3
<1>11. LoneTableSelected' /\ NoPanels'
  BY <1>2 DEF LoneTableSelected, NoPanels
<1> QED BY <1>7, <1>8, <1>9, <1>10, <1>11 DEF PanelInv

LEMMA StoreKeepsPanels ==
  ASSUME PanelsAssumption, CastAssumption, StoreInv, PanelInv, Store
  PROVE  PanelInv'
<1>0. /\ cast' = cast /\ Effects
      /\ shown' = shown /\ unpublished /\ ~unpublished' => shown = NoFile
  BY ScreenChanges DEF Store
<1>1. CASE cast.clicks = 0
  <2>1. UNCHANGED panelVars
    BY <1>0, <1>1 DEF Effects
  <2>2. PanelShape' /\ NoPanels'
    BY <1>0, <2>1 DEF panelVars, PanelInv, PanelShape, NoPanels
  <2>3. PanelsCurrent' /\ AskedForSelected'
    BY <1>0, <1>1, <2>2 DEF NoPanels, PanelsCurrent, AskedForSelected
  <2>4. StructureOfSelected' /\ LoneTableSelected'
    BY <1>0, <1>1 DEF StructureOfSelected, LoneTableSelected
  <2> QED BY <2>2, <2>3, <2>4 DEF PanelInv
<1>2. CASE cast.clicks # 0 /\ shown' = shown
  <2>1. UNCHANGED panelVars
    BY <1>2 DEF Effects, Store
  <2>2. \A s : Current(s) => Current(s)'
    BY <1>0, <1>2 DEF Current
  <2>3. PanelShape' /\ NoPanels' /\ AskedForSelected' /\ StructureOfSelected' /\ LoneTableSelected'
    BY <1>0, <1>2, <2>1 DEF panelVars, PanelInv, PanelShape, NoPanels, AskedForSelected, owns,
                            StructureOfSelected, LoneTableSelected
  <2>4. PanelsCurrent'
    BY <2>1, <2>2 DEF panelVars, PanelInv, PanelsCurrent
  <2> QED BY <2>3, <2>4 DEF PanelInv
<1>3. CASE cast.clicks # 0 /\ shown' # shown /\ shown' = NoFile
  <2>1. OnClosed
    BY <1>0, <1>3 DEF Effects
  <2>2. NoFile.path = None /\ None \notin OneTable
    BY DEF NoFile, PanelsAssumption, CastAssumption
  <2>3. content' \in [Owned -> [about : Abouts, session : Nat]]
    BY <2>1 DEF OnClosed, PanelInv, PanelShape, Nothing, Abouts
  <2>4. PanelShape'
    BY <2>1, <2>3 DEF OnClosed, PanelInv, PanelShape
  <2>5. NoPanels' /\ PanelsCurrent' /\ AskedForSelected' /\ StructureOfSelected' /\ LoneTableSelected'
    BY <1>0, <1>3, <2>1, <2>2 DEF NoPanels, PanelsCurrent, Current, AskedForSelected,
         StructureOfSelected, LoneTableSelected, OnClosed, PanelInv
  <2> QED BY <2>4, <2>5 DEF PanelInv
<1>4. CASE cast.clicks # 0 /\ shown' # shown /\ shown' # NoFile
  <2>1. OnOpened
    BY <1>0, <1>4 DEF Effects
  <2> QED BY <1>0, <1>4, <2>1, OpenedKeepsPanels
<1> QED BY <1>1, <1>2, <1>3, <1>4

---------------------------------------------------------------------------
(* The steps of the panels.                                                *)

LEMMA OneRequest ==
  ASSUME PanelShape, NEW r \in Askings, r.kind \in Owned, r.token = latest[r.kind] + 1,
         r.generation = dbOpenGeneration, Asks({r}), UNCHANGED dbOpenGeneration
  PROVE  /\ latest' \in [Owned -> Nat] /\ asked' = asked \cup {r} /\ asked' \subseteq Askings
         /\ failed' = failed \ {r.kind}
         /\ r.token = latest'[r.kind]
         /\ \A k \in Owned : k # r.kind => latest'[k] = latest[k]
         /\ \A q \in asked : q.kind = r.kind => q.token # latest'[q.kind]
         /\ \A q \in asked' : /\ q.generation <= dbOpenGeneration'
                              /\ q.kind \in Owned => q.token <= latest'[q.kind]
<1>1. PICK rs, kinds : rs = {r} /\ kinds = {r.kind}
  OBVIOUS
<1>2. /\ dbOpenGeneration' \in Nat /\ dbOpenGeneration <= dbOpenGeneration' /\ kinds \subseteq Owned
      /\ Asks(rs) /\ (\A k \in kinds : \E q \in rs : q.kind = k) /\ (\A q \in rs : q.kind \in kinds)
      /\ \A q \in rs : q \in Askings /\ q.token = latest[q.kind] + 1 /\ q.generation = dbOpenGeneration'
  BY <1>1 DEF PanelShape
<1>3. /\ latest' \in [Owned -> Nat] /\ asked' = asked \cup rs /\ asked' \subseteq Askings
      /\ failed' = failed \ kinds
      /\ \A k \in Owned : latest'[k] = IF k \in kinds THEN latest[k] + 1 ELSE latest[k]
      /\ \A q \in asked' : /\ q.generation <= dbOpenGeneration'
                           /\ q.kind \in Owned => q.token <= latest'[q.kind]
  BY <1>2, AsksPanels
<1>4. ASSUME NEW q \in asked, q.kind = r.kind PROVE q.token # latest'[q.kind]
  <2>1. q.token \in Nat /\ q.token <= latest[q.kind]
    BY <1>4, OfAsked
  <2>2. latest'[q.kind] = latest[q.kind] + 1 /\ latest[q.kind] \in Nat
    BY <1>1, <1>3, <1>4 DEF PanelShape
  <2> QED BY <2>1, <2>2
<1> QED BY <1>1, <1>3, <1>4

LEMMA SelectKeepsPanels ==
  ASSUME PanelsAssumption, PanelInv, selectTable, UNCHANGED vars
  PROVE  PanelInv'
<1>1. /\ UNCHANGED <<shown, cast, unpublished, backend>>
      /\ UNCHANGED <<dbOpenGeneration, content, running, sql, lastCheck>>
      /\ clicks > 0 /\ clicks' = clicks - 1 /\ shown # NoFile
  BY DEF selectTable, Click, vars, pageVars, otherVars, backendVars
<1>2. PICK t \in Tables : /\ shown.path \in OneTable => t = LoneTable
                          /\ selectedTable' = t /\ Asks({request("columns", t, dbOpenGeneration)})
  BY DEF selectTable, PanelsAssumption
<1>3. PICK r : r = [kind |-> "columns", about |-> t, token |-> latest["columns"] + 1,
                    generation |-> dbOpenGeneration, served |-> FALSE, session |-> 0]
  OBVIOUS
<1>4. /\ r \in Askings /\ r.kind = "columns" /\ r.token = latest[r.kind] + 1 /\ r.about = t
      /\ r.generation = dbOpenGeneration /\ r.served = FALSE /\ Asks({r}) /\ r.kind \in Owned
  <2>1. latest["columns"] + 1 \in Nat /\ dbOpenGeneration \in Nat
    BY DEF PanelInv, PanelShape, Owned
  <2>2. Asks({r})
    BY <1>2, <1>3 DEF request
  <2> QED BY <1>3, <2>1, <2>2 DEF Askings, Owned, Abouts
<1>5. /\ latest' \in [Owned -> Nat] /\ asked' = asked \cup {r} /\ asked' \subseteq Askings
      /\ failed' = failed \ {r.kind} /\ r.token = latest'[r.kind]
      /\ \A k \in Owned : k # r.kind => latest'[k] = latest[k]
      /\ \A q \in asked : q.kind = r.kind => q.token # latest'[q.kind]
      /\ \A q \in asked' : /\ q.generation <= dbOpenGeneration'
                           /\ q.kind \in Owned => q.token <= latest'[q.kind]
  BY <1>1, <1>4, OneRequest DEF PanelInv
<1>6. PanelShape' /\ NoPanels'
  BY <1>1, <1>2, <1>5 DEF PanelInv, PanelShape, NoPanels
<1>7. PanelsCurrent'
  BY <1>1, <1>4, <1>5 DEF PanelInv, PanelsCurrent, Current
<1>8. AskedForSelected'
  BY <1>1, <1>2, <1>4, <1>5 DEF PanelInv, AskedForSelected, owns
<1>9. StructureOfSelected'
  <2>1. \E q \in asked' : q.kind = "columns" /\ q.token = latest'[q.kind]
          /\ q.generation = dbOpenGeneration'
    BY <1>1, <1>4, <1>5
  <2>2. ASSUME cast.clicks > 0, "schema" \notin failed', ~\E q \in asked' : q.kind = "schema"
          /\ owns(q)'
        PROVE  content["schema"] # Nothing
    <3>1. "schema" \notin failed /\ ~\E q \in asked : q.kind = "schema" /\ owns(q)
      BY <1>1, <1>4, <1>5, <2>2 DEF owns, Owned
    <3> QED BY <1>1, <2>2, <3>1 DEF PanelInv, StructureOfSelected
  <2> QED BY <1>1, <2>1, <2>2 DEF StructureOfSelected, owns
<1>10. LoneTableSelected'
  BY <1>1, <1>2 DEF LoneTableSelected
<1> QED BY <1>6, <1>7, <1>8, <1>9, <1>10 DEF PanelInv

LEMMA TypeKeepsPanels ==
  ASSUME PanelInv, Type, UNCHANGED vars
  PROVE  PanelInv'
<1>1. /\ UNCHANGED <<shown, cast, unpublished, backend>>
      /\ UNCHANGED <<dbOpenGeneration, asked, latest, failed, content, selectedTable, lastCheck>>
      /\ sql' \in Statements /\ clicks > 0
  BY DEF Type, Click, vars, pageVars, otherVars, backendVars
<1>2. PanelShape' /\ NoPanels'
  BY <1>1 DEF PanelInv, PanelShape, NoPanels, Abouts
<1>3. PanelsCurrent' /\ AskedForSelected'
  BY <1>1 DEF PanelInv, PanelsCurrent, Current, AskedForSelected, owns
<1>4. StructureOfSelected' /\ LoneTableSelected'
  BY <1>1 DEF PanelInv, StructureOfSelected, LoneTableSelected, owns
<1> QED BY <1>2, <1>3, <1>4 DEF PanelInv

LEMMA ExecuteKeepsPanels ==
  ASSUME PanelsAssumption, PanelInv, executeSql, UNCHANGED vars
  PROVE  PanelInv'
<1>1. /\ UNCHANGED <<shown, cast, unpublished, backend>>
      /\ UNCHANGED <<dbOpenGeneration, selectedTable, sql, lastCheck>>
      /\ clicks > 0 /\ shown # NoFile
      /\ content' = [content EXCEPT !["sql"] = Nothing] /\ Asks({request("sql", sql, dbOpenGeneration)})
  BY DEF executeSql, Click, vars, pageVars, otherVars, backendVars
<1>2. PICK r : r = [kind |-> "sql", about |-> sql, token |-> latest["sql"] + 1,
                    generation |-> dbOpenGeneration, served |-> FALSE, session |-> 0]
  OBVIOUS
<1>3. /\ r \in Askings /\ r.kind = "sql" /\ r.token = latest[r.kind] + 1
      /\ r.generation = dbOpenGeneration /\ r.served = FALSE /\ Asks({r}) /\ r.kind \in Owned
  <2>1. latest["sql"] + 1 \in Nat /\ dbOpenGeneration \in Nat /\ sql \in Abouts
    BY DEF PanelInv, PanelShape, Owned
  <2>2. Asks({r})
    BY <1>1, <1>2 DEF request
  <2> QED BY <1>2, <2>1, <2>2 DEF Askings, Owned
<1>4. /\ latest' \in [Owned -> Nat] /\ asked' = asked \cup {r} /\ asked' \subseteq Askings
      /\ failed' = failed \ {r.kind}
      /\ \A k \in Owned : k # r.kind => latest'[k] = latest[k]
      /\ \A q \in asked' : /\ q.generation <= dbOpenGeneration'
                           /\ q.kind \in Owned => q.token <= latest'[q.kind]
  BY <1>1, <1>3, OneRequest DEF PanelInv
<1>5. content' \in [Owned -> [about : Abouts, session : Nat]]
  BY <1>1 DEF PanelInv, PanelShape, Nothing, Abouts
<1>6. \A k \in Owned : content'[k] = IF k = "sql" THEN Nothing ELSE content[k]
  BY <1>1 DEF PanelInv, PanelShape
<1>7. PanelShape' /\ NoPanels'
  BY <1>1, <1>4, <1>5 DEF PanelInv, PanelShape, NoPanels
<1>8. PanelsCurrent'
  BY <1>1, <1>3, <1>4, <1>6 DEF PanelInv, PanelsCurrent, Current
<1>9. latest'["columns"] = latest["columns"] /\ latest'["schema"] = latest["schema"]
  BY <1>3, <1>4 DEF Owned
<1>10. AskedForSelected'
  BY <1>1, <1>3, <1>4, <1>9 DEF PanelInv, AskedForSelected, owns
<1>11. StructureOfSelected' /\ LoneTableSelected'
  <2>1. ASSUME NEW k \in {"schema", "columns"}, ~\E q \in asked' : q.kind = k /\ owns(q)'
        PROVE  /\ ~\E q \in asked : q.kind = k /\ owns(q)
               /\ content'[k] = content[k] /\ (k \in failed' <=> k \in failed)
    BY <1>1, <1>3, <1>4, <1>6, <1>9, <2>1 DEF owns, Owned
  <2> QED BY <1>1, <2>1 DEF PanelInv, StructureOfSelected, LoneTableSelected
<1> QED BY <1>7, <1>8, <1>10, <1>11 DEF PanelInv

LEMMA LinterKeepsPanels ==
  ASSUME PanelInv, sqlLinter, UNCHANGED vars
  PROVE  PanelInv'
<1>1. /\ UNCHANGED <<shown, cast, unpublished, backend>>
      /\ UNCHANGED <<dbOpenGeneration, latest, failed, content, selectedTable, sql, lastCheck, clicks>>
      /\ cast.clicks > 0
  BY DEF sqlLinter, vars, pageVars, otherVars, backendVars
<1>2. PICK r : /\ r = [kind |-> "check", about |-> sql, token |-> 0, generation |-> dbOpenGeneration,
                       served |-> FALSE, session |-> 0]
               /\ asked' = asked \cup {r}
  BY DEF sqlLinter
<1>3. r \in Askings /\ r.kind = "check" /\ r.generation = dbOpenGeneration /\ r.served = FALSE
  BY <1>2 DEF PanelInv, PanelShape, Askings
<1>4. PanelShape' /\ NoPanels'
  <2>1. dbOpenGeneration \in Nat /\ r.generation <= dbOpenGeneration' /\ r.kind \notin Owned
    BY <1>1, <1>3 DEF PanelInv, PanelShape, Owned
  <2>2. asked' \subseteq Askings
    BY <1>2, <1>3 DEF PanelInv, PanelShape
  <2>3. \A q \in asked' : /\ q.generation <= dbOpenGeneration'
                          /\ q.kind \in Owned => q.token <= latest'[q.kind]
    BY <1>1, <1>2, <2>1 DEF PanelInv, PanelShape
  <2>4. cast.clicks # 0
    BY <1>1
  <2> QED BY <1>1, <2>1, <2>2, <2>3, <2>4 DEF PanelInv, PanelShape, NoPanels
<1>5. PanelsCurrent' /\ AskedForSelected'
  BY <1>1, <1>2, <1>3 DEF PanelInv, PanelsCurrent, Current, AskedForSelected, owns
<1>6. StructureOfSelected' /\ LoneTableSelected'
  BY <1>1, <1>2 DEF PanelInv, StructureOfSelected, LoneTableSelected, owns
<1> QED BY <1>4, <1>5, <1>6 DEF PanelInv

(* An answer: the request it answers is marked as served by the file the   *)
(* backend has open.                                                       *)
LEMMA ServeKeepsPanels ==
  ASSUME ShownInv, PanelInv, Serve, UNCHANGED vars
  PROVE  PanelInv'
<1>1. /\ UNCHANGED <<shown, cast, unpublished, backend>>
      /\ UNCHANGED <<dbOpenGeneration, latest, failed, content, selectedTable, sql, lastCheck, clicks>>
  BY DEF Serve, vars, pageVars, otherVars, backendVars
<1>0. PICK r \in asked : asked' = (asked \ {r})
                                      \cup {[r EXCEPT !.served = TRUE, !.session = backend.session]}
  BY DEF Serve
<1>2. PICK s : /\ s = [r EXCEPT !.served = TRUE, !.session = backend.session]
               /\ asked' = (asked \ {r}) \cup {s}
  BY <1>0
<1>3. backend.session \in Nat /\ Current(backend.session)
  BY DEF ShownInv, OpenFile, NoFile, Current
<1>4. /\ r \in Askings /\ s \in Askings /\ s.kind = r.kind /\ s.about = r.about /\ s.token = r.token
      /\ s.generation = r.generation /\ s.session = backend.session
  <2>1. r \in Askings
    BY DEF PanelInv, PanelShape
  <2> QED BY <1>2, <1>3, <2>1 DEF Askings
<1>5. asked # {}
  OBVIOUS
<1>6. PanelShape' /\ NoPanels'
  <2>1. asked' \subseteq Askings
    BY <1>2, <1>4 DEF PanelInv, PanelShape
  <2>2. \A q \in asked' : /\ q.generation <= dbOpenGeneration'
                          /\ q.kind \in Owned => q.token <= latest'[q.kind]
    BY <1>1, <1>2, <1>4 DEF PanelInv, PanelShape
  <2> QED BY <1>1, <1>5, <2>1, <2>2 DEF PanelInv, PanelShape, NoPanels
<1>7. PanelsCurrent'
  BY <1>1, <1>2, <1>3, <1>4 DEF PanelInv, PanelsCurrent, Current
<1>8. owns(s)' <=> owns(r)
  BY <1>1, <1>4 DEF owns
<1>9. \A q \in asked : owns(q)' <=> owns(q)
  BY <1>1 DEF owns
<1>10. AskedForSelected'
  BY <1>1, <1>2, <1>4, <1>8, <1>9 DEF PanelInv, AskedForSelected
<1>11. StructureOfSelected' /\ LoneTableSelected'
  <2>1. ASSUME NEW k, ~\E q \in asked' : q.kind = k /\ owns(q)'
        PROVE  ~\E q \in asked : q.kind = k /\ owns(q)
    BY <1>2, <1>4, <1>8, <1>9, <2>1
  <2> QED BY <1>1, <2>1 DEF PanelInv, StructureOfSelected, LoneTableSelected
<1> QED BY <1>6, <1>7, <1>10, <1>11 DEF PanelInv

LEMMA SettleKeepsPanels ==
  ASSUME PanelsAssumption, PanelInv, Settle, UNCHANGED vars
  PROVE  PanelInv'
<1>1. /\ UNCHANGED <<shown, cast, unpublished, backend>>
      /\ UNCHANGED <<dbOpenGeneration, latest, selectedTable, sql, lastCheck, clicks>>
  BY DEF Settle, vars, pageVars, otherVars, backendVars
<1>2. PICK r \in asked : /\ r.served /\ r.kind \in Owned /\ asked' = asked \ {r}
                         /\ (Publishes(r) /\ UNCHANGED failed) \/ Rejects(r)
  BY DEF Settle
<1>3. r \in Askings /\ r.session \in Nat /\ r.about \in Abouts /\ asked # {}
  BY OfAskings DEF PanelInv, PanelShape
<1>4. /\ content \in [Owned -> [about : Abouts, session : Nat]]
      /\ Nothing \in [about : Abouts, session : Nat]
  BY DEF PanelInv, PanelShape, Nothing, Abouts
<1>6. /\ content' \in [Owned -> [about : Abouts, session : Nat]]
      /\ \A k \in Owned : k # r.kind \/ ~owns(r) => content'[k] = content[k]
      /\ owns(r) => \/ content'[r.kind] = [about |-> r.about, session |-> r.session] /\ r.session # 0
                    \/ content'[r.kind] \in {content[r.kind], Nothing} /\ r.kind \in failed'
      /\ failed \subseteq failed'
  BY <1>2, <1>3, <1>4 DEF Publishes, Rejects
<1>7. PanelShape' /\ NoPanels'
  BY <1>1, <1>2, <1>3, <1>6 DEF PanelInv, PanelShape, NoPanels
<1>8. PanelsCurrent'
  <2>1. ASSUME NEW k \in Owned, content'[k] # Nothing PROVE Current(content'[k].session)
    <3>1. CASE k = r.kind /\ owns(r) /\ content'[k] = [about |-> r.about, session |-> r.session]
                 /\ r.session # 0
      BY <1>2, <3>1 DEF PanelInv, PanelsCurrent, owns
    <3>2. CASE content'[k] = content[k]
      BY <2>1, <3>2 DEF PanelInv, PanelsCurrent
    <3> QED BY <1>6, <2>1, <3>1, <3>2
  <2>2. \A v : Current(v)' <=> Current(v)
    BY <1>1 DEF Current
  <2>3. asked' \subseteq asked
    BY <1>2
  <2> QED BY <1>1, <2>1, <2>2, <2>3 DEF PanelInv, PanelsCurrent
<1>9. \A q : owns(q)' <=> owns(q)
  BY <1>1 DEF owns
<1>10. AskedForSelected'
  BY <1>1, <1>2, <1>9 DEF PanelInv, AskedForSelected
<1>11. StructureOfSelected'
  <2>1. SUFFICES ASSUME shown # NoFile, cast.clicks > 0, NEW k \in {"schema", "columns"},
                        k \notin failed',
                        ~\E q \in asked' : q.kind = k /\ owns(q)'
                 PROVE  /\ content'[k] = Nothing <=> k = "columns" /\ selectedTable = None
                        /\ k = "columns" => content'[k].about = selectedTable
    BY <1>1 DEF StructureOfSelected
  <2>2. CASE k = r.kind /\ owns(r)
    <3>1. /\ content'[k] = [about |-> r.about, session |-> r.session] /\ r.session # 0
          /\ k = "columns" => r.about = selectedTable /\ selectedTable # None
      BY <1>6, <2>1, <2>2 DEF PanelInv, AskedForSelected, PanelsAssumption
    <3> QED BY <3>1 DEF Nothing
  <2>3. CASE k # r.kind \/ ~owns(r)
    <3>1. content'[k] = content[k] /\ k \notin failed /\ ~\E q \in asked : q.kind = k /\ owns(q)
      BY <1>2, <1>6, <1>9, <2>1, <2>3 DEF Owned
    <3> QED BY <2>1, <3>1 DEF PanelInv, StructureOfSelected
  <2> QED BY <2>2, <2>3
<1>12. LoneTableSelected'
  BY <1>1 DEF PanelInv, LoneTableSelected
<1> QED BY <1>7, <1>8, <1>10, <1>11, <1>12 DEF PanelInv

LEMMA VerdictKeepsPanels ==
  ASSUME PanelInv, Verdict, UNCHANGED vars
  PROVE  PanelInv'
<1>1. /\ UNCHANGED <<shown, cast, unpublished, backend>>
      /\ UNCHANGED <<dbOpenGeneration, latest, failed, content, selectedTable, sql, clicks>>
  BY DEF Verdict, vars, pageVars, otherVars, backendVars
<1>2. PICK r \in asked, wrong \in BOOLEAN :
        /\ r.served /\ r.kind = "check" /\ asked' = asked \ {r}
        /\ lastCheck' = [about |-> r.about, session |-> r.session, generation |-> r.generation,
                         wrong |-> wrong /\ r.session # 0]
  BY DEF Verdict
<1>3. /\ lastCheck'.generation = r.generation /\ lastCheck'.session = r.session
      /\ lastCheck'.wrong => r.session # 0
  BY <1>2
<1>4. asked # {} /\ lastCheck'.generation \in 0..dbOpenGeneration
  BY <1>3, OfAsked DEF PanelInv
<1>5. PanelShape' /\ NoPanels'
  BY <1>1, <1>2, <1>4 DEF PanelInv, PanelShape, NoPanels
<1>6. PanelsCurrent' /\ AskedForSelected'
  BY <1>1, <1>2, <1>3 DEF PanelInv, PanelsCurrent, Current, AskedForSelected, owns
<1>7. StructureOfSelected' /\ LoneTableSelected'
  BY <1>1, <1>2 DEF PanelInv, StructureOfSelected, LoneTableSelected, owns
<1> QED BY <1>5, <1>6, <1>7 DEF PanelInv

---------------------------------------------------------------------------
(* The page.                                                               *)

PageInv == StoreInv /\ PanelInv

LEMMA PageStarts == ASSUME CastAssumption, PanelsAssumption, PageInit PROVE PageInv
  BY StoreInvStarts, PanelsStart DEF PageInit, PageInv

LEMMA PageKeeps ==
  ASSUME CastAssumption, PanelsAssumption, PageInv, [PageNext]_pageState
  PROVE  PageInv' /\ [Next]_vars
<1>1. CASE Store
  <2>1. [Next]_vars
    BY <1>1 DEF Store
  <2> QED BY <1>1, <2>1, StoreInvKeeps, StoreKeepsPanels DEF PageInv
<1>2. CASE Panel
  <2>1. PanelInv'
    BY <1>2, SelectKeepsPanels, TypeKeepsPanels, ExecuteKeepsPanels, LinterKeepsPanels,
       ServeKeepsPanels, SettleKeepsPanels, VerdictKeepsPanels
       DEF Panel, PanelStep, Answers, PageInv, StoreInv
  <2>2. [Next]_vars
    BY <1>2 DEF Panel
  <2> QED BY <2>1, <2>2, StoreInvKeeps DEF PageInv
<1>3. CASE UNCHANGED <<vars, panelVars>>
  <2>1. [Next]_vars /\ UNCHANGED <<shown, cast, unpublished>>
    BY <1>3 DEF vars, pageVars, otherVars
  <2>2. PanelShape' /\ NoPanels'
    BY <1>3, <2>1 DEF PageInv, PanelInv, PanelShape, NoPanels, panelVars
  <2>3. PanelsCurrent' /\ AskedForSelected'
    BY <1>3, <2>1 DEF PageInv, PanelInv, PanelsCurrent, Current, AskedForSelected, owns, panelVars
  <2>4. StructureOfSelected' /\ LoneTableSelected'
    BY <1>3, <2>1 DEF PageInv, PanelInv, StructureOfSelected, LoneTableSelected, owns, panelVars
  <2> QED BY <2>1, <2>2, <2>3, <2>4, StoreInvKeeps DEF PageInv, PanelInv
<1>4. CASE Update \/ UNCHANGED pageState
  BY <1>3, <1>4 DEF Update, pageState
<1> QED BY <1>1, <1>2, <1>4 DEF PageNext

LEMMA PageAlways == PageSpec => []PageInv
<1>1. PageInit => PageInv
  BY PageStarts, CastAssumption, PanelsAssumption
<1>2. PageInv /\ [PageNext]_pageState => PageInv'
  BY PageKeeps, CastAssumption, PanelsAssumption
<1> QED BY <1>1, <1>2, PTL DEF PageSpec

(* However many requests supersede each other, the page ends with the file *)
(* and the very session the backend has open, or with the error of the     *)
(* last request (store.svelte.ts:94).                                      *)
THEOREM LastRequestAlwaysShown == PageSpec => []LastRequestShown
<1>1. PageInv => LastRequestShown
  BY CastAssumption DEF PageInv, StoreInv, ShownInv, LastRequestShown, ShownIsOpen, LastRequestWins
<1> QED BY <1>1, PageAlways, PTL

(* No setting moves to another file, and no older snapshot undoes a change *)
(* (store.svelte.ts:198, commands.rs:308).                                 *)
THEOREM SettingsAlwaysKept == PageSpec => []SettingsKept
<1>1. PageInv => SettingsKept
  <2> SUFFICES ASSUME PageInv PROVE SettingsKept
    OBVIOUS
  <2>1. DOMAIN saves = 1..Len(saves)
    BY DEF PageInv, StoreInv, SettingsInv
  <2>2. SettingsInv
    BY DEF PageInv, StoreInv
  <2>3. SettingsStayWithFile
    BY <2>1, <2>2 DEF SettingsInv, Made, SettingsStayWithFile
  <2> QED BY <2>2, <2>3 DEF SettingsInv, SettingsKept
<1> QED BY <1>1, PageAlways, PTL

(* Whatever is opened, closed, reopened or clicked while an answer is on   *)
(* its way, the panels of a page at rest show the session on screen, the   *)
(* columns of the selected table, and the only table of a file             *)
(* (sessionOwnedRequest.ts:7, DatabaseStructure.svelte:41).                *)
THEOREM PanelsAlwaysShowFile == PageSpec => []PanelsShowFile
<1>1. PageInv => PanelsShowFile
  <2> SUFFICES ASSUME PageInv PROVE PanelsShowFile
    OBVIOUS
  <2>1. PanelInv
    BY DEF PageInv
  <2>2. ASSUME AtRest, NEW s, Current(s) PROVE s = shown.session
    BY <2>2 DEF AtRest, Current
  <2>3. PanelsOfSession
    BY <2>1, <2>2 DEF PanelInv, PanelsCurrent, PanelsOfSession, blockReasonFor
  <2> QED BY <2>1, <2>3 DEF PanelInv, PanelsShowFile
<1> QED BY <1>1, PageAlways, PTL

(* A file the system names is opened, and once, unless another one took    *)
(* its place before the page asked; and a launch that leaves its file to   *)
(* this window leaves it to one that has it open (launch.rs:41,            *)
(* windows.rs:30).                                                         *)
THEOREM LaunchesAlwaysServed == PageSpec => LaunchesServed
<1>1. PageInv => OpenedOnce
  <2> SUFFICES ASSUME PageInv, NEW n \in DOMAIN named
               PROVE  /\ named[n].opened <= 1
                      /\ mount = "mounted" /\ emitted = <<>> /\ n \notin replaced =>
                           named[n].opened = 1
    BY DEF OpenedOnce
  <2>1. LaunchInv
    BY DEF PageInv, StoreInv
  <2>2. n \in 1..Len(named) /\ named[n] \in [path : Paths, opened : {0, 1}]
    <3>1. named \in Seq([path : Paths, opened : {0, 1}])
      BY <2>1 DEF LaunchInv
    <3>2. n \in 1..Len(named)
      BY <3>1
    <3> QED BY <3>1, <3>2, ElementOfSeq
  <2>3. mount = "mounted" /\ emitted = <<>> => ~Waiting(n)
    BY <2>1, <2>2 DEF LaunchInv, Waiting
  <2> QED BY <2>1, <2>2, <2>3 DEF LaunchInv
<1>2. PageInv => RaisedWindowHasFile
  BY DEF PageInv, StoreInv, QueueInv, ShownInv, RaisedWindowHasFile
<1> QED BY <1>1, <1>2, PageAlways, PTL DEF LaunchesServed

---------------------------------------------------------------------------
(* The updater: what holds of it for any releases, any number of checks    *)
(* and installs, and any way the setting is loaded and saved meanwhile.    *)

(* The phase on screen tells which operation of the updater runs, and what *)
(* it shows on offer is what is ready.                                     *)
PhaseTells ==
  /\ phaseKind = "checking" => network = {"startup"} \/ network = {"manual"}
  /\ phaseKind \in {"downloading", "installing"} => network = {"install"}
  /\ ~busy => network = {}
  /\ phaseKind \in {"available", "downloading", "installing"} => version = pending

(* The only save on its way, and what it has done so far.                  *)
Saving(save) ==
  /\ save.enabled \in BOOLEAN /\ checkAtStartup = save.enabled
  /\ save.state \in {"sent", "stored", "failed"}
  /\ storedPreference = (IF save.state = "stored" THEN save.enabled ELSE ~save.enabled)

(* Every save says what it saves and how far it is.                        *)
SavesAreSaves == \A save \in preferenceSaves : \E nr :
  save \in [enabled : BOOLEAN, nr : {nr}, state : {"sent", "stored", "failed"}]

(* Unless saves overlapped, the checkbox differs from what is stored only  *)
(* by the save on its way.                                                 *)
OneSaveAtMost ==
  /\ checkAtStartup \in BOOLEAN /\ storedPreference \in BOOLEAN
  /\ loadedPreference \in {"asked", "on", "off", "loaded", "failed"}
  /\ SavesAreSaves
  /\ ~overlapped =>
       /\ loadedPreference \in {"asked", "on", "off"} => preferenceSaves = {}
       /\ loadedPreference = "on" => storedPreference = TRUE
       /\ loadedPreference = "off" => storedPreference = FALSE
       /\ loadedPreference = "loaded" =>
            \/ preferenceSaves = {} /\ checkAtStartup = storedPreference
            \/ \E save : preferenceSaves = {save} /\ Saving(save)

UpdateInv == PhaseTells /\ OneSaveAtMost /\ OptOutHeld

LEMMA UpdateStarts == PageInit => UpdateInv
<1> SUFFICES ASSUME PageInit PROVE UpdateInv
  OBVIOUS
<1>1. UpdateInit(cast.updates)
  BY DEF PageInit
<1>2. PhaseTells /\ OptOutHeld
  BY <1>1 DEF UpdateInit, PhaseTells, busy, OptOutHeld
<1>3. OneSaveAtMost
  BY <1>1 DEF UpdateInit, OneSaveAtMost, SavesAreSaves
<1> QED BY <1>2, <1>3 DEF UpdateInv

(* A step that leaves the setting alone.                                   *)
LEMMA PreferenceKept ==
  ASSUME UpdateInv, PreferenceStays, UNCHANGED startupChecked
  PROVE  OneSaveAtMost' /\ OptOutHeld'
  BY DEF UpdateInv, PreferenceStays, OneSaveAtMost, SavesAreSaves, OptOutHeld, Saving

(* A step that leaves the updater alone.                                   *)
LEMMA PhaseKept ==
  ASSUME UpdateInv, UNCHANGED updateRest
  PROVE  PhaseTells' /\ OptOutHeld'
  BY DEF UpdateInv, updateRest, PhaseTells, OptOutHeld, busy

(* No check begins while an operation runs.                                *)
LEMMA CheckWaits ==
  ASSUME UpdateInv, NEW origin \in {"startup", "manual"}, check(origin), UNCHANGED pending
  PROVE  PhaseTells'
<1>1. CASE busy
  BY <1>1 DEF check, UpdateInv, PhaseTells, busy
<1>2. CASE ~busy
  BY <1>2 DEF check, Phase, UpdateInv, PhaseTells, busy
<1> QED BY <1>1, <1>2

LEMMA UpdaterKeeps ==
  ASSUME UpdateInv, CheckNow \/ installAndRestart \/ reset \/ Updater
  PROVE  UpdateInv'
<1> USE DEF UpdateInv
<1>1. CASE CheckNow
  BY <1>1, CheckWaits, PreferenceKept DEF CheckNow
<1>2. CASE installAndRestart
  BY <1>2, PreferenceKept DEF installAndRestart, Phase, PhaseTells, busy
<1>3. CASE reset
  BY <1>3, PreferenceKept DEF reset, Phase, PhaseTells, busy
<1>4. CASE CheckAnswered
  <2>1. PICK origin \in network \cap {"startup", "manual"} :
          /\ network' = network \ {origin}
          /\ \/ Offered(NoVersion) /\ Phase("upToDate", NoVersion)
             \/ \E v \in Releases : Offered(v) /\ Phase("available", v)
             \/ Offered(NoVersion) /\ Phase(AfterFailure(origin), NoVersion)
    BY <1>4 DEF CheckAnswered
  <2>2. network = {origin}
    BY <2>1 DEF PhaseTells, busy
  <2>3. PhaseTells'
    BY <2>1, <2>2 DEF PhaseTells, busy, Offered, Phase, AfterFailure
  <2> QED BY <1>4, <2>3, PreferenceKept DEF CheckAnswered
<1>5. CASE HandedOver \/ InstallFailed \/ Relaunched
  <2>1. PhaseTells'
    BY <1>5 DEF HandedOver, InstallFailed, Relaunched, Phase, PhaseTells, busy
  <2> QED BY <1>5, <2>1, PreferenceKept DEF HandedOver, InstallFailed, Relaunched
<1> QED BY <1>1, <1>2, <1>3, <1>4, <1>5 DEF Updater

(* The timer's check is unwanted only if the box says another thing than   *)
(* what is stored, with nothing on its way.                                *)
LEMMA TimerKeeps ==
  ASSUME UpdateInv, StartupTimer
  PROVE  UpdateInv'
<1> USE DEF UpdateInv
<1>1. OneSaveAtMost'
  BY DEF StartupTimer, PreferenceStays, OneSaveAtMost, SavesAreSaves, Saving
<1>2. PhaseTells'
  <2>1. CASE PreferenceNow
    BY <2>1, CheckWaits DEF StartupTimer
  <2>2. CASE ~PreferenceNow
    BY <2>2 DEF StartupTimer, PhaseTells, busy
  <2> QED BY <2>1, <2>2
<1>3. OptOutHeld'
  <2>1. CASE PreferenceNow /\ loadedPreference = "loaded" /\ preferenceSaves = {} /\ ~overlapped
    <3>1. storedPreference
      BY <2>1 DEF OneSaveAtMost, PreferenceNow
    <3> QED BY <2>1, <3>1 DEF StartupTimer, OptOutHeld
  <2>2. CASE ~(PreferenceNow /\ loadedPreference = "loaded" /\ preferenceSaves = {} /\ ~overlapped)
    BY <2>2 DEF StartupTimer, OptOutHeld
  <2> QED BY <2>1, <2>2
<1> QED BY <1>1, <1>2, <1>3

(* Loading, saving and taking back the setting.                            *)
LEMMA LoadPreferenceKeeps ==
  ASSUME UpdateInv, loadStartupPreference
  PROVE  UpdateInv'
<1>1. OneSaveAtMost'
  BY DEF loadStartupPreference, UpdateInv, OneSaveAtMost, SavesAreSaves, Saving
<1> QED BY <1>1, PhaseKept DEF loadStartupPreference, UpdateInv

LEMMA SetPreferenceKeeps ==
  ASSUME UpdateInv, setCheckAtStartup
  PROVE  UpdateInv'
<1>0. PICK save : save = [enabled |-> ~checkAtStartup, nr |-> acts, state |-> "sent"]
  OBVIOUS
<1>1. /\ checkAtStartup' = ~checkAtStartup
      /\ preferenceSaves' = preferenceSaves \cup {save}
      /\ UNCHANGED <<storedPreference, loadedPreference>>
      /\ ~overlapped' => /\ ~overlapped /\ preferenceSaves = {}
                         /\ loadedPreference \notin {"asked", "on", "off"}
  BY <1>0 DEF setCheckAtStartup
<1>2. /\ checkAtStartup \in BOOLEAN /\ storedPreference \in BOOLEAN
      /\ loadedPreference \in {"asked", "on", "off", "loaded", "failed"}
  BY DEF UpdateInv, OneSaveAtMost
<1>3. save.enabled = ~checkAtStartup /\ save.state = "sent"
  BY <1>0
<1>4. ASSUME ~overlapped', loadedPreference = "loaded"
      PROVE  preferenceSaves' = {save} /\ Saving(save)'
  <2>1. checkAtStartup = storedPreference
    BY <1>1, <1>4 DEF UpdateInv, OneSaveAtMost
  <2>2. Saving(save)'
    BY <1>1, <1>2, <1>3, <2>1 DEF Saving
  <2> QED BY <1>1, <1>4, <2>2
<1>5. SavesAreSaves'
  <2>1. save \in [enabled : BOOLEAN, nr : {acts}, state : {"sent", "stored", "failed"}]
    BY <1>0, <1>2
  <2> QED BY <1>1, <2>1 DEF UpdateInv, OneSaveAtMost, SavesAreSaves
<1>6. OneSaveAtMost'
  BY <1>1, <1>2, <1>4, <1>5 DEF OneSaveAtMost
<1> QED BY <1>6, PhaseKept DEF setCheckAtStartup, UpdateInv

LEMMA SaveRunsKeeps ==
  ASSUME UpdateInv, SaveRuns
  PROVE  UpdateInv'
<1>1. PICK save \in preferenceSaves :
        /\ save.state = "sent"
        /\ \/ storedPreference' = save.enabled /\ Answered(save, "stored")
           \/ UNCHANGED storedPreference /\ Answered(save, "failed")
        /\ UNCHANGED <<updateRest, checkAtStartup, loadedPreference, overlapped, acts>>
  BY DEF SaveRuns
<1>2. PICK nr : save \in [enabled : BOOLEAN, nr : {nr}, state : {"sent", "stored", "failed"}]
  BY DEF UpdateInv, OneSaveAtMost, SavesAreSaves
<1>3. PICK state \in {"stored", "failed"} :
        /\ storedPreference' = (IF state = "stored" THEN save.enabled ELSE storedPreference)
        /\ preferenceSaves' = (preferenceSaves \ {save}) \cup {[save EXCEPT !.state = state]}
  BY <1>1 DEF Answered
<1>4. PICK after : after = [save EXCEPT !.state = state]
  OBVIOUS
<1>5. /\ after \in [enabled : BOOLEAN, nr : {nr}, state : {"sent", "stored", "failed"}]
      /\ after.enabled = save.enabled /\ after.state = state
  BY <1>2, <1>4
<1>6. SavesAreSaves' /\ storedPreference' \in BOOLEAN
  BY <1>2, <1>3, <1>4, <1>5 DEF UpdateInv, OneSaveAtMost, SavesAreSaves
<1>7. ASSUME ~overlapped, loadedPreference = "loaded"
      PROVE  preferenceSaves' = {after} /\ Saving(after)'
  <2>1. preferenceSaves = {save} /\ Saving(save)
    BY <1>1, <1>7 DEF UpdateInv, OneSaveAtMost
  <2>2. storedPreference = ~save.enabled
    BY <1>1, <2>1 DEF Saving
  <2>3. Saving(after)'
    BY <1>1, <1>2, <1>3, <1>5, <2>1, <2>2 DEF Saving
  <2> QED BY <1>3, <1>4, <2>1, <2>3
<1>8. OneSaveAtMost'
  BY <1>1, <1>6, <1>7 DEF UpdateInv, OneSaveAtMost
<1> QED BY <1>1, <1>8, PhaseKept DEF UpdateInv

LEMMA SaveAnsweredKeeps ==
  ASSUME UpdateInv, SaveAnswered
  PROVE  UpdateInv'
<1>1. PICK save \in preferenceSaves :
        /\ save.state # "sent"
        /\ checkAtStartup' = SnapsBack(save)
        /\ preferenceSaves' = preferenceSaves \ {save}
        /\ UNCHANGED <<updateRest, storedPreference, loadedPreference, overlapped>>
  BY DEF SaveAnswered
<1>2. OneSaveAtMost'
  BY <1>1 DEF UpdateInv, OneSaveAtMost, SavesAreSaves, Saving, SnapsBack
<1> QED BY <1>1, <1>2, PhaseKept DEF UpdateInv

LEMMA UpdateStepKeeps == UpdateInv /\ [PageNext]_pageState => UpdateInv'
<1> SUFFICES ASSUME UpdateInv, [PageNext]_pageState PROVE UpdateInv'
  OBVIOUS
<1>1. CASE UpdateStep
  BY <1>1, UpdaterKeeps, TimerKeeps, LoadPreferenceKeeps, SetPreferenceKeeps, SaveRunsKeeps,
     SaveAnsweredKeeps
  DEF UpdateStep
<1>2. CASE UNCHANGED updateVars
  BY <1>2 DEF updateVars, UpdateInv, PhaseTells, busy, OneSaveAtMost, SavesAreSaves, Saving, OptOutHeld
<1> QED BY <1>1, <1>2 DEF PageNext, Store, Panel, Update, pageState

(* Whatever the release server answers, whenever the user asks, and        *)
(* whatever becomes of the saves: one operation at a time, no check at     *)
(* startup against the setting, and a box that says what is stored.        *)
THEOREM UpdatesAlwaysOrderly == PageSpec => []UpdatesOrderly
<1>1. UpdateInv => UpdatesOrderly
  <2> SUFFICES ASSUME UpdateInv PROVE UpdatesOrderly
    OBVIOUS
  <2>1. network = {} \/ \E origin : network = {origin}
    BY DEF UpdateInv, PhaseTells, busy
  <2>2. Cardinality(network) <= 1
    <3>1. CASE network = {}
      BY <3>1, FS_EmptySet
    <3>2. ASSUME NEW origin, network = {origin} PROVE Cardinality(network) <= 1
      <4>1. Cardinality({origin}) = 1
        BY FS_Singleton
      <4> QED BY <3>2, <4>1
    <3> QED BY <2>1, <3>1, <3>2
  <2>3. OneUpdate
    BY <2>2 DEF OneUpdate, UpdateInv, PhaseTells
  <2>4. PreferenceShown
    BY DEF UpdateInv, OneSaveAtMost, PreferenceShown
  <2> QED BY <2>3, <2>4 DEF UpdatesOrderly, UpdateInv
<1> QED BY <1>1, UpdateStarts, UpdateStepKeeps, PTL DEF PageSpec
=============================================================================
