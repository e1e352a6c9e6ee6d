------------------------------- MODULE Panels -------------------------------
(***************************************************************************)
(* The panels beside the grid: the structure of the file                   *)
(* (DatabaseStructure.svelte) and the SQL tab (ExecuteSQL.svelte,          *)
(* sqlExecution.ts, sqlLint.ts).  Both outlive the file they show: what    *)
(* they ask for may be answered by a file opened since, and after another  *)
(* one is on screen (sessionOwnedRequest.ts, dbGenerationReset.svelte.ts,  *)
(* autoSelectFirstTable.svelte.ts).                                        *)
(*                                                                         *)
(* Content is the session whose backend gave it.                           *)
(***************************************************************************)
EXTENDS OpenRequests

CONSTANTS Tables, LoneTable, OneTable, Statements

ASSUME PanelsAssumption == /\ LoneTable \in Tables /\ None \notin Tables
                           /\ OneTable \subseteq Paths

VARIABLES
  dbOpenGeneration,
  asked,         \* requests of the panels
  latest,        \* [kind -> token of its newest request]
  failed,        \* kinds whose newest request failed
  content,       \* [kind -> what is on screen]
  selectedTable, running, sql, lastCheck,
  clicks         \* how often the user may still act on a panel

panelVars == <<dbOpenGeneration, asked, latest, failed, content, selectedTable, running, sql,
               lastCheck, clicks>>

Owned == {"schema", "columns", "sql"}
Nothing == [about |-> None, session |-> 0]
Unchecked == [about |-> None, session |-> 0, generation |-> 0, wrong |-> FALSE]

PanelsInit ==
  /\ dbOpenGeneration = 0
  /\ asked = {} /\ latest = [k \in Owned |-> 0] /\ failed = {}
  /\ content = [k \in Owned |-> Nothing]
  /\ selectedTable = None /\ running = FALSE
  /\ sql = (CHOOSE text \in Statements : TRUE) /\ lastCheck = Unchecked
  /\ clicks = cast.clicks

(* createSessionOwnedRequest: what a request captures before its await.    *)
request(kind, about, gen) ==
  [kind |-> kind, about |-> about, token |-> latest[kind] + 1, generation |-> gen,
   served |-> FALSE, session |-> 0]

Asks(requests) ==
  /\ asked' = asked \cup requests
  /\ latest' = [k \in DOMAIN latest |-> IF \E r \in requests : r.kind = k THEN latest[k] + 1
                                                                        ELSE latest[k]]
  /\ failed' = failed \ {r.kind : r \in requests}

OwnsBySession(r) == r.generation = dbOpenGeneration   \* mutant: the token is not compared
owns(r) == r.token = latest[r.kind] /\ r.generation = dbOpenGeneration

---------------------------------------------------------------------------
(* What a step of the store triggers in the panels.  The effects run in    *)
(* the turn of the publication, before any answer is heard.  A cast with   *)
(* no clicks leaves the panels out.                                        *)

SelectThenReset(lone) == None   \* mutant: the reset clobbers the automatic choice
ResetThenSelect(lone) == IF lone THEN LoneTable ELSE None

ResetOnPath == shown'.path # shown.path   \* mutant: a reopened file keeps what is on screen
SessionChanged == TRUE

OnOpened ==
  LET lone == shown'.path \in OneTable
      gen == dbOpenGeneration + 1
  IN /\ dbOpenGeneration' = gen
     /\ content' = IF SessionChanged THEN [k \in Owned |-> Nothing] ELSE content
     /\ selectedTable' = ResetThenSelect(lone)
     /\ Asks({request("schema", None, gen)}
               \cup (IF lone THEN {request("columns", LoneTable, gen)} ELSE {}))
     /\ UNCHANGED <<running, sql, lastCheck, clicks>>

(* Closing resets the structure; the result of the SQL tab goes with the   *)
(* next file.                                                              *)
OnClosed ==
  /\ selectedTable' = None
  /\ content' = [content EXCEPT !["schema"] = Nothing, !["columns"] = Nothing]
  /\ UNCHANGED <<dbOpenGeneration, asked, latest, failed, running, sql, lastCheck, clicks>>

Effects ==
  IF shown' = shown \/ cast.clicks = 0 THEN UNCHANGED panelVars
  ELSE IF shown' = NoFile THEN OnClosed ELSE OnOpened

---------------------------------------------------------------------------
(* The user.                                                               *)

Click == clicks > 0 /\ clicks' = clicks - 1 /\ shown # NoFile

selectTable ==
  /\ Click
  /\ \E t \in IF shown.path \in OneTable THEN {LoneTable} ELSE Tables :
       selectedTable' = t /\ Asks({request("columns", t, dbOpenGeneration)})
  /\ UNCHANGED <<dbOpenGeneration, content, running, sql, lastCheck>>

Type ==
  /\ Click
  /\ sql' \in Statements \ {sql}
  /\ UNCHANGED <<dbOpenGeneration, asked, latest, failed, content, selectedTable, running,
                 lastCheck>>

blockReasonFor(text) ==
  lastCheck.wrong /\ lastCheck.about = text /\ lastCheck.generation = dbOpenGeneration

executeSql ==
  /\ Click
  /\ ~running /\ ~blockReasonFor(sql)
  /\ running' = TRUE
  /\ content' = [content EXCEPT !["sql"] = Nothing]
  /\ Asks({request("sql", sql, dbOpenGeneration)})
  /\ UNCHANGED <<dbOpenGeneration, selectedTable, sql, lastCheck>>

(* The linter checks the text after every edit and in every new file, but  *)
(* asks only for what it has no verdict of (here: once at a time).         *)
Checked == /\ lastCheck.about = sql /\ lastCheck.generation = dbOpenGeneration
           /\ lastCheck.session # 0

sqlLinter ==
  /\ cast.clicks > 0 /\ shown # NoFile /\ ~Checked
  /\ ~\E r \in asked : r.kind = "check" /\ r.about = sql /\ r.generation = dbOpenGeneration
  /\ asked' = asked \cup {[kind |-> "check", about |-> sql, token |-> 0,
                            generation |-> dbOpenGeneration, served |-> FALSE, session |-> 0]}
  /\ UNCHANGED <<dbOpenGeneration, latest, failed, content, selectedTable, running, sql,
                 lastCheck, clicks>>

---------------------------------------------------------------------------
(* A command runs on the file the backend has open then, and its answer is *)
(* heard later.                                                            *)

Serve == \E r \in asked :
  /\ ~r.served
  /\ asked' = (asked \ {r}) \cup {[r EXCEPT !.served = TRUE, !.session = backend.session]}
  /\ UNCHANGED <<dbOpenGeneration, latest, failed, content, selectedTable, running, sql,
                 lastCheck, clicks>>

Publishes(r) ==
  /\ r.session # 0
  /\ content' = IF owns(r) THEN [content EXCEPT ![r.kind] = [about |-> r.about, session |-> r.session]]
                           ELSE content

(* A failure is shown; what was on screen stays, but for the result of the *)
(* SQL tab, which becomes the error.                                       *)
Rejects(r) ==
  /\ failed' = IF owns(r) THEN failed \cup {r.kind} ELSE failed
  /\ content' = IF owns(r) /\ r.kind = "sql" THEN [content EXCEPT !["sql"] = Nothing] ELSE content

ReleaseIfOwned(r) == IF r.kind = "sql" /\ owns(r) THEN FALSE ELSE running   \* mutant
Release(r) == IF r.kind = "sql" THEN FALSE ELSE running

Settle == \E r \in asked :
  /\ r.served /\ r.kind \in Owned
  /\ asked' = asked \ {r}
  /\ running' = Release(r)
  /\ \/ Publishes(r) /\ UNCHANGED failed
     \/ Rejects(r)
  /\ UNCHANGED <<dbOpenGeneration, latest, selectedTable, sql, lastCheck, clicks>>

(* No verdict, when the backend is busy or nothing is open, blocks nothing. *)
Verdict == \E r \in asked :
  /\ r.served /\ r.kind = "check"
  /\ asked' = asked \ {r}
  /\ \E wrong \in BOOLEAN :
       lastCheck' = [about |-> r.about, session |-> r.session, generation |-> r.generation,
                     wrong |-> wrong /\ r.session # 0]
  /\ UNCHANGED <<dbOpenGeneration, latest, failed, content, selectedTable, running, sql, clicks>>

Answers == Serve \/ Settle \/ Verdict
PanelStep == selectTable \/ Type \/ executeSql \/ sqlLinter \/ Answers

---------------------------------------------------------------------------
(* The page shows the file the backend has open, and no request to change  *)
(* that is on its way.                                                     *)
AtRest == ~Running /\ ~unpublished /\ shown # NoFile

(* What the panels show of a file is of the session on screen, not of one  *)
(* before it or of a reopened file as it was, and no verdict on another    *)
(* session keeps a statement from being run (sessionOwnedRequest.ts:12,    *)
(* sqlLint.ts:14).                                                         *)
PanelsOfSession ==
  AtRest => /\ \A k \in Owned : content[k] # Nothing => content[k].session = shown.session
            /\ blockReasonFor(sql) => lastCheck.session = shown.session

(* Once its newest request is answered, the structure panel shows the      *)
(* columns of the table that is selected, and the schema, unless that      *)
(* request failed (sessionOwnedRequest.ts:7).                              *)
StructureOfSelected ==
  shown # NoFile /\ cast.clicks > 0 => \A k \in {"schema", "columns"} \ failed :
    (~\E r \in asked : r.kind = k /\ owns(r)) =>
      /\ content[k] = Nothing <=> k = "columns" /\ selectedTable = None
      /\ k = "columns" => content[k].about = selectedTable

(* The only table of a file is selected without a click, also when the     *)
(* file is opened again (DatabaseStructure.svelte:41).                     *)
LoneTableSelected ==
  shown.path \in OneTable /\ cast.clicks > 0 => selectedTable = LoneTable

(* The panels show the file on screen, as it is now.                       *)
PanelsShowFile == PanelsOfSession /\ StructureOfSelected /\ LoneTableSelected

(* Whatever becomes of the file meanwhile, the Cancel button goes away     *)
(* once the statement is answered (sqlExecution.ts:20).                    *)
RunEnds == running ~> ~running
=============================================================================
