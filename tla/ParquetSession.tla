--------------------------- MODULE ParquetSession ---------------------------
(***************************************************************************)
(* One open Parquet, CSV or JSON file (src-tauri/src/pq): the browse       *)
(* connection with its active view and its sort cache on disk, the side    *)
(* connection that builds the cache, and the SQL tab's own database.       *)
(* Commands run on threads of their own and clone the session's Arc, so a  *)
(* session may be closed under its readers; the last of them drops it.     *)
(*                                                                         *)
(* DuckDB is modelled by what the code relies on: a statement ends with    *)
(* its result, with an error of its own, or - only if it was running when  *)
(* its connection was interrupted - with an INTERRUPT error.  The order of *)
(* rows that a sort leaves equal is any order.                             *)
(***************************************************************************)
EXTENDS Naturals, Sequences, FiniteSets, SequencesExt, Listings

CONSTANTS
  Readers,        \* threads that run query_table and count_rows
  SqlThreads,     \* threads that run execute_sql and validate_sql
  Casts,          \* what takes part in one behaviour, see CastType
  Files,          \* the files that can be opened, see FileType
  NRows,          \* rows of every file
  Value,          \* the sort column: [Rows -> Nat \cup {Null}]
  Null,
  Matches,        \* the rows each filter selects: [Filters -> SUBSET Rows]
  NoFilter,       \* the filter whose WHERE clause is empty
  BadFilter,      \* a filter on a column the file does not have
  Sorts,          \* a subset of {"none", "asc", "desc"}
  Limits,
  SqlResultLimit, \* 50000 in the code
  SqlSizes        \* how many rows the SQL tab's statements return

Rows == 0 .. NRows - 1
Filters == DOMAIN Matches
Threads == Readers \cup SqlThreads

(* The threads of a behaviour, the pages they ask for, and the bounds on   *)
(* cancels, on errors of DuckDB's own and on crashes.                      *)
CastType == [threads : SUBSET Threads, offsets : SUBSET Nat, MaxGeneration : Nat,
             MaxFaults : Nat, MaxCrashes : Nat]

ASSUME ParquetAssumption ==
  /\ NRows \in Nat /\ Limits \subseteq Nat /\ SqlResultLimit \in Nat /\ SqlSizes \subseteq Nat
  /\ Value \in [Rows -> Nat \cup {Null}] /\ Null \notin Nat
  /\ NoFilter \in Filters /\ BadFilter \notin Filters
  /\ Matches \in [Filters -> SUBSET Rows] /\ Matches[NoFilter] = Rows
  /\ Readers \cap SqlThreads = {} /\ Casts \subseteq CastType

---------------------------------------------------------------------------
(* Views.  A sort places NULLs first when it ascends and last when it      *)
(* descends; the file order breaks ties, except on the fall-back path.     *)

Rank(row) == IF Value[row] = Null THEN 0 ELSE Value[row] + 1

order_by(sort, a, b) ==
  CASE sort = "asc"  -> Rank(a) < Rank(b)
    [] sort = "desc" -> Rank(a) > Rank(b)
    [] OTHER         -> FALSE

Before(sort, a, b) ==
  \/ order_by(sort, a, b)
  \/ (~order_by(sort, b, a) /\ a < b)

ViewKey == [filter : Filters, sort : Sorts]

ViewOrder(sort) == {ab \in Rows \X Rows : Before(sort, ab[1], ab[2])}

ViewOf == [key \in ViewKey |-> InOrder(Matches[key.filter], ViewOrder(key.sort))]

(* LIMIT/OFFSET without the tiebreak: any order the sort allows; DuckDB    *)
(* keeps the file order when there is no sort.                             *)
UntiedViews(key) ==
  IF key.sort = "none" THEN {ViewOf[key]}
  ELSE {s \in SetToSeqs(Matches[key.filter]) :
          \A i, j \in DOMAIN s : i < j => ~order_by(key.sort, s[j], s[i])}

Least(a, b) == IF a < b THEN a ELSE b
Page(view, offset, limit) == SubSeq(view, offset + 1, Least(offset + limit, Len(view)))

---------------------------------------------------------------------------
(* Opening: what ParquetSession::open makes of a file.                     *)

(* `cells` is what pages_from_a_list compares; `sample` and `scan` say     *)
(* whether the first 20480 rows, or all of them, describe a CSV or JSON.   *)
FileType == [format : {"parquet", "csv", "json"}, columns : SUBSET STRING,
             small : BOOLEAN, sample : BOOLEAN, scan : BOOLEAN]

(* How a reader reads the file: by its footer, by the sample, or with what *)
(* the full scan found written out.                                        *)
load_text_file(f) ==
  IF f.format = "parquet" THEN "footer"
  ELSE IF f.sample THEN "sampled"
  ELSE IF f.scan THEN "pinned" ELSE "unreadable"

row_numbers(f) ==
  /\ "file_row_number" \notin f.columns
  /\ f.format = "parquet" \/ "rowid" \notin f.columns

SqlReaderSampled(f) ==   \* mutant: the SQL tab's view always uses the sampling reader
  IF f.format = "parquet" THEN "footer" ELSE "sampled"

SqlReader(f) == load_text_file(f)

pages_from_a_list(f) == f.small

---------------------------------------------------------------------------
(* A request asks for a page or a count; what the frontend gets is `reply`.*)

SqlRequest == [op : {"execute", "validate"},
               verdict : {"ok", "Invalid", "NotOne", "NotSelect"}, size : SqlSizes]
NoRequest == [op |-> "none"]
KeyOf(q) == [filter |-> q.filter, sort |-> IF q.op = "count" THEN "none" ELSE q.sort]

NoView == [kind |-> "none"]
NoTable == [kind |-> "no table"]
Partial == [kind |-> "partial"]
View == {NoView}
  \cup [kind : {"Listed"}, key : ViewKey, rows : Seq(Rows)]
  \cup [kind : {"Sorted"}, key : ViewKey, count : Nat]

VARIABLES
  cast,        \* the member of Casts this behaviour is of
  life,        \* "none", "open" (in the slot), "closed" (held by readers only)
  file,        \* the open file
  loaded,      \* how the browse connection reads it
  sqlReader,   \* how the SQL tab's view reads it
  generation,  \* DbState's counter
  browse,      \* who holds the browse mutex, and the views mutex within it
  sqlLock,     \* who holds the SQL mutex
  active,      \* Views::active
  attached,    \* Views::attached
  table,       \* what sc.v holds: NoTable, Partial or a view's key
  sort_cache_failed,
  building,
  disk,        \* the session's files: a subset of {"cache", "spill"}
  pc, req, gen,
  err,         \* what the sorted page of a thread failed with
  shown,       \* rows of the SQL tab's statement so far
  hit,         \* connections whose running statement was interrupted
  canceller,   \* the next step of cancel_queries
  reply,       \* what this step answers the frontend
  faults,      \* errors of DuckDB's own, so far
  crashes

fileVars == <<file, loaded, sqlReader>>
viewVars == <<active, attached, table, building>>
threadVars == <<pc, req, gen, err, shown>>
vars == <<cast, life, fileVars, generation, browse, sqlLock, viewVars, sort_cache_failed,
          disk, threadVars, hit, canceller, reply, faults, crashes>>

Request == [op : {"page", "count"}, filter : Filters \cup {BadFilter}, sort : Sorts,
            offset : cast.offsets, limit : Limits]
NoReply == [status |-> "none"]
Nobody == "nobody"
ASSUME NobodyAssumption == Nobody \notin Threads

Reset ==   \* a session's volatile state before it is opened
  /\ active = NoView /\ attached = FALSE
  /\ sort_cache_failed = FALSE /\ building = FALSE
  /\ browse = Nobody /\ sqlLock = Nobody
  /\ pc = [t \in Threads |-> "idle"] /\ req = [t \in Threads |-> NoRequest]
  /\ gen = [t \in Threads |-> 0] /\ err = [t \in Threads |-> "none"]
  /\ shown = [t \in Threads |-> 0]
  /\ hit = {} /\ canceller = "idle" /\ reply = NoReply

Init ==
  /\ cast \in Casts
  /\ life = "none" /\ file \in Files /\ loaded = "none" /\ sqlReader = "none"
  /\ generation = 0 /\ faults = 0 /\ crashes = 0
  /\ table = NoTable /\ disk = {}
  /\ Reset

---------------------------------------------------------------------------
(* Statements.                                                             *)

BrowseStatements == {"range", "offset", "offset count", "count", "scan", "chunk",
                     "attach", "drop", "tally", "sorted page"}
Running(conn) ==
  CASE conn = "browse" -> \E r \in Readers : pc[r] \in BrowseStatements
    [] conn = "builder" -> \E r \in Readers : pc[r] = "build"
    [] conn = "sql" -> \E s \in SqlThreads : pc[s] \in {"describe", "rows"}

(* How thread t's statement on conn may end.  A loop over rows looks at    *)
(* the generation now and then.                                            *)
Ends(t, conn, checked) ==
  {"done"} \cup (IF faults < cast.MaxFaults THEN {"failed"} ELSE {})
           \cup (IF conn \in hit THEN {"INTERRUPT"} ELSE {})
           \cup (IF checked /\ generation # gen[t] THEN {"cancelled"} ELSE {})

Counted(end) == faults' = IF end = "failed" THEN faults + 1 ELSE faults

Goto(t, from, to) == pc[t] = from /\ pc' = [pc EXCEPT ![t] = to]

Starts(conn) == hit' = hit \ {conn}

(* Drop for ParquetSession: detach, delete the cache and the spill files.  *)
DropSession ==
  /\ life' = "none"
  /\ active' = NoView /\ attached' = FALSE /\ table' = NoTable
  /\ disk' = {}

KeepSession == UNCHANGED <<life, active, attached, table, disk>>

DropOnSlotOnly(t) ==   \* mutant: only clearing the slot would drop the session
  KeepSession

(* The thread answers and lets go of its Arc; the last one drops a closed  *)
(* session.                                                                *)
LetGo(t) ==
  IF life = "closed" /\ \A u \in Threads \ {t} : pc[u] = "idle"
  THEN DropSession ELSE KeepSession

Answer(t, from, answer) ==
  /\ Goto(t, from, "idle")
  /\ reply' = answer
  /\ browse' = IF browse = t THEN Nobody ELSE browse
  /\ sqlLock' = IF sqlLock = t THEN Nobody ELSE sqlLock
  /\ err' = [err EXCEPT ![t] = "none"]
  /\ shown' = [shown EXCEPT ![t] = 0]
  /\ req' = [req EXCEPT ![t] = NoRequest]
  /\ gen' = [gen EXCEPT ![t] = 0]
  /\ UNCHANGED <<cast, fileVars, generation, building, canceller, crashes>>

Failure(t) == [status |-> "error", req |-> req[t]]
Success(t, rows, total) == [status |-> "ok", req |-> req[t], rows |-> rows, total |-> total]

Working(t) ==   \* what a step within a reader's request leaves alone
  UNCHANGED <<cast, life, fileVars, generation, sqlLock, req, shown, canceller, crashes>> /\ reply' = NoReply

---------------------------------------------------------------------------
(* query_table and count_rows, up to the choice of the path.               *)

Ask(r) ==
  /\ life = "open" /\ r \in cast.threads
  /\ \E q \in Request :
       /\ q.op = "count" => q.sort = "none" /\ q.offset = 0
       /\ req' = [req EXCEPT ![r] = q]
  /\ Goto(r, "idle", "check")
  /\ UNCHANGED <<cast, life, fileVars, generation, browse, sqlLock, viewVars,
                 sort_cache_failed, disk, gen, err, shown, hit, canceller, faults, crashes>>
  /\ reply' = NoReply

(* Requests refused before any lock is taken, and counts known without it. *)
Refuse(r) ==
  /\ pc[r] = "check"
  /\ req[r].filter = BadFilter \/ (req[r].op = "page" /\ req[r].limit = 0)
  /\ Answer(r, "check", Failure(r))
  /\ LetGo(r)
  /\ UNCHANGED <<sort_cache_failed, hit, faults>>

CountAll(r) ==
  /\ pc[r] = "check"
  /\ req[r].op = "count" /\ req[r].filter = NoFilter
  /\ Answer(r, "check", Success(r, <<>>, NRows))
  /\ LetGo(r)
  /\ UNCHANGED <<sort_cache_failed, hit, faults>>

(* A page reads the generation before it waits for the mutex, a count      *)
(* after.                                                                  *)
Check(r) ==
  /\ pc[r] = "check"
  /\ req[r].filter # BadFilter
  /\ IF req[r].op = "page" THEN req[r].limit > 0 ELSE req[r].filter # NoFilter
  /\ Goto(r, "check", "lock")
  /\ gen' = [gen EXCEPT ![r] = generation]
  /\ UNCHANGED <<browse, viewVars, sort_cache_failed, disk, err, hit, faults>>
  /\ Working(r)

Path(r) ==
  LET q == req[r]
      fresh(kind) == active.kind = kind /\ active.key = KeyOf(q)
      listed == KeyOf(q).sort = "none" \/ pages_from_a_list(file) \/ sort_cache_failed
  IN IF ~row_numbers(file) THEN IF q.op = "count" THEN "count" ELSE "offset"
     ELSE IF q.op = "page" /\ q.sort = "none" /\ q.filter = NoFilter THEN "range"
     ELSE IF listed THEN IF fresh("Listed") THEN "listed" ELSE "scan"
     ELSE IF fresh("Sorted") THEN "sorted page"
     ELSE IF attached THEN "drop" ELSE "attach"

(* A rebuild forgets the active view before its first statement.           *)
Acquire(r) ==
  /\ browse = Nobody /\ browse' = r
  /\ Goto(r, "lock", Path(r))
  /\ gen' = IF req[r].op = "count" THEN [gen EXCEPT ![r] = generation] ELSE gen
  /\ active' = IF Path(r) \in {"scan", "drop", "attach"} THEN NoView ELSE active
  /\ Starts("browse")
  /\ UNCHANGED <<attached, table, building, sort_cache_failed, disk, err, faults>>
  /\ Working(r)

---------------------------------------------------------------------------
(* Pages and counts that need no view.                                     *)

(* The final look at the generation of query_table.                        *)
Checked(r, rows, total) ==
  IF generation # gen[r] THEN Failure(r) ELSE Success(r, rows, total)

RangePage(r) ==
  \E end \in Ends(r, "browse", TRUE) :
    /\ Answer(r, "range",
         IF end # "done" THEN Failure(r)
         ELSE Checked(r, Page(ViewOf[KeyOf(req[r])], req[r].offset, req[r].limit), NRows))
    /\ Counted(end) /\ LetGo(r) /\ UNCHANGED <<sort_cache_failed, hit>>

offset_page(r) ==
  \E end \in Ends(r, "browse", TRUE) :
    \/ /\ end # "done"
       /\ Answer(r, "offset", Failure(r))
       /\ Counted(end) /\ LetGo(r) /\ UNCHANGED <<sort_cache_failed, hit>>
    \/ /\ end = "done"
       /\ Goto(r, "offset", "offset count")
       /\ Starts("browse")
       /\ UNCHANGED <<browse, viewVars, sort_cache_failed, disk, gen, err, faults>>
       /\ Working(r)

OffsetCount(r) ==
  /\ pc[r] = "offset count"
  /\ \E end \in Ends(r, "browse", FALSE), view \in UntiedViews(KeyOf(req[r])) :
       /\ Answer(r, "offset count",
            IF end # "done" THEN Failure(r)
            ELSE Checked(r, Page(view, req[r].offset, req[r].limit), Len(view)))
       /\ Counted(end) /\ LetGo(r) /\ UNCHANGED <<sort_cache_failed, hit>>

count_where(r) ==
  \E end \in Ends(r, "browse", FALSE) :
    /\ Answer(r, "count",
         IF end # "done" THEN Failure(r)
         ELSE Success(r, <<>>, Cardinality(Matches[req[r].filter])))
    /\ Counted(end) /\ LetGo(r) /\ UNCHANGED <<sort_cache_failed, hit>>

---------------------------------------------------------------------------
(* Views paged from a list of row numbers.                                 *)

ListOnError(r) ==   \* mutant: what was collected is kept when the scan stops
  \E end \in Ends(r, "browse", TRUE) :
    /\ Goto(r, "scan", "listed")
    /\ active' = [kind |-> "Listed", key |-> KeyOf(req[r]),
                  rows |-> IF end = "done" THEN ViewOf[KeyOf(req[r])] ELSE <<>>]
    /\ Counted(end) /\ UNCHANGED <<hit, browse, attached, table, building, sort_cache_failed,
                                  gen, err, disk>>
    /\ Working(r)

ensure_listed(r) ==
  \E end \in Ends(r, "browse", TRUE) :
    \/ /\ end # "done"
       /\ Answer(r, "scan", Failure(r))
       /\ Counted(end) /\ LetGo(r) /\ UNCHANGED <<sort_cache_failed, hit>>
    \/ /\ end = "done"
       /\ Goto(r, "scan", "listed")
       /\ active' = [kind |-> "Listed", key |-> KeyOf(req[r]), rows |-> ViewOf[KeyOf(req[r])]]
       /\ UNCHANGED <<browse, attached, table, building, sort_cache_failed, gen, err, hit, faults,
                      disk>>
       /\ Working(r)

(* A count is the list's length; an empty page needs no statement.         *)
Listed(r) ==
  LET chunk == Page(active.rows, req[r].offset, req[r].limit)
  IN \/ /\ pc[r] = "listed" /\ req[r].op = "count"
        /\ Answer(r, "listed", Success(r, <<>>, Len(active.rows)))
        /\ LetGo(r) /\ UNCHANGED <<sort_cache_failed, hit, faults>>
     \/ /\ pc[r] = "listed" /\ req[r].op = "page" /\ chunk = <<>>
        /\ Answer(r, "listed", Checked(r, <<>>, Len(active.rows)))
        /\ LetGo(r) /\ UNCHANGED <<sort_cache_failed, hit, faults>>
     \/ /\ pc[r] = "listed" /\ req[r].op = "page" /\ chunk # <<>>
        /\ Goto(r, "listed", "chunk")
        /\ Starts("browse")
        /\ UNCHANGED <<browse, viewVars, sort_cache_failed, disk, gen, err, faults>>
        /\ Working(r)

ListedInFileOrder(r) ==   \* mutant: the rows of the page stay in the order they are read in
  \E end \in Ends(r, "browse", TRUE) :
    /\ Answer(r, "chunk",
         IF end # "done" THEN Failure(r)
         ELSE Checked(r, InOrder(Range(Page(active.rows, req[r].offset, req[r].limit)),
                                 ViewOrder("none")), Len(active.rows)))
    /\ Counted(end) /\ LetGo(r) /\ UNCHANGED <<sort_cache_failed, hit>>

(* The rows come in file order and are put where the list has them.        *)
Placed(chunk) ==
  LET scanned == InOrder(Range(chunk), ViewOrder("none"))
      place == [n \in Range(chunk) |-> CHOOSE i \in DOMAIN chunk : chunk[i] = n]
      places == {ab \in Range(chunk) \X Range(chunk) : place[ab[1]] < place[ab[2]]}
  IN InOrder(Range(scanned), places)

listed_page(r) ==
  \E end \in Ends(r, "browse", TRUE) :
    /\ Answer(r, "chunk",
         IF end # "done" THEN Failure(r)
         ELSE Checked(r, Placed(Page(active.rows, req[r].offset, req[r].limit)),
                      Len(active.rows)))
    /\ Counted(end) /\ LetGo(r) /\ UNCHANGED <<sort_cache_failed, hit>>

---------------------------------------------------------------------------
(* Sorted views of a big file: a table in a cache file of the session.     *)

SortFails(r, from, why) ==
  /\ Goto(r, from, "sorted error")
  /\ err' = [err EXCEPT ![r] = why]

(* A file left under this name by a crashed process is removed first, if   *)
(* the operating system lets go of it; its table is dropped in any case.   *)
Attach(r) ==
  /\ \E end \in Ends(r, "browse", FALSE) :
       \/ /\ end # "done"
          /\ SortFails(r, "attach", end)
          /\ Counted(end)
          /\ UNCHANGED <<attached, table, hit>>
          /\ disk' \in {disk, disk \ {"cache"}}
       \/ /\ end = "done"
          /\ Goto(r, "attach", "drop")
          /\ attached' = TRUE
          /\ table' \in {table, NoTable}
          /\ disk' = disk \cup {"cache"}
          /\ Starts("browse")
          /\ UNCHANGED <<err, faults>>
  /\ UNCHANGED <<browse, active, building, sort_cache_failed, gen>>
  /\ Working(r)

(* DROP TABLE IF EXISTS, then the statement that fills the table starts.   *)
DropOld(r) ==
  /\ \E end \in Ends(r, "browse", FALSE) :
       \/ /\ end # "done"
          /\ SortFails(r, "drop", end)
          /\ UNCHANGED <<table, building, hit>>
          /\ Counted(end)
       \/ /\ end = "done"
          /\ Goto(r, "drop", "build")
          /\ table' = NoTable /\ building' = TRUE
          /\ Starts("builder")
          /\ UNCHANGED <<err, faults>>
  /\ UNCHANGED <<browse, active, attached, sort_cache_failed, gen, disk>>
  /\ Working(r)

BuildEnds(r, from, end, error) ==
  \/ /\ end # "done"
     /\ SortFails(r, from, error)
     /\ table' \in {NoTable, Partial}
     /\ UNCHANGED hit
  \/ /\ end = "done"
     /\ Goto(r, from, "tally")
     /\ table' = KeyOf(req[r])
     /\ Starts("browse")
     /\ UNCHANGED err

BuildLeftMarked(r) ==   \* mutant: only a build that succeeds takes its mark away
  \E end \in Ends(r, "builder", FALSE) :
    /\ BuildEnds(r, "build", end, IF generation # gen[r] THEN "cancelled" ELSE end)
    /\ building' = (end # "done")
    /\ disk' \in {disk, disk \cup {"spill"}}
    /\ Counted(end)
    /\ UNCHANGED <<browse, active, attached, sort_cache_failed, gen>>
    /\ Working(r)

(* The code does not rely on CREATE TABLE AS leaving nothing behind.       *)
Build(r) ==
  \E end \in Ends(r, "builder", FALSE) :
    /\ BuildEnds(r, "build", end, IF generation # gen[r] THEN "cancelled" ELSE end)
    /\ building' = FALSE
    /\ disk' \in {disk, disk \cup {"spill"}}
    /\ Counted(end)
    /\ UNCHANGED <<browse, active, attached, sort_cache_failed, gen>>
    /\ Working(r)

Tally(r) ==   \* SELECT count(*) FROM sc.v
  /\ \E end \in Ends(r, "browse", FALSE) :
       \/ /\ end # "done"
          /\ SortFails(r, "tally", end)
          /\ Counted(end) /\ UNCHANGED <<active, hit>>
       \/ /\ end = "done"
          /\ Goto(r, "tally", "sorted page")
          /\ active' = [kind |-> "Sorted", key |-> KeyOf(req[r]), count |-> Len(ViewOf[table])]
          /\ Starts("browse")
          /\ UNCHANGED <<err, faults>>
  /\ UNCHANGED <<browse, attached, table, building, sort_cache_failed, gen, disk>>
  /\ Working(r)

sorted_page(r) ==
  \E end \in Ends(r, "browse", TRUE) :
    \/ /\ end # "done"
       /\ SortFails(r, "sorted page", end)
       /\ Counted(end)
       /\ UNCHANGED <<browse, viewVars, sort_cache_failed, gen, hit, disk>>
       /\ Working(r)
    \/ /\ end = "done"
       /\ Answer(r, "sorted page",
            Checked(r, Page(ViewOf[table], req[r].offset, req[r].limit), active.count))
       /\ Counted(end) /\ LetGo(r) /\ UNCHANGED <<sort_cache_failed, hit>>

FallBackAlways(r) ==   \* mutant: every failure gives up the cache, an interrupt too
  /\ Goto(r, "sorted error", "scan")
  /\ sort_cache_failed' = TRUE
  /\ active' = NoView
  /\ err' = [err EXCEPT ![r] = "none"]
  /\ Starts("browse")
  /\ UNCHANGED <<browse, attached, table, building, gen, disk, faults>>
  /\ Working(r)

(* A sort the cache cannot hold is paged from a list, now and from now on. *)
FallBack(r) ==
  /\ generation = gen[r] /\ err[r] # "INTERRUPT"
  /\ Goto(r, "sorted error", "scan")
  /\ sort_cache_failed' = TRUE
  /\ active' = NoView
  /\ err' = [err EXCEPT ![r] = "none"]
  /\ Starts("browse")
  /\ UNCHANGED <<browse, attached, table, building, gen, disk, faults>>
  /\ Working(r)

SortStopped(r) ==
  /\ generation # gen[r] \/ err[r] = "INTERRUPT"
  /\ Answer(r, "sorted error", Failure(r))
  /\ LetGo(r) /\ UNCHANGED <<sort_cache_failed, hit, faults>>

---------------------------------------------------------------------------
(* The SQL tab: a database of its own, its statements classified first.    *)

SqlAnswer(s, from, answer) ==
  /\ Answer(s, from, answer)
  /\ LetGo(s) /\ UNCHANGED <<sort_cache_failed, hit>>

SqlStep(s) ==
  UNCHANGED <<cast, life, fileVars, generation, browse, viewVars, sort_cache_failed, disk, err,
              canceller, crashes>> /\ reply' = NoReply

AskSql(s) ==
  /\ life = "open" /\ s \in cast.threads
  /\ \E q \in SqlRequest : req' = [req EXCEPT ![s] = q]
  /\ Goto(s, "idle", "lock")
  /\ UNCHANGED <<sqlLock, gen, shown, hit, faults>> /\ SqlStep(s)

SqlAcquire(s) ==
  /\ sqlLock = Nobody /\ sqlLock' = s
  /\ Goto(s, "lock", "classify")
  /\ UNCHANGED <<req, gen, shown, hit, faults>> /\ SqlStep(s)

(* validate_sql gives no verdict rather than wait.                         *)
validate_sql(s) ==
  /\ req[s].op = "validate"
  /\ \/ sqlLock # Nobody /\ SqlAnswer(s, "lock", [status |-> "busy", req |-> req[s]])
     \/ SqlAnswer(s, "classify", [status |-> IF req[s].verdict = "ok" THEN "fine" ELSE "refused",
                                  req |-> req[s]])
  /\ UNCHANGED faults

Classify(s) ==
  /\ req[s].op = "execute"
  /\ IF req[s].verdict = "ok"
     THEN /\ Goto(s, "classify", "describe")
          /\ Starts("sql")
          /\ UNCHANGED <<sqlLock, req, gen, shown, faults>> /\ SqlStep(s)
     ELSE SqlAnswer(s, "classify", [status |-> "refused", req |-> req[s]]) /\ UNCHANGED faults

Describe(s) ==
  \E end \in Ends(s, "sql", FALSE) :
    \/ /\ end # "done"
       /\ SqlAnswer(s, "describe", [status |-> "error", req |-> req[s], rows |-> 0])
       /\ Counted(end)
    \/ /\ end = "done"
       /\ Goto(s, "describe", "generation")
       /\ UNCHANGED <<sqlLock, req, gen, shown, hit, faults>> /\ SqlStep(s)

(* The generation is read after the statement was described: a cancel of   *)
(* before is not seen by the loop below.                                   *)
ReadGeneration(s) ==
  /\ Goto(s, "generation", "rows")
  /\ gen' = [gen EXCEPT ![s] = generation]
  /\ Starts("sql")
  /\ UNCHANGED <<sqlLock, req, shown, faults>> /\ SqlStep(s)

SqlRow(s) ==
  /\ pc[s] = "rows" /\ shown[s] < req[s].size
  /\ generation = gen[s] /\ shown[s] < SqlResultLimit
  /\ shown' = [shown EXCEPT ![s] = @ + 1]
  /\ UNCHANGED <<sqlLock, pc, req, gen, hit, faults>> /\ SqlStep(s)

RowsAtLimit(s) ==   \* mutant: a result of exactly the limit counts as truncated
  [status |-> "ok", req |-> req[s], rows |-> shown[s], truncated |-> shown[s] = SqlResultLimit]

RowsShown(s) ==
  [status |-> "ok", req |-> req[s], rows |-> shown[s], truncated |-> shown[s] < req[s].size]

(* A row too many ends the loop as truncated, no more rows as complete;    *)
(* an error or a cancel sends what there is.                               *)
execute_sql(s) ==
  \/ /\ pc[s] = "rows"
     /\ shown[s] = req[s].size \/ (generation = gen[s] /\ shown[s] = SqlResultLimit)
     /\ SqlAnswer(s, "rows", RowsShown(s)) /\ UNCHANGED faults
  \/ /\ pc[s] = "rows"
     /\ \E end \in Ends(s, "sql", shown[s] < req[s].size) \ {"done"} :
       /\ SqlAnswer(s, "rows", [status |-> "error", req |-> req[s], rows |-> shown[s]])
       /\ Counted(end)

---------------------------------------------------------------------------
(* The life of the session, and the process around it.                     *)

Around == UNCHANGED <<cast, crashes, browse, sqlLock, threadVars, faults>> /\ reply' = NoReply

(* A file that cannot be read leaves nothing behind.                       *)
Open ==
  /\ life = "none" /\ canceller = "idle"
  /\ load_text_file(file) # "unreadable"
  /\ life' = "open"
  /\ loaded' = load_text_file(file) /\ sqlReader' = SqlReader(file)
  /\ sort_cache_failed' = FALSE
  /\ UNCHANGED <<file, generation, viewVars, disk, hit, canceller>> /\ Around

(* cancel_queries: the generation first, then each connection.             *)
Bump ==
  /\ life # "none" /\ canceller = "idle" /\ generation < cast.MaxGeneration
  /\ generation' = generation + 1
  /\ canceller' = IF life = "open" THEN "browse" ELSE "idle"
  /\ UNCHANGED <<life, fileVars, viewVars, sort_cache_failed, disk, hit>> /\ Around

Interrupt(conn, next) ==
  /\ canceller = conn /\ canceller' = next
  /\ hit' = IF Running(conn) THEN hit \cup {conn} ELSE hit
  /\ UNCHANGED <<life, fileVars, generation, viewVars, sort_cache_failed, disk>> /\ Around

Interrupts == \/ Interrupt("browse", "builder")
              \/ Interrupt("builder", "sql")
              \/ Interrupt("sql", "idle")
              \/ Interrupt("sql", "close")

(* close_database, or an open that replaces the session: it cancels first, *)
(* then the slot lets go.                                                  *)
Close ==
  /\ canceller = "close" /\ canceller' = "idle"
  /\ IF \A t \in Threads : pc[t] = "idle" THEN DropSession
     ELSE life' = "closed" /\ UNCHANGED <<active, attached, table, disk>>
  /\ UNCHANGED <<fileVars, generation, building, sort_cache_failed, hit>>
  /\ Around

(* A crash leaves the files; a later process may get the same file name.   *)
Crash ==
  /\ life # "none" /\ disk # {} /\ crashes < cast.MaxCrashes
  /\ life' = "none" /\ active' = NoView /\ attached' = FALSE
  /\ sort_cache_failed' = FALSE /\ building' = FALSE
  /\ browse' = Nobody /\ sqlLock' = Nobody
  /\ pc' = [t \in Threads |-> "idle"] /\ req' = [t \in Threads |-> NoRequest]
  /\ gen' = [t \in Threads |-> 0] /\ err' = [t \in Threads |-> "none"]
  /\ shown' = [t \in Threads |-> 0]
  /\ hit' = {} /\ canceller' = "idle" /\ reply' = NoReply
  /\ generation' = 0
  /\ crashes' = crashes + 1
  /\ UNCHANGED <<cast, fileVars, table, disk, faults>>

(* Any process that starts sweeps what has not been written for a day: a   *)
(* crashed session's files, or on Unix the names of an idle one's.         *)
sweep_stale_cache ==
  /\ disk # {} /\ \A t \in Threads : pc[t] = "idle"
  /\ disk' \in (SUBSET disk) \ {disk}
  /\ table' = IF attached \/ "cache" \in disk' THEN table ELSE NoTable
  /\ UNCHANGED <<life, fileVars, generation, active, attached, building, sort_cache_failed, hit,
                 canceller>>
  /\ Around

ReaderStep(r) ==
  \/ Refuse(r) \/ CountAll(r) \/ Check(r) \/ Acquire(r)
  \/ RangePage(r) \/ offset_page(r) \/ OffsetCount(r) \/ count_where(r)
  \/ ensure_listed(r) \/ Listed(r) \/ listed_page(r)
  \/ Attach(r) \/ DropOld(r) \/ Build(r) \/ Tally(r) \/ sorted_page(r)
  \/ FallBack(r) \/ SortStopped(r)

SqlThreadStep(s) ==
  \/ SqlAcquire(s) \/ validate_sql(s) \/ Classify(s)
  \/ Describe(s) \/ ReadGeneration(s) \/ SqlRow(s) \/ execute_sql(s)

Next ==
  \/ \E r \in Readers : Ask(r) \/ ReaderStep(r)
  \/ \E s \in SqlThreads : AskSql(s) \/ SqlThreadStep(s)
  \/ Open \/ Bump \/ Interrupts \/ Close \/ Crash \/ sweep_stale_cache

Spec == Init /\ [][Next]_vars

---------------------------------------------------------------------------
(* Properties.                                                             *)

(* A page is the page of the view its request names, in its order and with *)
(* its total, and a count is that view's length, whichever of the four     *)
(* paths served it and whatever failed, was cancelled or was cached before.*)
(* Without row numbers the order of equal rows is open.                    *)
PagesRight ==
  (reply.status = "ok" /\ reply.req.op # "execute") =>
    LET q == reply.req
        views == IF row_numbers(file) THEN {ViewOf[KeyOf(q)]} ELSE UntiedViews(KeyOf(q))
    IN \E view \in views :
         /\ reply.total = Len(view)
         /\ q.op = "page" => reply.rows = Page(view, q.offset, q.limit)

(* The active view is whole: a list holds every row of its key, and a      *)
(* sorted view's key is that of the table in the attached cache, although  *)
(* the table is dropped, filled and dropped again under it and a leftover  *)
(* of a crashed process may be in the file.                                *)
ActiveViewWhole ==
  /\ active.kind = "Listed" => active.rows = ViewOf[active.key]
  /\ active.kind = "Sorted" =>
       attached /\ table = active.key /\ active.count = Len(ViewOf[active.key])

(* The sort cache is given up for an error of DuckDB's own, never because  *)
(* somebody cancelled the build or the page.                               *)
CacheGivenUpForFailure == sort_cache_failed => faults > 0

(* Progress is reported of a build that runs, never of an earlier          *)
(* statement of that connection.                                           *)
ProgressOfABuild == building => \E r \in Readers : pc[r] = "build" /\ browse = r

(* The sort cache across builds that fail, are cancelled or follow a crash: *)
(* what is served from it is whole, it is given up for a reason, and its   *)
(* progress is its own (pq/query.rs:150).                                  *)
SortCacheSound == ActiveViewWhole /\ CacheGivenUpForFailure /\ ProgressOfABuild

(* A session that was closed leaves no file behind, although the last of   *)
(* its readers may finish long after; only a crash does.                   *)
NothingLeftBehind ==
  (life # "open" /\ (\A t \in Threads : pc[t] = "idle") /\ disk # {}) => crashes > 0

(* The SQL tab reads the file the way Browse Data does: by the same sample *)
(* or by the result of the same full scan.                                 *)
OneReading == life # "none" => sqlReader = loaded

(* Only a single SELECT sends rows; a complete answer has all of them or,  *)
(* marked, the first SqlResultLimit.                                       *)
SelectAnswered ==
  (reply.status \in {"ok", "error"} /\ reply.req.op = "execute") =>
    /\ reply.req.verdict = "ok"
    /\ reply.status = "ok" =>
         /\ reply.rows = Least(reply.req.size, SqlResultLimit)
         /\ reply.truncated = (reply.req.size > SqlResultLimit)

(* The SQL tab shows what Browse Data shows, and not less without a word.  *)
SqlShownRight == OneReading /\ SelectAnswered

(* A build the user stopped stays stopped: no request from before a cancel *)
(* starts one after it (the comment at pq/query.rs:170).                   *)
StoppedStaysStopped ==
  [][\A r \in Readers : (pc[r] = "drop" /\ pc'[r] = "build") => gen[r] = generation]_vars

=============================================================================
