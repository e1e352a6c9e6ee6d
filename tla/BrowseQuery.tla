---------------------------- MODULE BrowseQuery ----------------------------
(***************************************************************************)
(* query_table and count_rows (db/query.rs): one page of one view of one   *)
(* table, or a count.  A reader holds `conn` from its first look at the    *)
(* connection to its answer; each statement it runs is a place (`count`,   *)
(* `scan`, `page`) at which an interrupt, a cancel or an I/O error can     *)
(* reach it.                                                               *)
(*                                                                         *)
(* Row data is abstracted to where it came from: the answer names the      *)
(* snapshot the count was taken on (`total`) and the cache entry the page  *)
(* was located with (`via`).                                               *)
(***************************************************************************)
EXTENDS DbState

browseRest == <<sessionVars, generation, auxLock, auxStop, opened, opening, sql>>

(* Between two statements of one request the interrupt flag is down:       *)
(* SQLite lowers it when a statement starts with no other one active.      *)
LowerFlag(r) == stop' = stop \ {job[r].snap}

(* The request is over: the connection lock is released with the answer.   *)
Finish(r, from, status) ==
  /\ Goto(r, from, "done")
  /\ connLock' = Free
  /\ job' = [job EXCEPT ![r].status = status]

(* The error a failing statement reports: the interrupt, or SQLite's own   *)
(* (a truncated or corrupt file).                                          *)
Failure(r) == IF job[r].snap \in stop THEN "interrupted" ELSE "error"

-----------------------------------------------------------------------------
(* The command arrives, picks its backend, and waits for the connection.   *)

Ask(r) ==
  /\ Goto(r, "idle", "dispatch")
  /\ \E q \in Request : job' = [job EXCEPT ![r].want = q]
  /\ UNCHANGED <<browseRest, cacheVars, stop, connLock>>

(* A Parquet session answers instead when there is one (its own lock is    *)
(* released at once: the command keeps an Arc to the session).             *)
ToParquet(r) ==
  /\ Goto(r, "dispatch", "done")
  /\ parquet # None
  /\ job' = [job EXCEPT ![r].snap = parquet, ![r].status = "parquet"]
  /\ UNCHANGED <<browseRest, cacheVars, stop, connLock>>

ToSqlite(r) ==
  /\ Goto(r, "dispatch", "lock")
  /\ parquet = None
  /\ UNCHANGED <<browseRest, cacheVars, stop, connLock, job>>

NotOpen(r) ==
  /\ Goto(r, "lock", "done")
  /\ connLock = Free /\ conn = None
  /\ job' = [job EXCEPT ![r].status = "closed"]
  /\ UNCHANGED <<browseRest, cacheVars, stop, connLock>>

(* The request is turned down before any row is read: a page size out of   *)
(* range, without a look at the connection; a table that is not there or a *)
(* pattern that does not compile, with it.                                 *)
Rejected(r) ==
  /\ Goto(r, "lock", "done")
  /\ job[r].want.op = "page" \/ (connLock = Free /\ conn # None)
  /\ job' = [job EXCEPT ![r].status = "error"]
  /\ UNCHANGED <<browseRest, cacheVars, stop, connLock>>

(* The generation a request runs under is read once it holds the lock.     *)
(* Which path serves it depends on the view, on whether the table has a    *)
(* usable rowid, and on whether the page starts at a chunk boundary.       *)
AcquireUnlocked(r, to, goal) ==   \* mutant: the mutex does not exclude
  /\ Goto(r, "lock", to)
  /\ conn # None
  /\ connLock' = r
  /\ stop' = stop \ {conn}
  /\ job' = [job EXCEPT ![r].snap = conn, ![r].gen = generation, ![r].goal = goal]
  /\ UNCHANGED <<browseRest, cacheVars>>

Acquire(r, to, goal) ==
  /\ Goto(r, "lock", to)
  /\ connLock = Free /\ conn # None
  /\ connLock' = r
  /\ stop' = stop \ {conn}
  /\ job' = [job EXCEPT ![r].snap = conn, ![r].gen = generation, ![r].goal = goal]
  /\ UNCHANGED <<browseRest, cacheVars>>

SortedAlways(q) == TRUE   \* mutant: an unsorted page takes the sorted path
Sorted(q) == q.view # Plain
Indexed(q) == q.table \in RowidTables /\ q.chunk # "unaligned"

QueryTable(r) ==
  LET q == job[r].want
      rowid == q.table \in RowidTables
  IN /\ q.op = "page"
     /\ \/ q.view = Plain /\ Indexed(q) /\ Acquire(r, "index", "index")
        \/ q.view = Plain /\ ~Indexed(q) /\ Acquire(r, "count", "offset")
        \/ Sorted(q) /\ rowid /\ Acquire(r, "order", "order")
        \/ q.view \in SortViews /\ ~rowid /\ Acquire(r, "count", "offset")
        \/ q.view \in FilterViews /\ ~rowid /\ Acquire(r, "page", "offset")
        \/ q.view \in RegexViews /\ ~rowid /\ Acquire(r, "scan", "regex")

CountRows(r) ==
  /\ job[r].want.op = "count"
  /\ \/ job[r].want.view = Plain /\ Acquire(r, "count", "answer")
     \/ job[r].want.view # Plain /\ Acquire(r, "page", "answer")

-----------------------------------------------------------------------------
(* cached_total_rows: the table's count, from the cache or measured, and   *)
(* then what the count was for.                                            *)

Counted(r, from, snap) ==
  \/ /\ job[r].goal = "answer"
     /\ Goto(r, from, "done")
     /\ connLock' = Free
     /\ job' = [job EXCEPT ![r].total = snap, ![r].status = "rows"]
  \/ /\ job[r].goal \in {"head", "offset"}
     /\ Goto(r, from, "page")
     /\ job' = [job EXCEPT ![r].total = snap]
     /\ UNCHANGED connLock
  \/ /\ job[r].goal \in {"index", "order"}
     /\ Goto(r, from, "scan")
     /\ job' = [job EXCEPT ![r].total = snap, ![r].scanned = 0]
     /\ UNCHANGED connLock

CountCached(r) ==
  /\ pc[r] = "count"
  /\ counts[job[r].want.table] # None
  /\ Counted(r, "count", counts[job[r].want.table])
  /\ LowerFlag(r)
  /\ UNCHANGED <<browseRest, cacheVars>>

CountStart(r) ==
  /\ Goto(r, "count", "counting")
  /\ counts[job[r].want.table] = None
  /\ LowerFlag(r)
  /\ UNCHANGED <<browseRest, cacheVars, connLock, job>>

CountEnd(r) ==
  /\ Counted(r, "counting", job[r].snap)
  /\ counts' = [counts EXCEPT ![job[r].want.table] = job[r].snap]
  /\ LowerFlag(r)
  /\ UNCHANGED <<browseRest, indexes, orders>>

(* An index build that fails is reported as a cancel if the generation     *)
(* moved; otherwise the page is served by LIMIT/OFFSET.                    *)
IndexBuildRetried(r, from) ==   \* mutant: the build is tried again
  \/ /\ job[r].gen # generation
     /\ Finish(r, from, "cancelled")
  \/ /\ job[r].gen = generation
     /\ Goto(r, from, "index")
     /\ UNCHANGED <<connLock, job>>

IndexBuildFails(r, from) ==
  \/ /\ job[r].gen # generation
     /\ Finish(r, from, "cancelled")
  \/ /\ job[r].gen = generation
     /\ Goto(r, from, "count")
     /\ job' = [job EXCEPT ![r].goal = "offset"]
     /\ UNCHANGED connLock

CountFails(r) ==
  /\ pc[r] = "counting"
  /\ \/ job[r].goal = "index" /\ IndexBuildFails(r, "counting")
     \/ /\ job[r].goal = "order"    \* only sizes the vector: unwrap_or(0)
        /\ Goto(r, "counting", "scan")
        /\ job' = [job EXCEPT ![r].scanned = 0]
        /\ UNCHANGED connLock
     \/ job[r].goal \in {"answer", "head", "offset"} /\ Finish(r, "counting", Failure(r))
  /\ LowerFlag(r)
  /\ UNCHANGED <<browseRest, cacheVars>>

-----------------------------------------------------------------------------
(* query_with_rowid_index: an index sampled for another page size is       *)
(* dropped, the first chunk never builds one, a chunk past the last        *)
(* boundary falls through to LIMIT/OFFSET.                                 *)

UseIndex(r, from, entry) ==
  /\ \/ /\ job[r].want.chunk # "past"
        /\ Goto(r, from, "page")
        /\ job' = [job EXCEPT ![r].via = entry, ![r].total = entry.total]
     \/ /\ job[r].want.chunk = "past"
        /\ Goto(r, from, "count")
        /\ job' = [job EXCEPT ![r].goal = "offset"]
  /\ UNCHANGED connLock

Usable(index, q) == index # NoEntry /\ index.limit = q.limit

LookupIndex(r) ==
  LET q == job[r].want
  IN /\ pc[r] = "index"
     /\ \/ /\ Usable(indexes[q.table], q)
           /\ UseIndex(r, "index", indexes[q.table])
           /\ UNCHANGED indexes
        \/ /\ ~Usable(indexes[q.table], q)
           /\ Goto(r, "index", "count")
           /\ job' = [job EXCEPT ![r].goal = IF q.chunk = "first" THEN "head" ELSE "index"]
           /\ indexes' = [indexes EXCEPT ![q.table] = NoEntry]
           /\ UNCHANGED connLock
     /\ LowerFlag(r)
     /\ UNCHANGED <<browseRest, orders, counts>>

(* query_with_ordered_rows: the cached view is served only for an equal    *)
(* key; an unfiltered sort asks for the count first.                       *)
FreshForAnyKey(order, q) == order # NoEntry   \* mutant: the key is not compared
Fresh(order, q) == order # NoEntry /\ order.view = q.view

LookupOrder(r) ==
  LET q == job[r].want
  IN /\ pc[r] = "order"
     /\ \/ /\ Fresh(orders[q.table], q)
           /\ Goto(r, "order", "page")
           /\ job' = [job EXCEPT ![r].via = orders[q.table], ![r].total = orders[q.table].snap]
        \/ /\ ~Fresh(orders[q.table], q)
           /\ Goto(r, "order", IF q.view \in SortViews THEN "count" ELSE "scan")
           /\ UNCHANGED job
     /\ LowerFlag(r)
     /\ UNCHANGED <<browseRest, cacheVars, connLock>>

-----------------------------------------------------------------------------
(* build_rowid_index, build_ordered_rows, build_regex_matched_rows and     *)
(* query_with_regex_filter: a full scan that checks the generation at      *)
(* every row it is handed, and caches only a scan that reached the end.    *)

ScanRow(r) ==
  /\ pc[r] = "scan"
  /\ job[r].scanned < NRows
  /\ job[r].gen = generation
  /\ job' = [job EXCEPT ![r].scanned = @ + 1]
  /\ UNCHANGED <<browseRest, cacheVars, stop, connLock, pc>>

ScanCancelled(r) ==
  /\ Finish(r, "scan", "cancelled")
  /\ job[r].scanned < NRows
  /\ job[r].gen # generation
  /\ LowerFlag(r)
  /\ UNCHANGED <<browseRest, cacheVars>>

ScanFails(r) ==
  /\ pc[r] = "scan"
  /\ \/ job[r].goal = "index" /\ IndexBuildFails(r, "scan")
     \/ job[r].goal # "index" /\ Finish(r, "scan", Failure(r))
  /\ LowerFlag(r)
  /\ UNCHANGED <<browseRest, cacheVars>>

(* mutant: `while let Ok(Some(row))` takes an error for the last row *)
ScanEndsOnError(r) == job[r].scanned = NRows \/ job[r].snap \in stop
ScanEnds(r) == job[r].scanned = NRows

IndexBuilt(r) ==
  LET q == job[r].want
      entry == [snap |-> job[r].snap, rows |-> job[r].scanned, limit |-> q.limit,
                total |-> job[r].total]
  IN /\ job[r].goal = "index" /\ ScanEnds(r)
     /\ UseIndex(r, "scan", entry)
     /\ indexes' = [indexes EXCEPT ![q.table] = entry]
     /\ LowerFlag(r)
     /\ UNCHANGED <<browseRest, orders, counts>>

(* Only the active table's view is retained.                               *)
OrderBuilt(r) ==
  LET q == job[r].want
      entry == [snap |-> job[r].snap, rows |-> job[r].scanned, view |-> q.view]
  IN /\ job[r].goal = "order" /\ ScanEnds(r)
     /\ Goto(r, "scan", "page")
     /\ job' = [job EXCEPT ![r].via = entry, ![r].total = job[r].snap]
     /\ orders' = [t \in Tables |-> IF t = q.table THEN entry ELSE NoEntry]
     /\ LowerFlag(r)
     /\ UNCHANGED <<browseRest, indexes, counts, connLock>>

RegexScanned(r) ==
  /\ job[r].goal = "regex" /\ ScanEnds(r)
  /\ Finish(r, "scan", "rows")
  /\ LowerFlag(r)
  /\ UNCHANGED <<browseRest, cacheVars>>

-----------------------------------------------------------------------------
(* The page itself: one statement, with no generation check of its own.    *)

PageRead(r) ==
  /\ Finish(r, "page", "rows")
  /\ LowerFlag(r)
  /\ UNCHANGED <<browseRest, cacheVars>>

PageFails(r) ==
  /\ Finish(r, "page", Failure(r))
  /\ LowerFlag(r)
  /\ UNCHANGED <<browseRest, cacheVars>>

Deliver(r) ==
  /\ Goto(r, "done", "idle")
  /\ job' = [job EXCEPT ![r] = NoJob]
  /\ UNCHANGED <<browseRest, cacheVars, stop, connLock>>

(* A statement the interrupt has reached stops: the one failure that is    *)
(* certain to come.                                                        *)
ReaderInterrupted(r) ==
  job[r].snap \in stop /\ (CountFails(r) \/ ScanFails(r) \/ PageFails(r))

Answer(r) ==
  \/ ToParquet(r) \/ ToSqlite(r) \/ NotOpen(r) \/ Rejected(r)
  \/ QueryTable(r) \/ CountRows(r)
  \/ CountCached(r) \/ CountStart(r) \/ CountEnd(r) \/ CountFails(r)
  \/ LookupIndex(r) \/ LookupOrder(r)
  \/ ScanRow(r) \/ ScanCancelled(r) \/ ScanFails(r)
  \/ IndexBuilt(r) \/ OrderBuilt(r) \/ RegexScanned(r)
  \/ PageRead(r) \/ PageFails(r) \/ Deliver(r)
=============================================================================
