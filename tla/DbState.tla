------------------------------ MODULE DbState ------------------------------
(***************************************************************************)
(* The state every backend command of dblitz shares: `DbState` in          *)
(* src-tauri/src/db/types.rs.  Two SQLite connections on one frozen        *)
(* snapshot of the open file (`conn` for Browse Data, `aux_conn` for the   *)
(* SQL and Structure tabs), the Parquet session that replaces them, the    *)
(* path, the three table-keyed caches, the interrupt handles and the       *)
(* query generation.                                                       *)
(*                                                                         *)
(* A file opened with ?immutable=1 is a frozen snapshot for as long as the *)
(* connection lives, so a connection, the snapshot it reads and the path   *)
(* it was opened from are one natural number: the n-th open of the run.    *)
(* Reopening the same file gives a new number: the file may have changed   *)
(* in between, so nothing read through the old connection may be served    *)
(* through the new one.                                                    *)
(*                                                                         *)
(* This module has the state, its types and what the threads do to it      *)
(* together (locks, interrupts).  Lifecycle, BrowseQuery and SqlConnection *)
(* are the commands; Backend composes them.                                *)
(***************************************************************************)
EXTENDS Naturals

CONSTANTS
  Openers,      \* threads that run open_database, open_parquet, close_database
  Cancellers,   \* threads that run cancel_queries
  Readers,      \* threads that run query_table and count_rows
  SqlThreads,   \* threads that run execute_sql, get_schema, validate_sql
  Free,         \* the owner of an unlocked mutex
  Tables,       \* the table names (a table of one file may exist in another)
  RowidTables,  \* the tables with a usable rowid alias
  Plain,        \* the view with no filter and no sort
  SortViews,    \* order keys with an ORDER BY and no filter
  FilterViews,  \* order keys with a WHERE clause, sorted or not
  RegexViews,   \* order keys with a regex filter, evaluated in Rust
  Limits,       \* the page sizes a request may ask for
  Chunks,       \* where an unfiltered, unsorted page may start (below)
  SqlKinds,     \* the commands SQL threads run
  NRows,        \* rows a full scan of a table yields
  MaxOpens,     \* bound: connections and sessions created in a run
  MaxGeneration \* bound: opens, closes and cancels in a run

Threads == Openers \cup Cancellers \cup Readers \cup SqlThreads
Views == SortViews \cup FilterViews \cup RegexViews

(* A page starts at the first row, at another chunk boundary, at one past  *)
(* the end of the table, or at no boundary at all.                         *)
AllChunks == {"first", "deep", "past", "unaligned"}
AllSqlKinds == {"execute", "schema", "validate"}

(* The sets of threads do not overlap, `Free` is no thread, `Plain` is no  *)
(* view, and a scan yields at least one row.                               *)
ASSUME ThreadsAssumption ==
  /\ Free \notin Threads
  /\ Openers \cap (Cancellers \cup Readers \cup SqlThreads) = {}
  /\ Cancellers \cap (Readers \cup SqlThreads) = {}
  /\ Readers \cap SqlThreads = {}

ASSUME DataAssumption ==
  /\ RowidTables \subseteq Tables
  /\ Plain \notin Views
  /\ SortViews \cap (FilterViews \cup RegexViews) = {}
  /\ FilterViews \cap RegexViews = {}
  /\ Limits \subseteq Nat
  /\ Chunks \subseteq AllChunks
  /\ SqlKinds \subseteq AllSqlKinds
  /\ NRows \in Nat \ {0}
  /\ MaxOpens \in Nat
  /\ MaxGeneration \in Nat

None == 0  \* no connection, no session, no path, no handle

VARIABLES
  conn, aux,           \* the two SQLite connections
  parquet,             \* the Parquet session
  path,                \* current_path, as the open it belongs to
  handle, auxHandle,   \* what the two interrupt handles would interrupt
  generation,          \* query_generation
  indexes,             \* rowid_indexes: table -> sparse rowid index
  orders,              \* ordered_rows: table -> materialised view
  counts,              \* table_counts: table -> snapshot it was counted on
  connLock, auxLock,   \* the owners of the two connection mutexes
  stop, auxStop,       \* connections whose running statement was interrupted
  opened,              \* connections and sessions created so far
  pc,                  \* where each thread is
  opening,             \* per opener: the command it is running
  job,                 \* per reader: its request and what it has found
  sql                  \* per SQL thread: its request and what it has found

sessionVars == <<conn, aux, parquet, path, handle, auxHandle>>
cacheVars == <<indexes, orders, counts>>
lockVars == <<connLock, auxLock>>
stopVars == <<stop, auxStop>>
vars == <<sessionVars, generation, cacheVars, lockVars, stopVars, opened,
          pc, opening, job, sql>>

-----------------------------------------------------------------------------
(* A cached entry carries what decides whether it may be served: the       *)
(* snapshot it was read from, how many of the table's rows the scan had    *)
(* seen when it was stored, and what it is keyed by.                       *)
NoEntry == [snap |-> None]
RowidIndex == [snap : Nat, rows : Nat, limit : Limits, total : Nat]
OrderedRows == [snap : Nat, rows : Nat, view : Views]

Request ==
  [op : {"page"}, table : Tables, view : {Plain}, chunk : Chunks, limit : Limits]
    \cup [op : {"page"}, table : Tables, view : Views, chunk : {"first"}, limit : Limits]
    \cup [op : {"count"}, table : Tables, view : {Plain} \cup SortViews \cup FilterViews,
          chunk : {"first"}, limit : Limits]

(* Why a reader needs a count or a scan, which decides what follows it.    *)
Goals == {"answer", "head", "offset", "index", "order", "regex"}
Statuses == {"pending", "rows", "cancelled", "interrupted", "error", "closed", "parquet"}

NoRequest == [op |-> "none"]
Job == [want : Request \cup {NoRequest}, gen : Nat, snap : Nat, goal : Goals,
        scanned : Nat, total : Nat, via : {NoEntry} \cup RowidIndex \cup OrderedRows,
        status : Statuses]
NoJob == [want |-> NoRequest, gen |-> 0, snap |-> None, goal |-> "answer",
          scanned |-> 0, total |-> None, via |-> NoEntry, status |-> "pending"]

Opening == [mode : {"open", "parquet", "close"}, snap : Nat, prev : Nat,
            prevAux : Nat, counted : SUBSET Tables]
Started(mode, snap) == [mode |-> mode, snap |-> snap, prev |-> None, prevAux |-> None,
                        counted |-> {}]
NoOpening == Started("close", None)

SqlJob == [kind : AllSqlKinds, gen : Nat, snap : Nat,
           scanned : Nat, status : Statuses]
NoSqlJob == [kind |-> "execute", gen |-> 0, snap |-> None, scanned |-> 0,
             status |-> "pending"]

OpenerPC == {"idle", "open_interrupt", "open_interrupt_aux", "connect", "publish",
             "publish_aux", "sweep", "restore", "restore_aux", "swap", "swap_aux",
             "swap_in", "take_parquet", "name", "close_interrupt",
             "close_interrupt_aux", "drop_conn", "drop_aux", "drop_path",
             "drop_handle", "drop_aux_handle", "drop_parquet", "clear_indexes",
             "clear_orders", "clear_counts", "set_parquet"}
CancellerPC == {"idle", "interrupt", "interrupt_aux"}
ReaderPC == {"idle", "dispatch", "lock", "index", "order", "count", "counting",
             "scan", "page", "done"}
SqlPC == {"idle", "dispatch", "lock", "prepare", "rows", "done"}

TypeOK ==
  /\ conn \in Nat /\ aux \in Nat /\ parquet \in Nat /\ path \in Nat
  /\ handle \in Nat /\ auxHandle \in Nat
  /\ generation \in Nat /\ opened \in Nat
  /\ indexes \in [Tables -> {NoEntry} \cup RowidIndex]
  /\ orders \in [Tables -> {NoEntry} \cup OrderedRows]
  /\ counts \in [Tables -> Nat]
  /\ connLock \in Threads \cup {Free} /\ auxLock \in Threads \cup {Free}
  /\ stop \in SUBSET Nat /\ auxStop \in SUBSET Nat
  /\ pc \in [Threads -> OpenerPC \cup CancellerPC \cup ReaderPC \cup SqlPC]
  /\ \A o \in Openers : pc[o] \in OpenerPC
  /\ \A c \in Cancellers : pc[c] \in CancellerPC
  /\ \A r \in Readers : pc[r] \in ReaderPC
  /\ \A s \in SqlThreads : pc[s] \in SqlPC
  /\ opening \in [Openers -> Opening]
  /\ job \in [Readers -> Job]
  /\ sql \in [SqlThreads -> SqlJob]

Init ==
  /\ conn = None /\ aux = None /\ parquet = None /\ path = None
  /\ handle = None /\ auxHandle = None
  /\ generation = 0 /\ opened = 0
  /\ indexes = [t \in Tables |-> NoEntry]
  /\ orders = [t \in Tables |-> NoEntry]
  /\ counts = [t \in Tables |-> None]
  /\ connLock = Free /\ auxLock = Free
  /\ stop = {} /\ auxStop = {}
  /\ pc = [t \in Threads |-> "idle"]
  /\ opening = [o \in Openers |-> NoOpening]
  /\ job = [r \in Readers |-> NoJob]
  /\ sql = [s \in SqlThreads |-> NoSqlJob]

-----------------------------------------------------------------------------
(* What the commands share.                                                *)

(* Thread `t` goes from one place of its command to the next.              *)
Goto(t, from, to) == pc[t] = from /\ pc' = [pc EXCEPT ![t] = to]

Bump == generation < MaxGeneration /\ generation' = generation + 1

(* A reader whose request has a statement stepping on its connection.      *)
RunningPC == {"counting", "scan", "page"}
HoldsConnPC == RunningPC \cup {"index", "order", "count"}

BrowseStatement(c) ==
  \/ \E r \in Readers : pc[r] \in RunningPC /\ job[r].snap = c
  \/ \E o \in Openers : pc[o] = "sweep" /\ opening[o].snap = c
AuxStatement(c) == \E s \in SqlThreads : pc[s] = "rows" /\ sql[s].snap = c

(* sqlite3_interrupt stops the statement running on the connection the     *)
(* handle names, at its next step; with none running it has no effect.     *)
InterruptBrowse ==
  stop' = IF handle # None /\ BrowseStatement(handle) THEN stop \cup {handle} ELSE stop
InterruptAux ==
  auxStop' = IF auxHandle # None /\ AuxStatement(auxHandle)
             THEN auxStop \cup {auxHandle} ELSE auxStop

(* `rowid_indexes` stays locked from the lookup to the end of a build, and *)
(* `ordered_rows` likewise; clear_caches waits for whoever holds them.     *)
HoldsCache(r, goal) == pc[r] \in {"count", "counting", "scan"} /\ job[r].goal = goal
=============================================================================
