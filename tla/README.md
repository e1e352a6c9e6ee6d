# dblitz in TLA+

dblitz is a read-only viewer for SQLite, Parquet, CSV and JSON files: a Rust
backend (`src-tauri/src`) behind a Svelte frontend (`src`), talking over Tauri
commands.  Every command runs on a thread of a pool, so opens, closes, cancels,
pages, counts and SQL statements of one window interleave freely in the
backend; in the frontend every `await` is a point at which the user may have
moved on.  This directory holds models of the parts where that matters, the TLC
runs that check them, and proofs of the properties that carry the design.

## The system

| Component | State it keeps | Operations | What is hard | What makes it correct |
|---|---|---|---|---|
| `DbState` and the commands (`db.rs`, `db/types.rs`, `commands.rs`) | two connections, Parquet slot, path, two interrupt handles, generation, three caches keyed by table | open, close, open Parquet, cancel | six mutexes taken one by one; interrupts that bypass the connection mutex | caches belong to the connection; one engine at a time; a failed open changes nothing |
| Opening (`db/schema.rs`) | none of its own | open two connections, publish handles, sweep, swap | the sweep is interruptible and runs with the handles already published | the swap is atomic to readers; the sweep can be cancelled |
| Browse Data queries (`db/query.rs`) | uses the caches | `query_table`, `count_rows` | five ways to serve a page, each with builds that can be cancelled, interrupted or fail half way | an answer is of one snapshot and one view, whole |
| SQL tab (`db/sql.rs`) | uses the second connection | `execute_sql`, `validate_sql`, schema reads | must not wait for Browse Data; `try_lock` | answered while Browse Data grinds |
| Filter builders (`db/filters.rs`, `pq/filters.rs`) | none | typed filters to WHERE clause and parameters | two builders; parameters collected apart from the text; regular expressions left to the row scan | the rows kept are the rows the filters mean |
| Parquet/CSV/JSON engine (`pq/`) | three DuckDB connections, raw handles, an active view, a sort cache on disk | the same commands | its own locks, generation checks, a fallback from the sorted cache to a list, handles released by hand, threads that outlive the close | a page is of the view asked for; the cache is whole or given up; nothing is left on disk or used after its release |
| Configuration (`config.rs`) | `app.json`, one file per opened database | read-modify-write, atomic replace, legacy keys | unlocked read-modify-write from several windows; crashes between the steps | no half-written file; nothing saved disappears; a command changes its own setting |
| Launch and platform (`launch.rs`, `platform/`) | one pending path, the window's marker, registry entries | deliver, take, find a window, register | the webview may not be ready; the marker is set apart from the open; a registration fails half way | a requested file is opened once; what is listed opens |
| Store (`store.svelte.ts`) | open file, tables, configuration, a request queue, a save queue | open, close, save | superseded requests, loads racing saves | what is shown is what the backend has open; no edit moves or is undone |
| Virtual rows and reloads (`virtualRows.svelte.ts`, `browseQuery.svelte.ts`) | row cache, pending and failed chunks, epoch, debounce timer | reload, scroll, copy, filter, sort, select, reset | late answers of superseded requests | rows on screen are rows of the view asked for |
| Panels (`DatabaseStructure.svelte`, `sqlExecution.ts`, `sqlLint.ts`, `sessionOwnedRequest.ts`) | schema, columns, the last statement and its check | select, run, check, reset | answers of an earlier file, or of the same file opened again | no panel shows another session |
| Updates (`updateState.svelte.ts`, `updates.rs`) | phase, the update ready, the setting | check, install, load and save the setting | a timer, a check by hand and saves that race | one operation at a time; an opt-out is kept |
| Conversions and exports (`db/util.rs`, `db/export.rs`, `pq/sql.rs`, `launch.rs`) | workbooks on disk | rendering, URIs, paths, headers, error positions | corner cases; two exports at once | text keeps what it stands for; only old workbooks are deleted |
| Editor and grid helpers, most of the views, packaging | none | pure functions, markup and I/O | | not modelled |

Interaction: the store queues opens and closes and sends one at a time; the
grid sends `query_table`, `count_rows` and `cancel_queries` at any moment; the
SQL tab uses the other connection; everything meets in `DbState`.  The launch code and the
window's marker sit around the store's queue, and the panels and the grid reset on what
the queue publishes.

The specifications share no variable; there are six:

* `Backend`: the SQLite side.  It sees the page as requests and cancels at any moment.
* `ParquetSession`: one open file of the other engine, seen in the same way.
* `BrowseGrid`: the grid.  It sees the backend as requests that are answered in any
  order, with rows, with an error, or with either of the two errors a cancel causes.
* `Page`: open requests, panels and updates, composed.  The backend is the file and session
  it has open; a request of a panel is answered by whichever that is when the request runs.
* `ConfigStore`: the files of the configuration under several processes.
* `Algorithms`: the pure parts on all small inputs, and three small machines that meet
  nothing else (registry, raw handles, exports).

## The modules

| Module | Models | Its place |
|---|---|---|
| `DbState` | `db/types.rs`: the shared state, its types, the two connection mutexes, the interrupts | extended by the three below |
| `Lifecycle` | `open_database`, `close_database`, `open_parquet`, `cancel_queries`, one action per lock taken | |
| `BrowseQuery` | `query_table` and `count_rows`: rowid index, materialised view, regex and filter paths, count cache, cancel checks | |
| `SqlConnection` | `execute_sql`, `validate_sql`, `get_columns`/`get_schema` on the second connection | |
| `Backend` | their composition, the fairness, the properties, the refinement mapping | specification |
| `FileViewer` | what the backend promises: each answer from the one snapshot that was open, no cache, lock or interrupt | abstract specification, refined by `Backend` |
| `BackendProofs` | invariants and refinement of `Backend` | proofs |
| `Listings` | sequences that list a set in an order, or keep part of another | operators |
| `ListingProofs` | what a listing contains, how long it is, what filtering and joining do to it; induction over numbers and sequences, and that recursive functions exist | lemmas of the proofs below |
| `ParquetSession` | `pq/`: pages by four paths, counts, the sort cache with its build on the side connection, cancel, failure, the SQL tab, progress, close, the spill directory and its sweep | specification |
| `ParquetProofs` | invariants of `ParquetSession` | proofs |
| `VirtualRows` | `virtualRows.svelte.ts`: chunk cache, LRU order, shared loads, deferred fetches, copies, epochs | extended by `BrowseGrid` |
| `BrowseGrid` | `browseQuery.svelte.ts` with the resets of `BrowseData.svelte`: filters, debounce, sort, table selection, reloads | specification |
| `BrowseGridProofs` | invariants of `BrowseGrid` | proofs |
| `OpenRequests` | `launch.rs`, the mount sequence of `+page.svelte`, `store.svelte.ts`, the commands they send, the marker of `platform/windows.rs` | extended by `Panels` |
| `Panels` | the structure panel, running and checking SQL, the resets on a new session | |
| `UpdateState` | `updateState.svelte.ts` | |
| `Page` | `Panels` and `UpdateState` beside each other, and the fairness | specification |
| `PageProofs` | invariants of requests, settings, launches, panels and the updater in `Page` | proofs |
| `ConfigStore` | `config.rs` | specification |
| `ConfigProofs` | invariants and steps of `ConfigStore` | proofs |
| `Filters` | `db/filters.rs`, `pq/filters.rs`, the columns and the row alias of a table | operators |
| `Texts` | reals, URIs, URLs, launch arguments, workbook cells and headers, `ATTACH`, error positions | operators |
| `Installation` | `platform/open_with.rs`, `platform/windows.rs`, `updates.rs` | extended by `Algorithms` |
| `EngineHandles` | `pq/raw.rs`, `pq/lockdown.rs`: creation and release of raw handles | extended by `Algorithms` |
| `Exports` | `db/export.rs`: the directory of workbooks | extended by `Algorithms` |
| `Algorithms` | chooses an input, or steps one of the three machines; what the operators are for | specification |
| `TextProofs` | what the operators of `Texts` do to every text, and what sequences that are kept, mapped and flattened hold | lemmas of `AlgorithmProofs` |
| `AlgorithmProofs` | what the filters, conversions and updates of `Algorithms` are for, and invariants of its three machines | proofs |
| `MCBackend`, `MCParquet`, `MCConfig`, `MCRequests`, `MCAlgorithms` | values of the constants | for TLC |

### How the backend's state corresponds to the code

* A file is opened with `?immutable=1`, so a connection reads one frozen
  snapshot; the n-th open of a run is the number `n`, and `conn`, `aux`, `path`,
  `handle`, `auxHandle`, `parquet` hold such a number or `None` (0).  Reopening
  the same path is a new number: the file may have changed.
* `indexes`, `orders`, `counts` are the three caches keyed by table name only.
  An entry carries the snapshot it was read from and how many of the `NRows`
  rows the scan had seen, so that a stale or truncated entry is visible; row
  values are not modelled.
* `connLock` and `auxLock` are the two connection mutexes, held over several
  actions.  The other mutexes are held within one statement group of the code
  and are one action each; where code takes several one after the other (`close_database`)
  each is an action, so that other threads come in between.
* `stop` and `auxStop` are the connections whose running statement was
  interrupted: an interrupt that finds no statement running is lost, as in
  SQLite.
* `pc[t]` is the place of a command in its function; the names are those of the
  next step.  `job[r]` is what a request has found so far (its generation, its
  total, the cache entry it goes by), `via` the entry its page is located with.

### How the grid's state corresponds to the code

* JavaScript runs one turn at a time, so an action is a turn: a render pass, a
  timer, or an answer with every continuation it wakes.  `scheduleFetch`'s
  `setTimeout(0)` is a turn of its own (`Flush`).
* A chunk is abstracted to the epoch of the request that fetched it, and the
  row count to the epoch that gave it; `snapshots[e]` is the table, filter and sort
  pinned for epoch `e`.  Equal rows of different epochs are thus told apart.
* `loads` are the requests of `loadShared`; one is `listed` while it is in
  `pendingChunks`, and `watch` are the epochs of the `fetchChunk` calls that wait
  for it.  `reload[e]` is the await a reload is at.
* `filter` is one value for all filter fields, pinned filters included;
  `Incomplete` ones are half-typed (`>`), which `buildFilters` queries as if
  empty.
* An armed `timer` is the `filterSnapshot` it captured and the table that was
  selected when it was armed.  The code does not keep the table: it is a
  history, read by `TimerOfTable` and by no action.
* `copy` is a running `getVisibleRows`; one runs at a time.
* The column list is left out, so `Retry` may be drawn whenever
  a table is selected and no reload goes on.

### How the state of a Parquet session corresponds to the code

* Rows are `0 .. NRows - 1` in file order, with one sort column (`Value`); a filter is the
  set of rows it keeps.  A reply carries the rows of its page, so an order or a total that is wrong is seen.
* `active` is the slot of the view: none, a list of row numbers, or the sorted
  table, which is `table` inside the cache database that may be `attached`.  `disk` is what
  the session has in the spill directory, `crashes` how often the process died.
* `browse` is the holder of the browse connection's mutex; the side connection has
  its own.  `gen[r]` is the generation a request captured, `generation` the session's.
* A file is described by what decides its path (`FileType`): format, whether a column is
  called `rowid`, small or not, whether a sample and a full scan read it.
* A statement ends with its result, an error of DuckDB's own (bounded by
  `MaxFaults`), or an INTERRUPT if it was running when its connection was interrupted.

### How the page's state corresponds to the code

* `queue` is `databaseRequestQueue`, whose head runs; `phase` is the await it is at; `generation` is
  the number that supersedes older requests.  A `session` is the number of an open of the backend.
* The settings of a file are the set of the edits they hold, so a moved or undone edit is visible;
  `saves` are the queued writes, one per file at a time.
* `asked` are the requests of the panels on their way; an answer carries the session
  that gave it.  `content` is what is on screen, with that session.
* Errors of a panel and of an open share `appState.error` in the code and are kept
  apart here.  The linter asks once at a time per text; an empty statement is not modelled.
* `named`, `madeOn`, `outdated`, `unpublished`, `raised`, `overlapped` and `startupChecked` are history.
* A cast (`Casts`) bounds how often each outside actor acts: names of files, other launches, requests,
  edits, lost saves, clicks, turns of the updater.

### How the configuration's state corresponds to the code

* `files` are the targets: `app.json` and one per path and per normalized path;
  `temp[t]` is the temp file of a thread, `base[t]` what its command read.
* What is in a file is `Absent`, `Corrupt` (not written by this program), `Torn` (a write that stopped half way)
  or `Whole` with a configuration.
* Names of temp files are taken to differ between threads: in the code they hold the
  process id and a time stamp (`config.rs:165`).
* Labels are lengths, colors and preset names members of small sets, with `trim` as
  what trimming and cutting does.

### How the algorithms' inputs correspond to the code

Texts are sequences of characters and inputs are small enough that every
special character meets every other: operators of filters next to their operands, `%`, `_` and `\\` in a
search, each escape in a path, comments and empty statements before a keyword, characters of
two and four bytes in an error line.  Integers are 6 bits wide and mantissas 3, which leaves numbers on both sides
of the exact range, the smallest integer among them.  The reals have up to three digits and every exponent around
the two where the notation changes, and those with which a written exponent gets a third digit.  What SQLite, DuckDB, the system and the spreadsheet do
(LIKE, affinity, percent decoding, rounding) is written down in the modules as external.

One of these is an assumption on the build of SQLite.  `build_where_clause`
writes the test of a plain filter whose column is gone (`"x" LIKE ?`) and returns
`Ok`; that the query then fails is SQLite's doing, as the comment at `filters.rs:165-170` and the
test of `filters.rs:598` say.  It holds as long as SQLite does not read a quoted
name that is no column as a text (`SQLITE_DQS`).  `RefusesName` of `Filters`
is that assumption, and the half of `ViewsSound` and of its theorem about
unknown columns of plain filters rests on it.

## Runs

Passing runs (all with deadlock checking off: a user may stop using the
program, the counters stop at their bounds).  A property that is a conjunction names its parts, each
stated with its comment in the module.

| Run | Question | Bounds, and why they are enough |
|---|---|---|
| `paging` | Is every answer of one snapshot and of the view asked for, whole, whatever is cached? (`CachingInvisible`: `Backend` refines `FileViewer`; `CachesComplete`; `TypeOK`) | One reader, two tables (one without rowid), each kind of view, two page sizes, all four page starts, two opens: an entry can be left by one request and found by the next with any one field of its key different. |
| `racing_opens` | Can a cache entry meet a connection it was not read from, or a connection be replaced under its reader? (`CachesBelongToConnection`, `ConnectionHeld`) | Two openers with no queue between them, one reader, three opens: a close may run inside an open inside a request. Several readers are covered by the proofs. |
| `session` | Is the open file coherent after every open, close, Parquet open and failed open, and is the sweep cancellable? (`SessionUsable`, `FailedOpenKeepsSession`) | One opener, because the store's queue runs one at a time; a reader, a SQL thread and a canceller; two opens, so one replaces the other. |
| `progress` | Does every request and every open end? (`EverythingEnds`) | One thread of each kind that takes locks, which is all pairs of lock orders. |
| `grinding` | With statements that never end: does a SQL request still get to its statement, and does a cancel stop the statement of either connection? (`SqlNotBehindBrowse`, `CancelStops`) | As above with a canceller. |
| `parquet` | Is every page, total and answer of the other engine right, its sort cache whole or given up, nothing left behind? (`PagesRight`, `SortCacheSound`, `NothingLeftBehind`, `SqlShownRight`) | Three rows, two of them equal and one NULL in the sort column, two filters, two orders, pages of two, four files (with row numbers, without, of which the sample fails, which cannot be read). A cast has two readers, or one at two offsets with a crash, or a reader and the SQL tab, with one or two cancels and at most one error of DuckDB's own. |
| `settings` | Do crashes, failed writes and windows that overwrite each other leave every file usable? (`WritesClean`, `SettingsClean`, `ConfigSurvives`, `OwnSettingOnly`) | Three threads of two windows, four commands, one fault: a command can be overtaken and the command that overtakes it can be, too. Four paths, two of them one database; two recent files of three or more; a label longer than its limit. |
| `requests` | Does the page end with what was asked for last, whoever asks when? (`LastRequestShown`, `SettingsKept`, `LaunchesServed`, `PanelsShowFile`, `UpdatesOrderly`, `PageSettles`) | Seven casts over two files: three requests with an edit and another launch; two edits with a lost save; three files named while a page mounts on macOS; a reopened file with clicks in a panel; three clicks; three turns of the updater. Each race of the hazard list needs three turns at most. |
| `algorithms` | Do the pure parts do what they are for, and do the registry, the raw handles and the exports keep order? (`ViewsSound`, `PathsNameFile`, `TextsRight`, `InstallationSound`, `HandlesSound`, `WorkbooksKept`) | All inputs up to the lengths in `MCAlgorithms`; two extensions and two copies of the program; two threads on a session of two instances; two exports, a clock of three moments, a retention of one. |
| `grid_rows` | Do answers of older epochs stay invisible, does the LRU order match the cache, is a copy complete and does it end? (`CacheIsCurrent`, `TotalIsCurrent`, `RecencyTracksCache`, `CopyComplete`, `SupersededSilent`, `CopyEnds`) | Three chunks of which two fit, two fetches at a time; copies of one chunk, which is also the one on screen, and of three (too wide to publish); three epochs: a superseded, a superseding and a first one. |
| `grid_filters` | Are the table and sort on screen the ones queried, does the timer die with its table, do the spinners go off? (`SelectionShown`, `TimerOfTable`, `TypeOK`, `SpinnersEnd`) | Two tables, an empty, a whole and a half-typed filter, two sorts; one chunk. |

One run checks a sentence of the documentation that the code does not keep; the
finding in `PROJECT.json` quotes it:

| Run | What happens |
|---|---|
| `filter_memo` | A filter typed and taken back within the debounce is stored as "last queried" although it was not; typing it again is ignored, the grid stays unfiltered. |

### What else the models show

Behaviours that contradict a comment or that a reviewer would argue about.  Where a definition
is named, it is in the module and TLC finds it violated under the cfg given; the
others were seen while a property was stated, which excepts them.

In the backend:

* `HandlesReachStatements` (`Backend`, `racing_opens.cfg`): between the publication of the
  new interrupt handles and the swap (`schema.rs:182`), a query that gets the old connection cannot be
  interrupted by anybody.
* A request that waits for `conn` while a cancel comes reads the generation
  afterwards (`query.rs:791`) and is served in full, although README.md:56 of the
  repository says that stale work is not queued.
* A sort whose row count is interrupted drops the error (`unwrap_or(0)`,
  `query.rs:680`) and starts the full sort; it stops at the first row.
* `StoppedStaysStopped` (`ParquetSession`, `parquet.cfg`): a request from before a cancel may start the
  build of the sort cache after it, which the comment at `pq/query.rs:170` rules out.
* Without row numbers (`file_row_number` or `rowid` is a column) a Parquet page has no tiebreak
  (`pq/query.rs:250`): two pages of one view may overlap in equal rows.  `PagesRight` asks of such a file only
  that each page is of some order the sort allows.
* A session whose open fails leaves its spill directory to the sweep of a later open.
* A BLOB is `<>` to a text in SQLite and matches no text in the other engine, an integer of more than
  64 bits is exported through a double, and the offset of an error is that of the first
  occurrence when the excerpt of the message repeats in a long line.

In the configuration:

* `UpgradeKeepsViews` (`ConfigStore`, `settings.cfg`): `load_config` finds no file under the new key, another thread
  moves the old one, and the load returns defaults (`config.rs:335-356`) although both existed.
* Two windows that change `app.json` at once lose one of the two changes, which `config.rs:158-162`
  accepts.  `OwnSettingOnly` therefore speaks of commands nobody overtook.
* A preset name is trimmed and then cut (`config.rs:115`), so a cut name may end in a space and is trimmed again
  when it is read.
* One window may register the extensions while another unregisters them: the result is neither;
  the model runs one at a time.

On the page:

* An open that is superseded after it changed the backend shows nothing; if the request that superseded
  it then fails, page and backend differ until the next request, with the error on screen.
* A reopened file is shown with settings read before a queued save of it has landed.
* Of several files named before the page has mounted, the last is kept.  The answer of the initial
  question may be heard after a newer file that was sent as a message.  A second launch before the marker is set
  opens a second window.
* A statement run while files are switched may run on the new file, and its rows are shown until the switch is
  published.
* When `getColumns` fails, the columns of the table selected before stay under the new selection
  (`DatabaseStructure.svelte:74-80`); `StructureOfSelected` excepts failed requests.
* Overlapping saves of the update setting that fail may leave the box at neither value
  (`updateState.svelte.ts:142`); `PreferenceShown` excepts overlaps.
* `dedupe_headers` tells names apart by case, which spreadsheets do not.
* Two exports in one millisecond share a name (`export.rs:188`), and the later one replaces the earlier.

In the grid:

* `CancelLatchesNoChunk` (`BrowseGrid`, `grid_rows.cfg`): a cancel pressed in the SQL tab reaches Browse Data's request: the
  first chunk of a reload, or the statement of a chunk, fails "for real", and the rows stay blank with an error bar.
* `CopyIsOneView` (`BrowseGrid`, `grid_rows.cfg`): a copy started while a reload waits for its cancel succeeds with rows
  of two views.
* `loadShared`'s `finally` deletes the publish mark of a chunk without asking
  whose it is (`virtualRows.svelte.ts:232`): a superseded load that settles late
  takes the mark of the load that replaced it, whose rows are then dropped.  The
  next render pass asks again.
* From the new epoch to the clearing of the cache (`virtualRows.svelte.ts:436-443`)
  a render pass fetches for the new view into the cache of the old one.  That is why
  `CacheIsCurrent` excepts this window, and `CopyComplete` copies started in it.
* A copy whose view is gone goes on requesting its remaining chunks, of the new
  view, and fails only at the end (`virtualRows.svelte.ts:394`).

## Fairness

* Backend: a command that has started is scheduled (weak fairness of its steps;
  every command runs on a thread of the pool), and a thread waiting for a mutex
  that is released again and again gets it (strong fairness of the steps that
  lock; parking_lot's mutex hands over to the longest waiter now and then).  No
  command has to start.  `GrindingSpec` takes away the fairness of statements:
  they end only when interrupted.
* Grid: every request is answered in the end (`RequestsAnswered` of the backend,
  which an IPC call settles with).  Nothing is assumed of the user, the timers
  or the render passes.
* Page: commands return (`RunRequest`, `Answers`) and the updater's server answers (`Updater`), by weak fairness.
  The user, the system, other launches, the timer and the saves may never do anything.  No page property rests on the
  order in which answers come.

## What is proved

Every safety invariant and action property a passing run checks is also proved by TLAPS for every
value of the constants; liveness alone is left to TLC (see the end of this section).  Nothing is
assumed but the named assumptions on constants, which TLC evaluates on the runs, and the one hypothesis the table marks:

| Assumption | Where | What it says, and why the code justifies it |
|---|---|---|
| `ThreadsAssumption`, `DataAssumption` | `DbState` | The threads of a kind are not those of another, nor the mark of a free lock; plain, sorted, filtered and regex views are different; there is a row, and the limits and bounds are naturals. |
| `OneOpener` | `BackendProofs`, a hypothesis of two theorems and no assumption of the model | There is one thread that opens and closes: the store's queue sends the next request when the one before has returned. |
| `ParquetAssumption`, `NobodyAssumption` | `ParquetSession` | Rows, sizes, limits and values are naturals (or null); a filter keeps a set of rows, and no filter keeps all; readers and SQL threads differ, and none of them is called `Nobody`. |
| `GridAssumption`, `TimerAssumption` | `VirtualRows`, `BrowseGrid` | The cap of the cache, the fetches at a time and the bound on epochs are positive; windows and ranges are sets of chunks, and a range is not empty; the mark of no table is no table, that of no memo no filter, that of no timer no timer. Nothing says that a window or a range fits in the cap. |
| `CastAssumption`, `PanelsAssumption` | `OpenRequests`, `Panels` | No file and no table is called `None`; the table of a file with one table is one of the tables; bounds are naturals. |
| `ConfigAssumption`, `ContentAssumption` | `ConfigStore` | Normalizing a path twice is normalizing it once (`config.rs:272`: lower case and forward slashes, or nothing); the marks are no tint and no path, and the caps are naturals; what an earlier version left on disk has distinct recent files within the cap and parses. |
| `InstallationAssumption`, `InstallsAssumption`, `UsersAssumption`, `ExportsAssumption` | `Installation`, `Algorithms`, `EngineHandles`, `Exports` | The marks of an absent value, of the slot and of nobody are no program, thread or export; texts are finite sequences; `APPIMAGE` is absent, empty or a file. |
| `PathsAssumption`, `RealsAssumption`, `NumbersAssumption`, `HeadersAssumption`, `StatementsAssumption`, `ErrorsAssumption` | `Algorithms` | Texts are finite sequences, of any length and of any characters; a path has no NUL and is not empty, a launch has an argument; a REAL has the digits of its shortest form, none of them a leading or trailing zero, and the exponent of a double; a character has at least one byte. |
| `ViewsAssumption`, `SearchesAssumption`, `TablesAssumption` | `Algorithms` | Columns and filters are finite sequences; the columns of a table have different names, as SQLite requires; the value of a filter is a sequence of pieces, and a regular expression is one piece; texts are made of the characters that have a code, those of numbers among them; a cell is NULL, a BLOB, a text, or the INTEGER or REAL 1 or 2, which stand for all numbers. |

An argument of its own was needed for sorted lists.  `SetToSortSeq` and `SelectSeq` rest on operators the prover has
no definition of, so `Listings` says the same by counting predecessors: an element stands at the place that
as many elements precede it as the place says.  `ListingProofs` shows, for a total order of any finite set,
that every place is taken exactly once (`InOrderLists`), and that keeping part of a list or joining two lists
gives a list of what one expects (`KeptLists`, `ListsJoined`).

Nor can the provers use an induction theorem that takes a predicate.  `ListingProofs` states induction with a set in its
place (a set of numbers that contains a number whenever it contains all smaller ones is all of them, `Induction`),
derives induction over sequences from either end from it, and shows that a recursive definition which looks only at smaller
arguments has a solution (`Recursion`).  With that the recursive functions of `Texts` are reasoned about in `TextProofs`.

The backend:

* `TypeCorrect`: `TypeOK`, from `TypeInv`, which adds what a request
  may look like at each place of `query_table` (a field of a record has a type only
  if the request is one).
* `ConnectionAlwaysHeld`: mutual exclusion and that a reader's connection is the
  published one until it lets go, from `LockInv`, which adds that an opener in the
  critical section owns both locks.
* `CachesAlwaysBelong`, `CachesAlwaysComplete`: from `CacheInv`.  Nobody writes a
  cache but the holder of the connection, whose entries are of that connection
  (`LockInv`); nobody replaces the connection without clearing the caches in the same step.
* `SessionAlwaysUsable`, `FailedOpenAlwaysKeepsSession`: for one opener, from `SessionInv`, which says for each place
  of an open or a close which of connections, handles, path and engine are the old ones, and which
  are the new ones.  With two openers both are false, which is why `racing_opens` does not check them.
* `BackendImplementsViewer`: `Spec => CachingInvisible`.  `AnswerInv` says how each
  request in progress was located: by an entry of its own snapshot, view and page
  size.  Initial states map to initial states; `Ask`, the acquisition of the connection,
  its release with rows or without, and `Forget` map to the viewer's actions; the swap
  and a close map to `Change`, which needs that no reader is being served
  (`LockInv`); everything else is a stutter.

The Parquet session, from `ParquetInv`:

* `PagesAlwaysRight`: `RequestInv` ties what a request has done so far to the view it asked for, `MutexInv` says who is in the
  browse connection, and `ViewInv` what `active` and the sorted table are while nobody changes them: the list of a view
  lists its matches in its order (by the lemmas on listings), and the sorted table is marked whole only when it is.
* `SortCacheAlwaysSound`: `FailureInv` counts why the cache was given up, `ProgressOfABuild` is inductive with `MutexInv`.
* `NothingEverLeftBehind`: `LifeInv` says what may be on disk at each stage of a session and of each build.
* `SqlAlwaysShownRight`: both connections read by `loaded`, and a statement counts the rows it shows up to its limit.

The grid:

* `CacheAlwaysCurrent`, `TotalAlwaysCurrent`, `SelectionAlwaysShown`,
  `TimerAlwaysOfTable`, `SupersededAlwaysSilent`: one inductive invariant,
  `GridInv`.  `TotalIsCurrent` is not inductive alone: the step that stops the
  spinner must know that the count is already its epoch's (`TotalSettled`).
  The LRU order does not enter: whatever is evicted, what stays has the epoch it had.
* `GridAlwaysTyped`, `RecencyAlwaysTracksCache`, `CopyAlwaysComplete`: a second one, `RowsInv`.  The recency order is a
  listing of the cached chunks, so eviction finds its victim among them, which keeps the cache within its cap.  A pending
  request that is still listed is of the current epoch, so a copy whose epoch is still the current one has, for each chunk of
  its range, its rows or a request that will bring them (`CopyOnTrack`).

The configuration:

* `WritesAlwaysClean`, `ConfigAlwaysSurvives`, `OwnSettingAlwaysOnly`: from `ConfigInv`.  Only the rename puts
  something into a target, and what it puts there is whole (`TempsKept`).  The file of the old key goes only
  while the new key holds a configuration (`MigrationHolds`); that this stays true while others write rests on
  normalizing being idempotent, which `ConfigAssumption` states: the file under a new key is the old key of no
  other path, so no other thread removes it.  `ChangeOfBase` says that what a command is about to write is what
  it read with its own change.
* `SettingsAlwaysClean`: from `ContentInv`.  Whatever is in `app.json` or on its way there has distinct recent files within the
  cap: pushing takes every spelling of a file out before it puts one in front (`PushedSane`).  Sanitizing keeps the first preset
  of each name, and the names it keeps differ because the listing of first places has no place twice (`PresetsClean`).

The page, from `PageInv`, which has two parts:

* `LastRequestAlwaysShown`, `SettingsAlwaysKept`, `LaunchesAlwaysServed`: from `StoreInv`.  The queue holds the latest requests
  without a gap, so a request is superseded exactly when one waits behind it (`QueueInv`); what the backend has and what the page
  shows differ only between the command and the publication of the same request, or after a superseded one, until the
  last one is served (`ShownInv`).  Every edit is on disk, or in a queued save of its file, or was undone by a save that failed
  (`SettingsInv`).  `LaunchInv` says where a named file is at each stage of the mount: emitted, kept for the question, answered or opened.
* `PanelsAlwaysShowFile`: from `PanelInv`.  A request that may still publish carries the generation of the file on screen and
  the latest token of its kind, so what it brings is of this session and of the selected table (`PanelsCurrent`, `AskedForSelected`).
* `UpdatesAlwaysOrderly`: from `UpdateInv`, for any releases and any number of turns of the user.  The phase on
  screen tells which operation runs, which is why `busy` alone keeps a second one out (`PhaseTells`), and unless
  saves overlapped the box differs from what is stored by the one save on its way (`OneSaveAtMost`).

The machines of `Algorithms`:

* `HandlesAlwaysSound`: from `HandlesInv`, for any number of threads.  The own handles of a session are those made so far, all of
  them, or exactly those that a sequence is about to release, each once and a database after its connections (`OwnInv`); a
  handle of a call is live exactly while the one thread that has locked the side connection is at a step that has it (`CallInv`).
* `InstallationAlwaysSound`: from `RegistryInv`.  The writes that went through are the first of the four, so the entry that lists
  dblitz is there only with all the others.  The other half, that only a copy an update replaces is offered one, is
  about every installation by itself.
* `WorkbooksAlwaysKept`: from `ExportsInv`.  An export that has saved keeps its directory and time, so whoever finds another's file
  under its own name has that directory and that time too.

The conversions of `Algorithms`, for inputs of any length:

* `PathsAlwaysNameFile`: the escapes of a path are substitutions one after the other, which amount to one for each character
  because none puts in what a later one takes out (`EscapedCat`, `EscapedOne`); decoding gives each back (`DecodeEscaped`).  A path
  with two leading slashes is taken for an authority unless two more stand in front (`UriCases`).
* `TextsAlwaysRight`: `RealReads`, every branch of the rendering pads the same digits with zeros (`DecimalLaid`), so the digits
  and the place of the point say which number it is; `NumberExact`, up to the limit a number is a multiple of one;
  `NamesDiffer`, some suffix up to the number of names and two is free (`SomeSuffixFree`), so the search for one ends;
  `AttachIsSeen`, wherever the scan skips to, the tokenizer is in its first state, and a comment without an end is the
  rest of the statement for both; `ErrorMarked`, every character has a byte, so a byte offset tells one place (`BytesTellPlace`), and
  an excerpt that does not occur further left is found where it was taken.

The views of `Algorithms`, for any columns and filters and texts of any length:

* `ViewsAlwaysSound`: each test of the clause is put beside the parameter that is meant for it (`Pairs`), the global filter's
  in front and each filter's after it, alternatives first.  Taken apart, these pairs are the clause and the list of
  parameters the code builds (`FilterPairsTyped`, `SqliteClauseIs`, `DuckClauseIs`), and as many parameters come before a test as
  tests with a placeholder do (`ParamTaken`): so every test finds its own.  No two filters share a group (`AsksFlat`), so
  the clause asks for one alternative and all other criteria of each (`FilterAsks`).  What remains is that each test holds
  for the cells its criterion means (`AskedHolds`): the first operator of the list that a piece begins with is its
  longest (`CriterionReads`), an escaped text is matched literally (`LikeLiteral`, by induction over the pattern), and `=` finds
  the stored cells that are the operand whatever the affinity of the column (`EqualMeansOperand`).  The regular expressions find
  their cells in the scanned row, where each column stands once (`ScanFinds`).

Only model-checked:

* Liveness (`EverythingEnds`, `SqlNotBehindBrowse`, `CancelStops`, `CopyEnds`, `SpinnersEnd`, `PageSettles`): the provers do not
  handle ENABLED, which fairness is made of.

## What is not modelled, and the plan

* Of the engines: how a file is loaded into DuckDB (its options, the sniffing of a CSV), `describe_file`, typed
  comparisons of DuckDB where columns hold no text, `REGEXP` beyond anchored and plain patterns, the settings that lock
  DuckDB down.
* Of the page: the column list, its projection and the auto-fit of widths; pinned filters apart from others; several copies
  at a time; the window title; the history of statements, completion and what is marked in the text; theme and
  history in the browser's storage; the notice after an update.
* Of the platform: recent documents of the system, the application id, what a workbook looks like inside.
* Left out for good: formatting, statistics, geometry and drag helpers, markup and packaging: pure functions,
  I/O or markup without shared state.

What would come next:

| Next | What it is about |
|---|---|
| 1 | `ParquetSession` as an implementation of `FileViewer`, as the SQLite side is one: its invariants are there (`ParquetInv`), the viewer would need filters that keep part of the rows. |
| 2 | `BrowseGrid` over `Backend` in one composition, with the two kinds of cancel errors derived instead of chosen. |
| 3 | Column projection and auto-fit, which read the cache beside copies. |
