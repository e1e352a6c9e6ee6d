---------------------------- MODULE VirtualRows ----------------------------
(***************************************************************************)
(* The row cache of the Browse Data grid (virtualRows.svelte.ts): chunks   *)
(* of rows fetched on demand while the grid is drawn, thrown away when the *)
(* table, the filter or the sort changes, and copied in ranges.            *)
(*                                                                         *)
(* JavaScript runs one turn at a time, so an action is one turn: a render  *)
(* pass, a timer, or the arrival of one answer with every continuation it  *)
(* wakes.  Between two turns anything may arrive, in any order.            *)
(*                                                                         *)
(* A chunk of rows is abstracted to the epoch of the request that fetched  *)
(* it; `snapshots` says which table, filter and sort that epoch asks for.  *)
(* Epochs count from 1, so None marks a chunk that is not there.           *)
(***************************************************************************)
EXTENDS Naturals, FiniteSets, Sequences, Listings

CONSTANTS
  Tables, NoTable,  \* the tables of the file; no table is selected
  Filters,          \* what the filter fields may hold
  NoFilter,         \* all of them empty
  Incomplete,       \* filters with a half-typed operator, queried as NoFilter
  Sorts,            \* the sort orders
  LastChunk,        \* the chunks are 0 .. LastChunk
  MaxCachedChunks,  \* MAX_CACHED_CHUNKS
  MaxConcurrency,   \* MAX_RANGE_CONCURRENCY
  Windows,          \* the sets of chunks the viewport may show
  Ranges,           \* the sets of chunks a copy may ask for
  MaxEpoch          \* bound: reloads and resets in a run

Chunks == 0 .. LastChunk

ASSUME GridAssumption ==
  /\ NoTable \notin Tables
  /\ NoFilter \in Filters /\ Incomplete \subseteq Filters \ {NoFilter}
  /\ Sorts # {}
  /\ LastChunk \in Nat
  /\ MaxCachedChunks \in Nat \ {0} /\ MaxConcurrency \in Nat \ {0}
  /\ Windows \subseteq SUBSET Chunks
  /\ Ranges \subseteq (SUBSET Chunks) \ {{}}
  /\ MaxEpoch \in Nat \ {0}

None == 0

VARIABLES
  view,       \* the component's table, filter fields and sort
  total,      \* totalRows: the epoch whose row count is shown, None for zero
  epoch,      \* the row-cache generation
  snapshots,  \* epoch -> what its requests ask for (currentSnapshot)
  reload,     \* epoch -> where the reload or reset that began it is
  cache,      \* rowCache: chunk -> epoch of the request that fetched it
  recency,    \* chunkRecency: cached chunks, least recently used first
  loads,      \* requests of loadShared that are not answered yet
  publishOn,  \* publishOnArrival
  failed,     \* failedChunks, each with how its request failed
  scheduled,  \* scheduledChunks
  flush,      \* the epoch the armed flush was scheduled in, None if not armed
  visible,    \* visibleChunks: what the grid last drew
  copy        \* the running (or last) getVisibleRows

epochVars == <<epoch, snapshots, reload>>
chunkVars == <<cache, recency, failed, scheduled>>
rowVars == <<view, total, epochVars, chunkVars, loads, publishOn, flush, visible, copy>>

View == [table : Tables \cup {NoTable}, filter : Filters, sort : Sorts]
Query == [table : Tables \cup {NoTable}, filter : Filters \ Incomplete, sort : Sorts]

(* What a request asks for: buildFilters drops a half-typed operator.      *)
SnapshotAsTyped(v) == v   \* mutant: the half-typed operator is queried
Snapshot(v) == [v EXCEPT !.filter = IF @ \in Incomplete THEN NoFilter ELSE @]

(* How a request may fail: SQLite or DuckDB reports an error; the backend  *)
(* saw its generation move; its statement was interrupted.  The SQL tab    *)
(* cancels at any moment and cancel_queries is for both tabs, so each may  *)
(* happen to any request.                                                  *)
Failures == {"failed", "cancelled", "interrupted"}

(* `early`: sent while its epoch's cancel was not answered; `listed`: in   *)
(* pendingChunks; `watch`: epochs of the fetchChunk calls that wait for    *)
(* it.                                                                     *)
LoadKey == [chunk : Chunks, epoch : Nat, early : BOOLEAN]
Load == [chunk : Chunks, epoch : Nat, early : BOOLEAN, listed : BOOLEAN,
         watch : SUBSET Nat]
Key(l) == [chunk |-> l.chunk, epoch |-> l.epoch, early |-> l.early]

CopyStages == {"idle", "loading", "copied", "changed", "incomplete", "failed"}
Copy == [stage : CopyStages, range : SUBSET Chunks, epoch : Nat, early : BOOLEAN,
         got : [Chunks -> Nat], todo : SUBSET Chunks, waiting : SUBSET LoadKey]
NoCopy == [stage |-> "idle", range |-> {}, epoch |-> None, early |-> FALSE,
           got |-> [c \in Chunks |-> None], todo |-> {}, waiting |-> {}]

ReloadStages == {"none", "cancelling", "loading", "settling"}

RowsTypeOK ==
  /\ view \in View /\ total \in Nat /\ epoch \in 1 .. MaxEpoch
  /\ snapshots \in [1 .. MaxEpoch -> Query]
  /\ reload \in [1 .. MaxEpoch -> ReloadStages]
  /\ cache \in [Chunks -> Nat]
  /\ recency \in Seq(Chunks)
  /\ loads \subseteq Load
  /\ publishOn \subseteq Chunks /\ scheduled \subseteq Chunks /\ visible \subseteq Chunks
  /\ failed \in [Chunks -> {"no"} \cup Failures]
  /\ flush \in Nat
  /\ copy \in Copy

RowsInit ==
  /\ view \in {[table |-> NoTable, filter |-> NoFilter, sort |-> s] : s \in Sorts}
  /\ total = None /\ epoch = 1
  /\ snapshots = [e \in 1 .. MaxEpoch |-> view]
  /\ reload = [e \in 1 .. MaxEpoch |-> "none"]
  /\ cache = [c \in Chunks |-> None]
  /\ recency = <<>>
  /\ loads = {} /\ publishOn = {} /\ scheduled = {}
  /\ failed = [c \in Chunks |-> "no"]
  /\ flush = None /\ visible = Chunks
  /\ copy = NoCopy

-----------------------------------------------------------------------------
(* The cache.                                                              *)

Cached(rows) == {c \in Chunks : rows[c] # None}

(* Chunks that are read or stored move to the recent end.                  *)
Touched(order, chunks) ==
  Kept(order, Chunks \ chunks) \o Ascending(chunks)

(* evictIfOverCap: the least recently used chunk that is cached goes.      *)
Victim(rows, order) ==
  order[CHOOSE i \in DOMAIN order : /\ rows[order[i]] # None
                                    /\ \A j \in 1 .. i - 1 : rows[order[j]] = None]

Store(c, e) ==
  LET rows == [cache EXCEPT ![c] = e]
      order == Touched(recency, {c})
      victim == Victim(rows, order)
  IN IF Cardinality(Cached(rows)) > MaxCachedChunks
     THEN /\ cache' = [rows EXCEPT ![victim] = None]
          /\ recency' = Kept(order, Chunks \ {victim})
     ELSE cache' = rows /\ recency' = order

(* clearEpochState: everything that is scoped to one epoch's contents.     *)
ClearKeepingRecency ==   \* mutant: the recency order outlives its cache
  /\ cache' = [c \in Chunks |-> None]
  /\ recency' = recency
  /\ failed' = [c \in Chunks |-> "no"]
  /\ scheduled' = {} /\ publishOn' = {}
  /\ loads' = {[l EXCEPT !.listed = FALSE] : l \in loads}

ClearKeepingRows ==   \* mutant: only the bookkeeping is cleared
  /\ failed' = [c \in Chunks |-> "no"]
  /\ scheduled' = {} /\ publishOn' = {}
  /\ loads' = {[l EXCEPT !.listed = FALSE] : l \in loads}
  /\ UNCHANGED <<cache, recency>>

ClearEpochState ==
  /\ cache' = [c \in Chunks |-> None]
  /\ recency' = <<>>
  /\ failed' = [c \in Chunks |-> "no"]
  /\ scheduled' = {} /\ publishOn' = {}
  /\ loads' = {[l EXCEPT !.listed = FALSE] : l \in loads}

-----------------------------------------------------------------------------
(* beginReload and reset: a new epoch asks the backend to cancel what it   *)
(* is doing.  A reload clears the cache when that is answered, and the     *)
(* grid is drawn from the old rows meanwhile; a reset waits for nothing.   *)

NewEpoch(v, stage) ==
  /\ epoch < MaxEpoch
  /\ epoch' = epoch + 1
  /\ snapshots' = [snapshots EXCEPT ![epoch + 1] = Snapshot(v)]
  /\ reload' = [reload EXCEPT ![epoch + 1] = stage]

InWindow == reload[epoch] = "cancelling"

-----------------------------------------------------------------------------
(* loadShared: the load of a chunk that is in flight, or a new one that    *)
(* asks for what the current epoch asks for.                               *)

Asked(ls, chunks, watch) ==
  LET joined == {l \in ls : l.listed /\ l.chunk \in chunks}
      fresh == chunks \ {l.chunk : l \in joined}
  IN (ls \ joined)
       \cup {[l EXCEPT !.watch = @ \cup watch] : l \in joined}
       \cup {[chunk |-> c, epoch |-> epoch, early |-> InWindow, listed |-> TRUE,
              watch |-> watch] : c \in fresh}
KeysFor(ls, chunks) == {Key(l) : l \in {k \in ls : k.listed /\ k.chunk \in chunks}}

(* scheduleFetch, for every chunk of a render pass that is not cached.     *)
Render(window) ==
  LET here == window \cap Cached(cache)
      wanted == {c \in window \ here :
                   /\ failed[c] = "no"
                   /\ ~\E l \in loads : l.listed /\ l.chunk = c}
  IN /\ total # None
     /\ visible' = window
     /\ recency' = Touched(recency, here)
     /\ scheduled' = scheduled \cup wanted
     /\ flush' = IF flush = None /\ wanted \ scheduled # {} THEN epoch ELSE flush
     /\ UNCHANGED <<view, total, epochVars, cache, failed, loads, publishOn, copy>>

(* The deferred half of scheduleFetch: what has been scrolled past, has    *)
(* failed, or belongs to a flush of an older epoch is not requested.       *)
Flush ==
  LET chunks == IF flush = epoch
                THEN {c \in scheduled \cap visible : failed[c] = "no"} ELSE {}
  IN /\ flush # None
     /\ flush' = None
     /\ scheduled' = {}
     /\ loads' = Asked(loads, chunks, {epoch})
     /\ publishOn' = publishOn \cup chunks
     /\ UNCHANGED <<view, total, epochVars, cache, recency, failed, visible, copy>>

-----------------------------------------------------------------------------
(* getVisibleRows: a range is put together in a map of its own, from what  *)
(* is cached at the call and from loads that at most MaxConcurrency        *)
(* workers share.  A range wider than the cache does not publish what it   *)
(* loads.  A single chunk is loaded like a visible one and read back.      *)

Single == Cardinality(copy.range) = 1
Publishes(range) == Cardinality(range) <= MaxCachedChunks
LeastOf(n, chunks) ==
  {c \in chunks : Cardinality({d \in chunks : d < c}) < n}

VerdictReadsBack(e, range, got) ==   \* mutant: the range is read back from the cache
  IF e # epoch THEN "changed"
  ELSE IF \E c \in range : cache[c] = None /\ ~\E k \in copy.waiting : k.chunk = c
       THEN "incomplete" ELSE "copied"

Verdict(e, range, got) ==
  IF e # epoch THEN "changed"
  ELSE IF \E c \in range : got[c] = None THEN "incomplete"
  ELSE "copied"

StartCopy(range) ==
  LET here == range \cap Cached(cache)
      missing == range \ here
      first == LeastOf(MaxConcurrency, missing)
      single == Cardinality(range) = 1
      asked == Asked(loads, first, IF single THEN {epoch} ELSE {})
      got == [c \in Chunks |-> IF c \in here THEN cache[c] ELSE None]
  IN /\ view.table # NoTable
     /\ copy.waiting = {}
     /\ recency' = Touched(recency, here)
     /\ loads' = asked
     /\ publishOn' = IF single \/ Publishes(range) THEN publishOn \cup first ELSE publishOn
     /\ copy' = [stage |-> IF missing = {} THEN Verdict(epoch, range, got) ELSE "loading",
                 range |-> range, epoch |-> epoch, early |-> InWindow, got |-> got,
                 todo |-> missing \ first, waiting |-> KeysFor(asked, first)]
     /\ UNCHANGED <<view, total, epochVars, cache, failed, scheduled, flush, visible>>

(* What waits for a load goes on in the same turn: a worker of the copy    *)
(* takes the next missing chunk, or it was the last one and the range is   *)
(* put together.  A worker whose load failed stops, the copy has failed,   *)
(* and the other workers go on.                                            *)
NobodyWaits(l) ==
  /\ Key(l) \notin copy.waiting
  /\ loads' = loads \ {l}
  /\ publishOn' = publishOn \ {l.chunk}
  /\ UNCHANGED copy

WorkerGoesOn(l, got) ==
  LET next == LeastOf(1, copy.todo)
      asked == Asked(loads \ {l}, next, {})
  IN /\ Key(l) \in copy.waiting /\ copy.todo # {}
     /\ loads' = asked
     /\ publishOn' = (publishOn \ {l.chunk}) \cup (IF Publishes(copy.range) THEN next ELSE {})
     /\ copy' = [copy EXCEPT !.got = got, !.todo = @ \ next,
                             !.waiting = (@ \ {Key(l)}) \cup KeysFor(asked, next)]

WorkerWaitsForRows(l, got, worst) ==   \* mutant: only a whole range ends a copy
  LET waiting == copy.waiting \ {Key(l)}
      whole == \A c \in copy.range : got[c] # None
  IN /\ Key(l) \in copy.waiting
     /\ loads' = loads \ {l}
     /\ publishOn' = publishOn \ {l.chunk}
     /\ copy' = [copy EXCEPT !.got = got, !.waiting = waiting,
                             !.stage = IF waiting = {} /\ whole THEN worst ELSE @]

WorkerStops(l, got, worst) ==
  LET waiting == copy.waiting \ {Key(l)}
      ends == copy.stage = "loading" /\ (waiting = {} \/ worst = "failed")
  IN /\ Key(l) \in copy.waiting
     /\ loads' = loads \ {l}
     /\ publishOn' = publishOn \ {l.chunk}
     /\ copy' = [copy EXCEPT !.got = got, !.waiting = waiting,
                             !.stage = IF ends THEN worst ELSE @]

(* The rows of a load arrive.  They are dropped if the epoch has moved on; *)
(* otherwise they are cached if the chunk is marked for it.                *)
Unchecked(l) == TRUE   \* mutant: a superseded load is kept
IsCurrent(l) == l.epoch = epoch

(* A copy of one chunk reads it back from the cache whichever way its      *)
(* request ended, and touches it when it is there.                         *)
ReadBack(l) ==
  IF Single /\ Key(l) \in copy.waiting THEN {l.chunk} \cap Cached(cache) ELSE {}

LoadLands(l) ==
  LET stored == IsCurrent(l) /\ l.chunk \in publishOn
      got == [copy.got EXCEPT ![l.chunk] =
                IF ~Single THEN (IF IsCurrent(l) THEN l.epoch ELSE @)
                ELSE IF stored THEN l.epoch ELSE cache[l.chunk]]
  IN /\ l \in loads
     /\ \/ stored /\ Store(l.chunk, l.epoch) /\ total' \in {total, l.epoch}
        \/ ~stored /\ recency' = Touched(recency, ReadBack(l)) /\ UNCHANGED <<cache, total>>
     /\ \/ NobodyWaits(l)
        \/ WorkerGoesOn(l, got)
        \/ copy.todo = {} /\ WorkerStops(l, got, Verdict(copy.epoch, copy.range, got))
     /\ UNCHANGED <<view, epochVars, failed, scheduled, flush, visible>>

(* A load fails.  fetchChunk latches the chunk unless the epoch has moved  *)
(* on or the message says that a newer request cancelled it.               *)
Latches(l, why) == epoch \in l.watch /\ why # "cancelled"

LoadFails(l, why) ==
  LET got == [copy.got EXCEPT ![l.chunk] = IF Single THEN cache[l.chunk] ELSE @]
      worst == IF Single THEN Verdict(copy.epoch, copy.range, got) ELSE "failed"
  IN /\ l \in loads
     /\ failed' = IF Latches(l, why) THEN [failed EXCEPT ![l.chunk] = why] ELSE failed
     /\ NobodyWaits(l) \/ WorkerStops(l, got, worst)
     /\ recency' = Touched(recency, ReadBack(l))
     /\ UNCHANGED <<view, total, epochVars, cache, scheduled, flush, visible>>
=============================================================================
