----------------------------- MODULE BrowseGrid -----------------------------
(***************************************************************************)
(* Browse Data's query state machine (browseQuery.svelte.ts) on top of the *)
(* row cache: typing in a filter field, sorting, selecting a table, the    *)
(* switch to another database, and the reload each of them starts.         *)
(***************************************************************************)
EXTENDS VirtualRows

CONSTANTS
  NoTimer,  \* no debounce timer is armed
  NoMemo    \* the empty lastFilterState, which no filter state equals

(* An armed timer: the filter state it will store, and, which the code     *)
(* leaves to cancelDebounce, the table whose fields held it.               *)
Timer == [filter : Filters, table : Tables]

ASSUME TimerAssumption == NoTimer \notin Timer /\ NoMemo \notin Filters

VARIABLES
  loading,       \* a reload is going on
  countPending,  \* the row count is not known yet
  timer,         \* the armed debounce timer
  memo,          \* lastFilterState
  counting       \* epochs whose countRows is not answered yet

vars == <<rowVars, loading, countPending, timer, memo, counting>>

TypeOK ==
  /\ RowsTypeOK
  /\ loading \in BOOLEAN /\ countPending \in BOOLEAN
  /\ timer \in Timer \cup {NoTimer} /\ memo \in Filters \cup {NoMemo}
  /\ counting \subseteq 1 .. MaxEpoch

Init ==
  /\ RowsInit
  /\ loading = FALSE /\ countPending = FALSE
  /\ timer = NoTimer /\ memo = NoMemo
  /\ counting = {}

-----------------------------------------------------------------------------
(* reloadData: begin a new epoch for the view `v` and wait for the cancel. *)

ReloadData(v) ==
  \/ /\ v.table # NoTable
     /\ NewEpoch(v, "cancelling")
     /\ loading' = TRUE
  \/ /\ v.table = NoTable
     /\ UNCHANGED <<epochVars, loading>>

reloadRest == <<total, chunkVars, loads, publishOn, flush, visible, copy, countPending,
                counting>>

(* handleSort turns the order or takes another column, and always reloads, *)
(* a half-typed filter notwithstanding.                                    *)
SortUnlessIncomplete(s) ==   \* mutant: no reload with a half-typed filter
  /\ view.table # NoTable /\ s # view.sort /\ epoch < MaxEpoch
  /\ view' = [view EXCEPT !.sort = s]
  /\ \/ view.filter \notin Incomplete /\ ReloadData(view')
     \/ view.filter \in Incomplete /\ UNCHANGED <<epochVars, loading>>
  /\ UNCHANGED <<reloadRest, timer, memo>>

HandleSort(s) ==
  /\ view.table # NoTable /\ s # view.sort
  /\ view' = [view EXCEPT !.sort = s]
  /\ ReloadData(view')
  /\ UNCHANGED <<reloadRest, timer, memo>>

(* A filter field changes, or a pinned filter is put back or cleared;      *)
(* debouncedReload follows.                                                *)
DebouncedReload(f) ==
  IF f \in Incomplete \/ f = memo THEN UNCHANGED timer
  ELSE timer' = [filter |-> f, table |-> view.table]

HandleFilterInput(f) ==
  /\ view.table # NoTable
  /\ view' = [view EXCEPT !.filter = f]
  /\ DebouncedReload(f)
  /\ UNCHANGED <<reloadRest, epochVars, loading, memo>>

(* The timer stores the filter state it was armed with and reloads with    *)
(* the one the fields hold now.                                            *)
DebounceFires ==
  /\ timer # NoTimer
  /\ timer' = NoTimer
  /\ memo' = timer.filter
  /\ ReloadData(view)
  /\ UNCHANGED <<reloadRest, view>>

(* selectTable: the pinned filters and the saved sort of the table.        *)
SelectLeavesTimer(t, f, s) ==   \* mutant: the debounce timer survives a table switch
  /\ view' = [table |-> t, filter |-> f, sort |-> s]
  /\ memo' = f
  /\ ReloadData(view')
  /\ UNCHANGED <<reloadRest, timer>>

SelectTable(t, f, s) ==
  /\ timer' = NoTimer
  /\ view' = [table |-> t, filter |-> f, sort |-> s]
  /\ memo' = f
  /\ ReloadData(view')
  /\ UNCHANGED reloadRest

(* The Retry button, drawn when no reload goes on and there are no columns.*)
(* Columns are left out: it may be drawn whatever the last reload brought. *)
Retry ==
  /\ view.table # NoTable /\ ~loading
  /\ ReloadData(view)
  /\ UNCHANGED <<reloadRest, view, timer, memo>>

(* Another file is open, or none: resetForNewDatabase of the component, of *)
(* browseQuery, and virtualRows.reset.                                     *)
ResetLeavesTimer ==   \* mutant: the debounce timer survives the switch
  \E s \in Sorts :
    /\ view' = [table |-> NoTable, filter |-> NoFilter, sort |-> s]
    /\ NewEpoch(view', "none")
    /\ ClearEpochState
    /\ total' = None /\ visible' = Chunks
    /\ loading' = FALSE /\ countPending' = FALSE
    /\ memo' = NoMemo
    /\ UNCHANGED <<timer, flush, copy, counting>>

ResetLeavesSpinners ==   \* mutant: what a superseded reload left behind stays
  \E s \in Sorts :
    /\ view' = [table |-> NoTable, filter |-> NoFilter, sort |-> s]
    /\ NewEpoch(view', "none")
    /\ ClearEpochState
    /\ total' = None /\ visible' = Chunks
    /\ timer' = NoTimer /\ memo' = NoMemo
    /\ UNCHANGED <<flush, copy, counting, loading, countPending>>

ResetForNewDatabase ==
  \E s \in Sorts :   \* the default sort
    /\ view' = [table |-> NoTable, filter |-> NoFilter, sort |-> s]
    /\ NewEpoch(view', "none")
    /\ ClearEpochState
    /\ total' = None /\ visible' = Chunks
    /\ loading' = FALSE /\ countPending' = FALSE
    /\ timer' = NoTimer /\ memo' = NoMemo
    /\ UNCHANGED <<flush, copy, counting>>

-----------------------------------------------------------------------------
(* The rest of reloadData, one action per await.                           *)

ReloadGoes(e, from, to) ==
  reload[e] = from /\ reload' = [reload EXCEPT ![e] = to]
reloadStepRest == <<view, epoch, snapshots, flush, visible, copy, timer, memo>>

(* beginReload: the cancel is answered; a superseded reload ends here.     *)
CancelAnswered(e) ==
  /\ \/ /\ e = epoch
        /\ ReloadGoes(e, "cancelling", "loading")
        /\ ClearEpochState
     \/ /\ e # epoch
        /\ ReloadGoes(e, "cancelling", "none")
        /\ UNCHANGED <<chunkVars, loads, publishOn>>
  /\ UNCHANGED <<reloadStepRest, total, loading, countPending, counting>>

(* The first chunk arrives: with the exact row count, or without, and then *)
(* countRows is asked for it.                                              *)
FirstChunk(e) ==
  /\ \/ /\ e = epoch
        /\ ReloadGoes(e, "loading", "settling")
        /\ Store(0, e)
        /\ total' = e
        /\ \/ countPending' = FALSE /\ UNCHANGED counting
           \/ countPending' = TRUE /\ counting' = counting \cup {e}
     \/ /\ e # epoch
        /\ ReloadGoes(e, "loading", "none")
        /\ UNCHANGED <<cache, recency, total, countPending, counting>>
  /\ UNCHANGED <<reloadStepRest, failed, scheduled, loads, publishOn, loading>>

FirstChunkFails(e, why) ==
  /\ ReloadGoes(e, "loading", "none")
  /\ \/ /\ e = epoch
        /\ failed' = [failed EXCEPT ![0] = why]
        /\ total' = None /\ countPending' = FALSE /\ loading' = FALSE
     \/ /\ e # epoch
        /\ UNCHANGED <<failed, total, countPending, loading>>
  /\ UNCHANGED <<reloadStepRest, cache, recency, scheduled, loads, publishOn, counting>>

(* After the tick that lets the DOM settle.                                *)
Settle(e) ==
  /\ ReloadGoes(e, "settling", "none")
  /\ loading' = IF e = epoch THEN FALSE ELSE loading
  /\ UNCHANGED <<reloadStepRest, total, chunkVars, loads, publishOn, countPending, counting>>

(* countRows is answered, with the count or an error.                      *)
CountAnsweredLate(e) ==   \* mutant: a superseded count is shown
  /\ e \in counting
  /\ counting' = counting \ {e}
  /\ countPending' = FALSE /\ total' \in {total, e}
  /\ UNCHANGED <<reloadStepRest, reload, chunkVars, loads, publishOn, loading>>

CountAnswered(e) ==
  /\ e \in counting
  /\ counting' = counting \ {e}
  /\ \/ e = epoch /\ countPending' = FALSE /\ total' \in {total, e}
     \/ e # epoch /\ UNCHANGED <<countPending, total>>
  /\ UNCHANGED <<reloadStepRest, reload, chunkVars, loads, publishOn, loading>>

queryRest == <<loading, countPending, timer, memo, counting>>

-----------------------------------------------------------------------------
User ==
  \/ \E s \in Sorts : HandleSort(s)
  \/ \E f \in Filters : HandleFilterInput(f)
  \/ \E t \in Tables, f \in Filters, s \in Sorts : SelectTable(t, f, s)
  \/ Retry \/ ResetForNewDatabase
  \/ \E range \in Ranges : StartCopy(range) /\ UNCHANGED queryRest

Draw == \E window \in Windows : Render(window) /\ UNCHANGED queryRest

ReloadStep(e) ==
  \/ CancelAnswered(e) \/ FirstChunk(e) \/ Settle(e) \/ CountAnswered(e)
  \/ \E why \in Failures : FirstChunkFails(e, why)

LoadStep(key) ==
  /\ \E l \in loads : /\ Key(l) = key
                      /\ LoadLands(l) \/ \E why \in Failures : LoadFails(l, why)
  /\ UNCHANGED queryRest
Keys == [chunk : Chunks, epoch : 1 .. MaxEpoch, early : BOOLEAN]

Timers == DebounceFires \/ (Flush /\ UNCHANGED queryRest)

Next ==
  \/ User \/ Draw \/ Timers
  \/ \E key \in Keys : LoadStep(key)
  \/ \E e \in 1 .. MaxEpoch : ReloadStep(e)

Spec == Init /\ [][Next]_vars

(* Every request is answered in the end.  No other progress is assumed, of *)
(* the user, the timers or the render passes.                              *)
FairSpec ==
  /\ Spec
  /\ \A key \in Keys : WF_vars(LoadStep(key))
  /\ \A e \in 1 .. MaxEpoch : WF_vars(ReloadStep(e))

-----------------------------------------------------------------------------
(* Safety.                                                                 *)

(* virtualRows.svelte.ts, "without ever letting a late-arriving async      *)
(* result repopulate a cache it no longer belongs to": but for the moment  *)
(* a reload waits for its cancel, every cached chunk is one of the epoch,  *)
(* so the table, filter and sort it was fetched with are the pinned ones.  *)
CacheIsCurrent == ~InWindow => \A c \in Chunks : cache[c] \in {None, epoch}

(* Nor is the row count an older view's once a reload is over, and while   *)
(* nothing is loading and no count is pending it is the view's.            *)
TotalIsCurrent == ~loading => total \in {None, epoch}

(* browseQuery.svelte.ts, "Always reload after a sort click", "so it can't *)
(* fire against the incoming one": what the epoch asks for is always of    *)
(* the table that is selected and the sort the header shows.               *)
SelectionShown ==
  view.table # NoTable => /\ snapshots[epoch].table = view.table
                          /\ snapshots[epoch].sort = view.sort

(* browseQuery.svelte.ts, "Cancel any pending debounced reload from the    *)
(* outgoing table": an armed timer was armed by the filter fields of the   *)
(* table that is selected, so it outlives neither a table switch nor the   *)
(* file, and what it stores was never typed for another table.             *)
TimerOfTable == timer # NoTimer => timer.table = view.table

(* The recency order lists exactly the cached chunks, each once, so that   *)
(* eviction always finds its victim, and the cache stays under its cap.    *)
RecencyTracksCache ==
  /\ {recency[i] : i \in DOMAIN recency} = Cached(cache)
  /\ Len(recency) = Cardinality(Cached(cache))
  /\ Len(recency) <= MaxCachedChunks

(* The comment on getVisibleRows, "an in-range chunk that was ALREADY      *)
(* cached ... the evictions have had their chance to drop it": a range     *)
(* whose loads all succeeded under one epoch is never incomplete, whatever *)
(* its loads evicted.                                                      *)
CopyComplete ==
  copy.stage = "incomplete" /\ Cardinality(copy.range) > 1 => copy.early

(* A step that begins no epoch changes the count and the cached rows only  *)
(* to those of the epoch, and stops the spinner only by a step of its      *)
(* reload.                                                                 *)
Silent ==
  epoch' = epoch =>
    /\ total' \in {total, None, epoch}
    /\ \A c \in Chunks : cache'[c] \in {cache[c], None, epoch}
    /\ loading /\ ~loading' => reload[epoch] # reload'[epoch]

(* browseQuery.svelte.ts, "publish nothing -- not rows, not a row count,   *)
(* ... not `loading = false` -- once a newer reload has started": what the *)
(* answers to an older epoch change is never on screen.                    *)
SupersededSilent == [][Silent]_vars

-----------------------------------------------------------------------------
(* Liveness.                                                               *)

(* The spinner goes off: reloads that supersede one another, fail or are   *)
(* dropped by a database switch leave no `loading` behind.                 *)
LoadingEnds == loading ~> ~loading

(* `counting...` is replaced by a count, an error or another view.         *)
CountingEnds == countPending ~> ~countPending

(* Neither indicator of the status bar stays for ever.                     *)
SpinnersEnd == LoadingEnds /\ CountingEnds

(* A copy comes to its end, with rows or an error.                         *)
CopyEnds == copy.stage = "loading" ~> copy.stage # "loading"

-----------------------------------------------------------------------------
(* What comments say and the code does not keep.                           *)

(* virtualRows.svelte.ts:19-21, "dedupes the ~500ms filter debounce so an  *)
(* unchanged filter never re-queries": with no timer armed and no filter   *)
(* half-typed, the view shown is the one the filter fields ask for.        *)
FilterShown ==
  view.table # NoTable /\ timer = NoTimer /\ view.filter \notin Incomplete
    => snapshots[epoch].filter = view.filter

(* virtualRows.svelte.ts:249-251, "Reporting it would put a red error bar  *)
(* up for pressing Cancel -- and latching it would make a cancel           *)
(* permanently blank the rows it interrupted".                             *)
CancelLatchesNoChunk == \A c \in Chunks : failed[c] \in {"no", "failed"}

(* virtualRows.svelte.ts:499-500, "so a long operation that captured it    *)
(* can tell the view changed underneath it": a copy that succeeds has rows *)
(* of one view.                                                            *)
CopyIsOneView ==
  copy.stage = "copied" => \A c, d \in copy.range : copy.got[c] = copy.got[d]
=============================================================================
