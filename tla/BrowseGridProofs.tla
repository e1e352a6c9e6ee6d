-------------------------- MODULE BrowseGridProofs --------------------------
(***************************************************************************)
(* What holds of BrowseGrid for any tables, filters, sort orders, chunks,  *)
(* cache sizes and windows, and any number of reloads and resets.          *)
(*                                                                         *)
(* The first invariant, about epochs, never looks into the recency order:  *)
(* whatever Store drops, a chunk that stays has the epoch it had or the    *)
(* one stored.  The second one is about that order, the loads and copies.  *)
(***************************************************************************)
EXTENDS BrowseGrid, ListingProofs

(* What the proofs need of the types.                                      *)
EpochsTyped ==
  /\ epoch \in 1 .. MaxEpoch
  /\ reload \in [1 .. MaxEpoch -> ReloadStages]
  /\ snapshots \in [1 .. MaxEpoch -> Query]
  /\ view \in View
  /\ cache \in [Chunks -> Nat]

(* Whoever is about to stop the spinner has the count of its own epoch.    *)
TotalSettled == reload[epoch] = "settling" => total \in {None, epoch}

GridInv ==
  /\ EpochsTyped
  /\ CacheIsCurrent /\ TotalIsCurrent /\ TotalSettled
  /\ SelectionShown /\ TimerOfTable

(* A query drops a half-typed filter and keeps the table and the sort.     *)
LEMMA SnapshotKeeps ==
  ASSUME NEW v \in View
  PROVE  /\ Snapshot(v) \in Query
         /\ Snapshot(v).table = v.table /\ Snapshot(v).sort = v.sort
<1> DEFINE f == IF v.filter \in Incomplete THEN NoFilter ELSE v.filter
<1>1. v \in [table : Tables \cup {NoTable}, filter : Filters, sort : Sorts]
  BY DEF View
<1>2. f \in Filters \ Incomplete
  BY <1>1, GridAssumption
<1>3. Snapshot(v) = [v EXCEPT !.filter = f]
  BY DEF Snapshot
<1> HIDE DEF f
<1>4. [v EXCEPT !.filter = f] = [table |-> v.table, filter |-> f, sort |-> v.sort]
  BY <1>1
<1> QED BY <1>1, <1>2, <1>3, <1>4 DEF Query

(* What is cached after a chunk is stored was cached before, or is it.     *)
LEMMA StoreKeeps ==
  ASSUME NEW c \in Chunks, NEW e \in Nat, cache \in [Chunks -> Nat], Store(c, e)
  PROVE  /\ cache' \in [Chunks -> Nat]
         /\ \A d \in Chunks : cache'[d] \in {None, cache[d], e}
<1> DEFINE rows == [cache EXCEPT ![c] = e]
           victim == Victim(rows, Touched(recency, {c}))
<1>1. rows \in [Chunks -> Nat] /\ \A d \in Chunks : rows[d] \in {cache[d], e}
  OBVIOUS
<1>2. cache' \in {rows, [rows EXCEPT ![victim] = None]}
  BY DEF Store
<1> HIDE DEF rows, victim
<1>3. /\ [rows EXCEPT ![victim] = None] \in [Chunks -> Nat]
      /\ \A d \in Chunks : [rows EXCEPT ![victim] = None][d] \in {rows[d], None}
  BY <1>1 DEF None
<1> QED BY <1>1, <1>2, <1>3

(* The invariant holds when the program starts.                            *)
LEMMA GridInit == Init => GridInv
  BY GridAssumption
  DEF Init, RowsInit, GridInv, EpochsTyped, CacheIsCurrent, TotalIsCurrent, TotalSettled,
      SelectionShown, TimerOfTable, View, Query, ReloadStages, InWindow, None

(* A step that touches nothing the invariant speaks of.                    *)
LEMMA ElsewhereKeeps ==
  ASSUME GridInv, UNCHANGED <<view, total, epochVars, cache, loading, timer>>
  PROVE  GridInv' /\ Silent
  BY DEF GridInv, EpochsTyped, CacheIsCurrent, TotalIsCurrent, TotalSettled, SelectionShown,
         TimerOfTable, InWindow, Silent, epochVars

-----------------------------------------------------------------------------
(* What the user and the timers do.                                        *)

(* A new epoch of a view: everything about epochs keeps its type.          *)
LEMMA EpochBegins ==
  ASSUME EpochsTyped, NEW v \in View, NEW stage \in ReloadStages, NewEpoch(v, stage)
  PROVE  /\ epoch' \in 1 .. MaxEpoch /\ epoch' # epoch
         /\ reload' \in [1 .. MaxEpoch -> ReloadStages] /\ reload'[epoch'] = stage
         /\ snapshots' \in [1 .. MaxEpoch -> Query]
         /\ snapshots'[epoch'].table = v.table /\ snapshots'[epoch'].sort = v.sort
<1>1. Snapshot(v) \in Query /\ Snapshot(v).table = v.table /\ Snapshot(v).sort = v.sort
  BY SnapshotKeeps
<1>2. epoch \in Nat /\ epoch + 1 \in 1 .. MaxEpoch
  BY GridAssumption DEF NewEpoch, EpochsTyped
<1> QED BY <1>1, <1>2 DEF NewEpoch, EpochsTyped

(* reloadData of the view that is selected from now on: the cache may be   *)
(* an older epoch's until the cancel is answered, and the spinner is on.   *)
LEMMA ReloadKeeps ==
  ASSUME GridInv, NEW v \in View, view' = v, ReloadData(v),
         UNCHANGED <<cache, total>>, TimerOfTable'
  PROVE  GridInv' /\ Silent
<1> USE DEF GridInv, EpochsTyped, CacheIsCurrent, TotalIsCurrent, TotalSettled,
        SelectionShown, InWindow, Silent
<1>1. CASE v.table # NoTable /\ NewEpoch(v, "cancelling") /\ loading' = TRUE
  BY <1>1, EpochBegins DEF ReloadStages
<1>2. CASE v.table = NoTable /\ UNCHANGED <<epochVars, loading>>
  BY <1>2 DEF epochVars
<1> QED BY <1>1, <1>2 DEF ReloadData

(* A reset clears the cache in the step that begins its epoch.             *)
LEMMA ResetKeeps ==
  ASSUME GridInv, ResetForNewDatabase
  PROVE  GridInv' /\ Silent
<1>1. PICK s \in Sorts :
        /\ view' = [table |-> NoTable, filter |-> NoFilter, sort |-> s]
        /\ NewEpoch(view', "none")
        /\ ClearEpochState
        /\ total' = None
        /\ timer' = NoTimer
  BY DEF ResetForNewDatabase
<1>2. view' \in View /\ "none" \in ReloadStages
  BY <1>1, GridAssumption DEF View, ReloadStages
<1>3. EpochsTyped' /\ epoch' # epoch
  BY <1>1, <1>2, EpochBegins DEF GridInv, EpochsTyped, ClearEpochState, None
<1>4. CacheIsCurrent' /\ TotalIsCurrent' /\ TotalSettled'
  BY <1>1 DEF ClearEpochState, CacheIsCurrent, TotalIsCurrent, TotalSettled, None
<1>5. SelectionShown' /\ TimerOfTable'
  BY <1>1 DEF SelectionShown, TimerOfTable
<1> QED BY <1>3, <1>4, <1>5 DEF GridInv, Silent

(* A user's action keeps the invariant.                                    *)
LEMMA UserKeeps ==
  ASSUME GridInv, User
  PROVE  GridInv' /\ Silent
<1> USE DEF GridInv, EpochsTyped
<1>1. ASSUME NEW s \in Sorts, HandleSort(s) PROVE GridInv' /\ Silent
  <2>1. view' \in View
    BY <1>1 DEF HandleSort, View
  <2>2. ReloadData(view') /\ UNCHANGED <<cache, total, timer>>
    BY <1>1 DEF HandleSort, reloadRest, chunkVars
  <2>3. view'.table = view.table /\ view.table # NoTable
    BY <1>1 DEF HandleSort, View
  <2>4. TimerOfTable'
    BY <2>2, <2>3 DEF TimerOfTable
  <2>5. epoch' # epoch
    BY <2>1, <2>2, <2>3, EpochBegins DEF ReloadData, ReloadStages
  <2> QED BY <2>1, <2>2, <2>4, <2>5, ReloadKeeps
<1>2. ASSUME NEW f \in Filters, HandleFilterInput(f) PROVE GridInv' /\ Silent
  <2>1. /\ view' \in View /\ view'.table = view.table /\ view'.sort = view.sort
        /\ view.table # NoTable
    BY <1>2 DEF HandleFilterInput, View
  <2>2. UNCHANGED <<cache, total, epochVars, loading>>
    BY <1>2 DEF HandleFilterInput, reloadRest, chunkVars
  <2>3. TimerOfTable'
    <3>1. timer' = timer \/ timer' = [filter |-> f, table |-> view.table]
      BY <1>2 DEF HandleFilterInput, DebouncedReload
    <3> QED BY <2>1, <3>1 DEF TimerOfTable
  <2> QED BY <2>1, <2>2, <2>3 DEF CacheIsCurrent, TotalIsCurrent, TotalSettled, SelectionShown,
             InWindow, Silent, epochVars
<1>3. ASSUME NEW t \in Tables, NEW f \in Filters, NEW s \in Sorts, SelectTable(t, f, s)
      PROVE  GridInv' /\ Silent
  <2>1. view' \in View /\ view'.table # NoTable
    BY <1>3, GridAssumption DEF SelectTable, View
  <2>2. ReloadData(view') /\ UNCHANGED <<cache, total>> /\ timer' = NoTimer
    BY <1>3 DEF SelectTable, reloadRest, chunkVars
  <2>3. epoch' # epoch
    BY <2>1, <2>2, EpochBegins DEF ReloadData, ReloadStages
  <2>4. TimerOfTable'
    BY <2>2 DEF TimerOfTable
  <2> QED BY <2>1, <2>2, <2>3, <2>4, ReloadKeeps
<1>4. CASE Retry
  <2>1. view' = view /\ ReloadData(view') /\ UNCHANGED <<cache, total, timer>>
    BY <1>4 DEF Retry, reloadRest, chunkVars
  <2>2. TimerOfTable'
    BY <2>1 DEF TimerOfTable
  <2> QED BY <2>1, <2>2, ReloadKeeps
<1>5. CASE ResetForNewDatabase
  BY <1>5, ResetKeeps
<1>6. ASSUME NEW range \in Ranges, StartCopy(range), UNCHANGED queryRest
      PROVE  GridInv' /\ Silent
  BY <1>6, ElsewhereKeeps DEF StartCopy, queryRest
<1> QED BY <1>1, <1>2, <1>3, <1>4, <1>5, <1>6 DEF User

(* A timer that fires keeps it.                                            *)
LEMMA TimersKeep ==
  ASSUME GridInv, Timers
  PROVE  GridInv' /\ Silent
<1>1. CASE DebounceFires
  <2>1. view' = view /\ ReloadData(view') /\ UNCHANGED <<cache, total>> /\ timer' = NoTimer
    BY <1>1 DEF DebounceFires, reloadRest, chunkVars
  <2>2. TimerOfTable' /\ view' \in View
    BY <2>1 DEF TimerOfTable, GridInv, EpochsTyped
  <2> QED BY <2>1, <2>2, ReloadKeeps
<1>2. CASE Flush /\ UNCHANGED queryRest
  BY <1>2, ElsewhereKeeps DEF Flush, queryRest
<1> QED BY <1>1, <1>2 DEF Timers

-----------------------------------------------------------------------------
(* What the answers do.                                                    *)

(* The rows of a load that are stored are those of the epoch.              *)
LEMMA LoadsKeep ==
  ASSUME GridInv, NEW key \in Keys, LoadStep(key)
  PROVE  GridInv' /\ Silent
<1>1. PICK l \in loads : Key(l) = key /\ (LoadLands(l) \/ \E why \in Failures : LoadFails(l, why))
  BY DEF LoadStep
<1>2. UNCHANGED <<loading, timer>>
  BY DEF LoadStep, queryRest
<1>3. CASE \E why \in Failures : LoadFails(l, why)
  BY <1>2, <1>3, ElsewhereKeeps DEF LoadFails
<1>4. CASE LoadLands(l)
  <2>1. UNCHANGED <<view, epochVars>>
    BY <1>4 DEF LoadLands
  <2>2. CASE UNCHANGED <<cache, total>>
    BY <1>2, <2>1, <2>2, ElsewhereKeeps
  <2>3. CASE l.epoch = epoch /\ Store(l.chunk, l.epoch) /\ total' \in {total, l.epoch}
    <3>1. l.chunk \in Chunks /\ epoch \in Nat /\ cache \in [Chunks -> Nat]
      BY <1>1 DEF Key, Keys, GridInv, EpochsTyped
    <3>2. /\ cache' \in [Chunks -> Nat]
          /\ \A d \in Chunks : cache'[d] \in {None, cache[d], epoch}
      BY <2>3, <3>1, StoreKeeps
    <3> QED BY <1>2, <2>1, <2>3, <3>2
        DEF GridInv, EpochsTyped, CacheIsCurrent, TotalIsCurrent, TotalSettled,
            SelectionShown, TimerOfTable, InWindow, Silent, epochVars
  <2> QED BY <1>4, <2>2, <2>3 DEF LoadLands, IsCurrent
<1> QED BY <1>1, <1>3, <1>4

(* A step of a reload keeps the invariant: one of the current epoch brings *)
(* its own rows and count, one of an older epoch nothing.                  *)
LEMMA ReloadStepsKeep ==
  ASSUME GridInv, NEW e \in 1 .. MaxEpoch, ReloadStep(e)
  PROVE  GridInv' /\ Silent
<1> USE DEF GridInv, EpochsTyped, CacheIsCurrent, TotalIsCurrent, TotalSettled,
        SelectionShown, TimerOfTable, InWindow, Silent, ReloadStages, None
<1>1. UNCHANGED <<view, epoch, snapshots, timer>>
  BY DEF ReloadStep, CancelAnswered, FirstChunk, Settle, CountAnswered, FirstChunkFails,
         reloadStepRest
<1>2. CASE CancelAnswered(e)
  <2>1. reload' \in [1 .. MaxEpoch -> ReloadStages] /\ UNCHANGED <<total, loading>>
    BY <1>2 DEF CancelAnswered, ReloadGoes
  <2>2. CASE e = epoch
    <3>1. cache' = [c \in Chunks |-> None] /\ reload'[epoch] = "loading"
      BY <1>2, <2>2 DEF CancelAnswered, ReloadGoes, ClearEpochState
    <3> QED BY <1>1, <2>1, <3>1
  <2>3. CASE e # epoch
    <3>1. cache' = cache /\ reload'[epoch] = reload[epoch]
      BY <1>2, <2>3 DEF CancelAnswered, ReloadGoes, chunkVars
    <3> QED BY <1>1, <2>1, <3>1
  <2> QED BY <2>2, <2>3
<1>3. CASE FirstChunk(e)
  <2>1. CASE e = epoch
    <3>1. Store(0, e) /\ 0 \in Chunks
      BY <1>3, <2>1, GridAssumption DEF FirstChunk, Chunks
    <3>2. /\ cache' \in [Chunks -> Nat]
          /\ \A d \in Chunks : cache'[d] \in {None, cache[d], epoch}
      BY <2>1, <3>1, StoreKeeps
    <3> QED BY <1>1, <1>3, <2>1, <3>2 DEF FirstChunk, ReloadGoes
  <2>2. CASE e # epoch
    BY <1>1, <1>3, <2>2 DEF FirstChunk, ReloadGoes
  <2> QED BY <2>1, <2>2
<1>4. CASE Settle(e)
  BY <1>1, <1>4 DEF Settle, ReloadGoes, chunkVars
<1>5. CASE CountAnswered(e)
  BY <1>1, <1>5 DEF CountAnswered, chunkVars
<1>6. ASSUME NEW why \in Failures, FirstChunkFails(e, why) PROVE GridInv' /\ Silent
  BY <1>1, <1>6 DEF FirstChunkFails, ReloadGoes
<1> QED BY <1>2, <1>3, <1>4, <1>5, <1>6 DEF ReloadStep

(* Every step keeps the invariant and is silent.                           *)
LEMMA GridStep == GridInv /\ [Next]_vars => GridInv' /\ (Silent \/ UNCHANGED vars)
<1> SUFFICES ASSUME GridInv, [Next]_vars PROVE GridInv' /\ (Silent \/ UNCHANGED vars)
  OBVIOUS
<1>1. CASE User
  BY <1>1, UserKeeps
<1>2. ASSUME NEW window \in Windows, Render(window), UNCHANGED queryRest
      PROVE  GridInv' /\ Silent
  BY <1>2, ElsewhereKeeps DEF Render, queryRest
<1>3. CASE Timers
  BY <1>3, TimersKeep
<1>4. ASSUME NEW key \in Keys, LoadStep(key) PROVE GridInv' /\ Silent
  BY <1>4, LoadsKeep
<1>5. ASSUME NEW e \in 1 .. MaxEpoch, ReloadStep(e) PROVE GridInv' /\ Silent
  BY <1>5, ReloadStepsKeep
<1>6. CASE UNCHANGED vars
  <2>1. UNCHANGED <<view, total, epochVars, cache, loading, timer>>
    BY <1>6 DEF vars, rowVars, chunkVars
  <2> QED BY <2>1, ElsewhereKeeps
<1> QED BY <1>1, <1>2, <1>3, <1>4, <1>5, <1>6 DEF Next, Draw

-----------------------------------------------------------------------------
(* But for the moment a reload waits for its cancel, every cached chunk is *)
(* one of the epoch, however its answers and those to older requests       *)
(* interleave (virtualRows.svelte.ts, isCurrent and clearEpochState).      *)
THEOREM CacheAlwaysCurrent == Spec => []CacheIsCurrent
<1>1. GridInv => CacheIsCurrent
  BY DEF GridInv
<1> QED BY GridInit, GridStep, <1>1, PTL DEF Spec

(* With no spinner on screen the row count is the epoch's                  *)
(* (browseQuery.svelte.ts, reloadData and its countRows).                  *)
THEOREM TotalAlwaysCurrent == Spec => []TotalIsCurrent
<1>1. GridInv => TotalIsCurrent
  BY DEF GridInv
<1> QED BY GridInit, GridStep, <1>1, PTL DEF Spec

(* What is queried is of the table and the sort on screen, half-typed      *)
(* filters notwithstanding (handleSort, selectTable).                      *)
THEOREM SelectionAlwaysShown == Spec => []SelectionShown
<1>1. GridInv => SelectionShown
  BY DEF GridInv
<1> QED BY GridInit, GridStep, <1>1, PTL DEF Spec

(* An armed debounce timer is always one of the table that is selected:    *)
(* selectTable and resetForNewDatabase disarm it, and no answer, sort or   *)
(* retry changes the table under it (cancelDebounce).                      *)
THEOREM TimerAlwaysOfTable == Spec => []TimerOfTable
<1>1. GridInv => TimerOfTable
  BY DEF GridInv
<1> QED BY GridInit, GridStep, <1>1, PTL DEF Spec

(* "publish nothing ... once a newer reload has started": an answer to an  *)
(* older epoch changes neither rows nor count nor spinner.                 *)
THEOREM SupersededAlwaysSilent == Spec => SupersededSilent
<1>1. GridInv /\ [Next]_vars => [Silent]_vars
  BY GridStep
<1>2. GridInv /\ [Next]_vars => GridInv'
  BY GridStep
<1> QED BY GridInit, <1>1, <1>2, PTL DEF Spec, SupersededSilent

-----------------------------------------------------------------------------
(* The cache and its recency order.                                        *)

(* The recency order lists the cached chunks, so eviction finds one.       *)
RecencyInv ==
  /\ Lists(recency, Cached(cache))
  /\ Cardinality(Cached(cache)) <= MaxCachedChunks

LEMMA ChunksFinite ==
  ASSUME NEW S \in SUBSET Chunks
  PROVE  IsFiniteSet(S) /\ Cardinality(S) \in Nat /\ S \in SUBSET Nat
<1>1. IsFiniteSet(Chunks) /\ Chunks \in SUBSET Nat
  BY GridAssumption, FS_Interval DEF Chunks
<1>2. IsFiniteSet(S)
  BY <1>1, FS_Subset
<1> QED BY <1>1, <1>2, FS_CardinalityType

(* Touching chunks moves them to the end, and adds those that are new.     *)
LEMMA TouchedLists ==
  ASSUME NEW S \in SUBSET Chunks, NEW order, Lists(order, S), NEW T \in SUBSET Chunks
  PROVE  Lists(Touched(order, T), S \cup T)
<1> DEFINE left == S \cap (Chunks \ T)
<1>1. IsFiniteSet(S) /\ IsFiniteSet(left) /\ IsFiniteSet(T) /\ T \in SUBSET Nat
  BY ChunksFinite
<1>2. Lists(Kept(order, Chunks \ T), left)
  BY <1>1, KeptLists
<1>3. Lists(Ascending(T), T)
  BY <1>1, AscendingLists
<1>4. left \cap T = {} /\ left \cup T = S \cup T
  OBVIOUS
<1> HIDE DEF left
<1>5. Lists(Touched(order, T), left \cup T)
  BY <1>1, <1>2, <1>3, <1>4, ListsJoined DEF Touched
<1> QED BY <1>4, <1>5

(* Such an order is a sequence of chunks.                                  *)
LEMMA RecencyTyped ==
  ASSUME NEW rows, NEW order, Lists(order, Cached(rows))
  PROVE  order \in Seq(Chunks)
<1>1. Cached(rows) \in SUBSET Chunks
  BY DEF Cached
<1>2. order \in Seq(Cached(rows))
  BY <1>1, ChunksFinite, ListIsSeq
<1> QED BY <1>1, <1>2

(* Reading what is cached changes the order alone.                         *)
LEMMA ReadTracks ==
  ASSUME RecencyInv, NEW S, cache' = cache, recency' = Touched(recency, S \cap Cached(cache))
  PROVE  RecencyInv'
<1> DEFINE here == S \cap Cached(cache)
<1>1. Cached(cache) \in SUBSET Chunks /\ here \in SUBSET Chunks
      /\ Cached(cache) \cup here = Cached(cache)
  BY DEF Cached
<1>2. Lists(Touched(recency, here), Cached(cache))
  BY <1>1, TouchedLists DEF RecencyInv
<1> QED BY <1>2 DEF RecencyInv

(* So does a copy of one chunk that reads it back.                         *)
LEMMA ReadBackTracks ==
  ASSUME RecencyInv, NEW l, cache' = cache, recency' = Touched(recency, ReadBack(l))
  PROVE  RecencyInv'
<1> DEFINE S == IF Single /\ Key(l) \in copy.waiting THEN {l.chunk} ELSE {}
<1>1. ReadBack(l) = S \cap Cached(cache)
  BY DEF ReadBack
<1> HIDE DEF S
<1> QED BY <1>1, ReadTracks

(* A chunk that is stored goes to the end, and one that is cached leaves   *)
(* when there are too many.                                                *)
LEMMA StoreTracks ==
  ASSUME RecencyInv, cache \in [Chunks -> Nat], NEW c \in Chunks, NEW e \in Nat \ {0},
         Store(c, e)
  PROVE  RecencyInv'
<1> DEFINE rows == [cache EXCEPT ![c] = e]
           order == Touched(recency, {c})
           victim == Victim(rows, order)
           held == Cached(cache)
           now == Cached(rows)
<1>1. /\ held \in SUBSET Chunks /\ now \in SUBSET Chunks /\ {c} \in SUBSET Chunks
      /\ now = held \cup {c}
  BY DEF Cached, None
<1>2. Lists(order, now)
  <2>1. Lists(recency, held)
    BY DEF RecencyInv
  <2> HIDE DEF held, now
  <2>2. Lists(order, held \cup {c})
    BY <1>1, <2>1, TouchedLists
  <2> QED BY <1>1, <2>2
<1>3. /\ IsFiniteSet(held) /\ IsFiniteSet(now)
      /\ Cardinality(held) \in Nat /\ Cardinality(now) \in Nat
  BY <1>1, ChunksFinite
<1>4. Cardinality(now) <= MaxCachedChunks + 1
  <2>1. Cardinality(now) = IF c \in held THEN Cardinality(held) ELSE Cardinality(held) + 1
    BY <1>1, <1>3, FS_AddElement
  <2> QED BY <1>3, <2>1, GridAssumption DEF RecencyInv
<1>5. /\ Cardinality(now) > MaxCachedChunks =>
           /\ cache' = [rows EXCEPT ![victim] = None]
           /\ recency' = Kept(order, Chunks \ {victim})
      /\ ~(Cardinality(now) > MaxCachedChunks) => cache' = rows /\ recency' = order
  BY DEF Store
<1>6. rows \in [Chunks -> Nat]
  OBVIOUS
<1> HIDE DEF rows, order, held
<1>7. CASE ~(Cardinality(now) > MaxCachedChunks)
  <2>1. Cached(cache') = now
    BY <1>5, <1>7
  <2>2. Cardinality(now) <= MaxCachedChunks
    BY <1>3, <1>7, GridAssumption
  <2> QED BY <1>2, <1>5, <1>7, <2>1, <2>2 DEF RecencyInv
<1>8. CASE Cardinality(now) > MaxCachedChunks
  <2>1. Cardinality(now) # 0 /\ 1 \in 1 .. Cardinality(now)
    BY <1>3, <1>8, GridAssumption
  <2>2. /\ DOMAIN order = 1 .. Cardinality(now)
        /\ \A i \in DOMAIN order : order[i] \in now
    BY <1>2 DEF Lists
  <2>3. \A i \in DOMAIN order : rows[order[i]] # None
    BY <2>2 DEF Cached
  <2>4. \E i \in DOMAIN order : /\ rows[order[i]] # None
                                /\ \A j \in 1 .. i - 1 : rows[order[j]] = None
    BY <2>1, <2>2, <2>3
  <2>5. victim \in now
    BY <2>2, <2>4 DEF Victim
  <2> HIDE DEF victim
  <2>6. Cached(cache') = now \ {victim}
    BY <1>1, <1>5, <1>6, <1>8, <2>5 DEF Cached
  <2> HIDE DEF now
  <2>7. now \ {victim} = now \cap (Chunks \ {victim})
    BY <1>1
  <2>8. Lists(Kept(order, Chunks \ {victim}), now \ {victim})
    BY <1>2, <1>3, <2>7, KeptLists
  <2>9. Cardinality(now \ {victim}) = Cardinality(now) - 1
    BY <1>3, <2>5, FS_RemoveElement
  <2>10. Cardinality(now \ {victim}) <= MaxCachedChunks
    BY <1>3, <1>4, <2>9, GridAssumption
  <2> QED BY <1>5, <1>8, <2>6, <2>8, <2>10 DEF RecencyInv
<1> QED BY <1>7, <1>8

-----------------------------------------------------------------------------
(* The requests and the copies.                                            *)

(* But for the window of a reload, a request that is joined is one of the  *)
(* epoch.                                                                  *)
Current(ls) == ~InWindow => \A l \in ls : l.listed => l.epoch = epoch
ListedCurrent == Current(loads)

(* A copy of the epoch has every chunk, or will ask for it, or waits for a *)
(* request of the epoch.                                                   *)
OnTrack(got, todo, waiting) ==
  \A c \in copy.range \ todo :
    got[c] = None => \E k \in waiting : k.chunk = c /\ k.epoch = epoch
CopyOnTrack ==
  (copy.stage = "loading" /\ copy.epoch = epoch /\ ~copy.early /\ ~Single) =>
    ~InWindow /\ OnTrack(copy.got, copy.todo, copy.waiting)

CopyInv == copy.epoch <= epoch /\ CopyOnTrack /\ CopyComplete

RowsInv == TypeOK /\ RecencyInv /\ ListedCurrent /\ CopyInv

(* What is asked for is loaded, by one request of its chunk.               *)
LEMMA AskedLoads ==
  ASSUME NEW ls \in SUBSET Load, NEW chunks \in SUBSET Chunks, NEW watch \in SUBSET Nat,
         epoch \in Nat
  PROVE  /\ Asked(ls, chunks, watch) \in SUBSET Load
         /\ Current(ls) => Current(Asked(ls, chunks, watch))
         /\ \A c \in chunks : \E l \in Asked(ls, chunks, watch) : l.listed /\ l.chunk = c
<1> DEFINE joined == {l \in ls : l.listed /\ l.chunk \in chunks}
           fresh == chunks \ {l.chunk : l \in joined}
           more(l) == [l EXCEPT !.watch = @ \cup watch]
           new(c) == [chunk |-> c, epoch |-> epoch, early |-> InWindow, listed |-> TRUE,
                      watch |-> watch]
<1>1. InWindow \in BOOLEAN
  BY DEF InWindow
<1>2. ASSUME NEW l \in ls
      PROVE  /\ more(l) \in Load
             /\ more(l).listed = l.listed /\ more(l).chunk = l.chunk /\ more(l).epoch = l.epoch
  BY DEF Load
<1>3. ASSUME NEW c \in chunks
      PROVE  /\ new(c) \in Load
             /\ new(c).listed /\ new(c).chunk = c /\ new(c).epoch = epoch
  BY <1>1 DEF Load
<1>4. Asked(ls, chunks, watch)
        = (ls \ joined) \cup {more(l) : l \in joined} \cup {new(c) : c \in fresh}
  BY DEF Asked
<1> HIDE DEF more, new
<1>5. Asked(ls, chunks, watch) \in SUBSET Load
  BY <1>2, <1>3, <1>4
<1>6. Current(ls) => Current(Asked(ls, chunks, watch))
  BY <1>2, <1>3, <1>4 DEF Current
<1>7. ASSUME NEW c \in chunks PROVE \E l \in Asked(ls, chunks, watch) : l.listed /\ l.chunk = c
  <2>1. CASE c \in fresh
    BY <1>3, <1>4, <2>1
  <2>2. CASE c \notin fresh
    <3>1. PICK l \in joined : l.chunk = c
      BY <2>2
    <3> QED BY <1>2, <1>4, <3>1
  <2> QED BY <2>1, <2>2
<1> QED BY <1>5, <1>6, <1>7

(* The keys of the requests that are waited for.                           *)
LEMMA KeysWaited ==
  ASSUME NEW ls \in SUBSET Load, NEW chunks \in SUBSET Chunks,
         \A c \in chunks : \E l \in ls : l.listed /\ l.chunk = c
  PROVE  /\ KeysFor(ls, chunks) \in SUBSET LoadKey
         /\ ~InWindow /\ Current(ls) =>
              \A c \in chunks : \E k \in KeysFor(ls, chunks) : k.chunk = c /\ k.epoch = epoch
<1>1. ASSUME NEW l \in ls
      PROVE  Key(l) \in LoadKey /\ Key(l).chunk = l.chunk /\ Key(l).epoch = l.epoch
  BY DEF Key, Load, LoadKey
<1>2. KeysFor(ls, chunks) \in SUBSET LoadKey
  BY <1>1 DEF KeysFor
<1>3. ASSUME ~InWindow, Current(ls), NEW c \in chunks
      PROVE  \E k \in KeysFor(ls, chunks) : k.chunk = c /\ k.epoch = epoch
  <2>1. PICK l \in ls : l.listed /\ l.chunk = c
    OBVIOUS
  <2>2. Key(l) \in KeysFor(ls, chunks) /\ l.epoch = epoch
    BY <1>3, <2>1 DEF KeysFor, Current
  <2> QED BY <1>1, <2>1, <2>2
<1> QED BY <1>2, <1>3

(* A copy that goes on is one of the same range.                           *)
NewCopy(stage, got, todo, waiting) ==
  [copy EXCEPT !.stage = stage, !.got = got, !.todo = todo, !.waiting = waiting]

LEMMA CopyUpdated ==
  ASSUME copy \in Copy, NEW got \in [Chunks -> Nat], NEW todo \in SUBSET Chunks,
         NEW waiting \in SUBSET LoadKey, NEW stage \in CopyStages
  PROVE  LET new == NewCopy(stage, got, todo, waiting) IN
         /\ new \in Copy
         /\ new.stage = stage /\ new.got = got /\ new.todo = todo /\ new.waiting = waiting
         /\ new.range = copy.range /\ new.epoch = copy.epoch /\ new.early = copy.early
  BY DEF Copy, NewCopy

(* The rows, the requests and the copy when the program starts.            *)
LEMMA NothingCachedOrCopied ==
  /\ Cached([c \in Chunks |-> None]) = {} /\ Lists(<<>>, {}) /\ Cardinality({}) = 0
  /\ NoCopy \in Copy
<1>1. Cached([c \in Chunks |-> None]) = {}
  BY DEF Cached
<1>2. Cardinality({}) = 0
  BY FS_EmptySet
<1>3. Lists(<<>>, {})
  BY <1>2 DEF Lists
<1>4. NoCopy \in Copy
  BY DEF NoCopy, Copy, CopyStages, None
<1> QED BY <1>1, <1>2, <1>3, <1>4

LEMMA RowsStart == Init => RowsInv
<1> SUFFICES ASSUME Init PROVE RowsInv
  OBVIOUS
<1>1. PICK s \in Sorts : view = [table |-> NoTable, filter |-> NoFilter, sort |-> s]
  BY DEF Init, RowsInit
<1>2. view \in View /\ view \in Query
  BY <1>1, GridAssumption DEF View, Query
<1>3. /\ epoch = 1 /\ epoch \in 1 .. MaxEpoch
      /\ reload = [e \in 1 .. MaxEpoch |-> "none"] /\ snapshots = [e \in 1 .. MaxEpoch |-> view]
      /\ cache = [c \in Chunks |-> None] /\ recency = <<>>
      /\ loads = {} /\ copy = NoCopy
  BY GridAssumption DEF Init, RowsInit
<1>4. RowsTypeOK
  <2>1. recency \in Seq(Chunks)
    BY <1>3
  <2>2. copy \in Copy
    BY <1>3, NothingCachedOrCopied
  <2> QED BY <1>2, <1>3, <2>1, <2>2 DEF Init, RowsInit, RowsTypeOK, None, ReloadStages, Failures
<1>5. TypeOK
  BY <1>4 DEF Init, TypeOK
<1>6. RecencyInv
  <2>1. Cached(cache) = {}
    BY <1>3, NothingCachedOrCopied
  <2>2. Cardinality({}) <= MaxCachedChunks
    BY NothingCachedOrCopied, GridAssumption
  <2> QED BY <1>3, <2>1, <2>2, NothingCachedOrCopied DEF RecencyInv
<1>7. ListedCurrent
  BY <1>3 DEF ListedCurrent, Current
<1>8. CopyInv
  BY <1>3 DEF CopyInv, CopyOnTrack, CopyComplete, NoCopy, None
<1> QED BY <1>5, <1>6, <1>7, <1>8 DEF RowsInv

(* What the first invariant asks of the types.                             *)
LEMMA TypesOfEpochs ==
  ASSUME TypeOK
  PROVE  EpochsTyped /\ epoch \in Nat /\ epoch # 0 /\ copy \in Copy /\ loads \in SUBSET Load
  BY GridAssumption DEF TypeOK, RowsTypeOK, EpochsTyped

(* A step that leaves the requests and the copy alone, and the window of   *)
(* the reload as it is.                                                    *)
LEMMA RequestsStay ==
  ASSUME ListedCurrent, CopyInv, UNCHANGED <<loads, copy, epoch>>, InWindow' = InWindow
  PROVE  ListedCurrent' /\ CopyInv'
<1>1. ListedCurrent'
  BY DEF ListedCurrent, Current
<1>2. CopyInv'
  BY DEF CopyInv, CopyOnTrack, OnTrack, CopyComplete, Single
<1> QED BY <1>1, <1>2

(* A copy of an earlier epoch has nothing to wait for.                     *)
LEMMA EpochMovesOn ==
  ASSUME TypeOK, CopyInv, epoch' = epoch + 1, UNCHANGED copy,
         InWindow' \/ \A l \in loads' : ~l.listed
  PROVE  ListedCurrent' /\ CopyInv'
<1>1. copy.epoch \in Nat /\ epoch \in Nat
  BY TypesOfEpochs DEF Copy
<1>2. copy.epoch <= epoch' /\ copy.epoch # epoch'
  BY <1>1 DEF CopyInv
<1>3. CopyInv'
  BY <1>2 DEF CopyInv, CopyOnTrack, CopyComplete
<1>4. ListedCurrent'
  BY DEF ListedCurrent, Current
<1> QED BY <1>3, <1>4

(* reloadData of a view.                                                   *)
LEMMA ReloadKeepsRows ==
  ASSUME RowsInv, NEW v \in View, view' = v, ReloadData(v), UNCHANGED reloadRest,
         timer' \in Timer \cup {NoTimer}, memo' \in Filters \cup {NoMemo}
  PROVE  RowsInv'
<1>1. /\ UNCHANGED <<total, cache, recency, failed, scheduled, loads, publishOn, flush, visible,
                     copy, countPending, counting>>
  BY DEF reloadRest, chunkVars
<1>2. RecencyInv'
  BY <1>1 DEF RowsInv, RecencyInv
<1>3. CASE NewEpoch(v, "cancelling") /\ loading' = TRUE
  <2>1. /\ epoch' \in 1 .. MaxEpoch /\ reload' \in [1 .. MaxEpoch -> ReloadStages]
        /\ snapshots' \in [1 .. MaxEpoch -> Query] /\ reload'[epoch'] = "cancelling"
    BY <1>3, TypesOfEpochs, EpochBegins DEF RowsInv, ReloadStages
  <2>2. TypeOK'
    BY <1>1, <1>3, <2>1 DEF RowsInv, TypeOK, RowsTypeOK
  <2>3. epoch' = epoch + 1 /\ InWindow'
    BY <1>3, <2>1 DEF NewEpoch, InWindow
  <2>4. ListedCurrent' /\ CopyInv'
    BY <1>1, <2>3, EpochMovesOn DEF RowsInv
  <2> QED BY <1>2, <2>2, <2>4 DEF RowsInv
<1>4. CASE UNCHANGED <<epochVars, loading>>
  <2>1. UNCHANGED <<epoch, reload, snapshots, loading>> /\ InWindow' = InWindow
    BY <1>4 DEF epochVars, InWindow
  <2>2. TypeOK'
    BY <1>1, <2>1 DEF RowsInv, TypeOK, RowsTypeOK
  <2>3. ListedCurrent' /\ CopyInv'
    BY <1>1, <2>1, RequestsStay DEF RowsInv
  <2> QED BY <1>2, <2>2, <2>3 DEF RowsInv
<1> QED BY <1>3, <1>4 DEF ReloadData

(* clearEpochState empties the cache and its order and unlists requests.   *)
LEMMA ClearedRows ==
  ASSUME TypeOK, ClearEpochState
  PROVE  /\ cache' \in [Chunks -> Nat] /\ recency' \in Seq(Chunks) /\ loads' \in SUBSET Load
         /\ failed' \in [Chunks -> {"no"} \cup Failures]
         /\ scheduled' = {} /\ publishOn' = {}
         /\ RecencyInv' /\ \A l \in loads' : ~l.listed
<1>1. cache' \in [Chunks -> Nat] /\ recency' \in Seq(Chunks)
      /\ failed' \in [Chunks -> {"no"} \cup Failures]
      /\ scheduled' = {} /\ publishOn' = {}
  BY DEF ClearEpochState, None
<1>2. RecencyInv'
  <2>1. Cached(cache') = {} /\ recency' = <<>>
    BY NothingCachedOrCopied DEF ClearEpochState
  <2>2. Cardinality({}) <= MaxCachedChunks
    BY NothingCachedOrCopied, GridAssumption
  <2> QED BY <2>1, <2>2, NothingCachedOrCopied DEF RecencyInv
<1>3. ASSUME NEW l \in loads PROVE [l EXCEPT !.listed = FALSE] \in Load
                                   /\ ~[l EXCEPT !.listed = FALSE].listed
  BY TypesOfEpochs DEF Load
<1>4. loads' \in SUBSET Load /\ \A l \in loads' : ~l.listed
  BY <1>3 DEF ClearEpochState
<1> QED BY <1>1, <1>2, <1>4

(* A reset begins its epoch with nothing cached and nothing listed.        *)
LEMMA ResetKeepsRows ==
  ASSUME RowsInv, ResetForNewDatabase
  PROVE  RowsInv'
<1>1. PICK s \in Sorts :
        /\ view' = [table |-> NoTable, filter |-> NoFilter, sort |-> s]
        /\ NewEpoch(view', "none")
        /\ ClearEpochState
        /\ total' = None /\ visible' = Chunks
        /\ loading' = FALSE /\ countPending' = FALSE
        /\ timer' = NoTimer /\ memo' = NoMemo
        /\ UNCHANGED <<flush, copy, counting>>
  BY DEF ResetForNewDatabase
<1>2. view' \in View /\ "none" \in ReloadStages
  BY <1>1, GridAssumption DEF View, ReloadStages
<1>3. /\ epoch' \in 1 .. MaxEpoch /\ reload' \in [1 .. MaxEpoch -> ReloadStages]
      /\ snapshots' \in [1 .. MaxEpoch -> Query]
  BY <1>1, <1>2, TypesOfEpochs, EpochBegins DEF RowsInv
<1>4. TypeOK'
  BY <1>1, <1>2, <1>3, ClearedRows DEF RowsInv, TypeOK, RowsTypeOK, None
<1>5. epoch' = epoch + 1
  BY <1>1 DEF NewEpoch
<1>6. ListedCurrent' /\ CopyInv'
  BY <1>1, <1>5, ClearedRows, EpochMovesOn DEF RowsInv
<1> QED BY <1>1, <1>4, <1>6, ClearedRows DEF RowsInv

-----------------------------------------------------------------------------
(* Drawing, flushing and copying.                                          *)

LEMMA SomeChunks ==
  ASSUME NEW n, NEW chunks \in SUBSET Chunks
  PROVE  LeastOf(n, chunks) \in SUBSET chunks
  BY DEF LeastOf

(* A draw reads the cached chunks and marks the others.                    *)
LEMMA RenderKeepsRows ==
  ASSUME RowsInv, NEW window \in Windows, Render(window), UNCHANGED queryRest
  PROVE  RowsInv'
<1>1. /\ UNCHANGED <<view, total, epoch, snapshots, reload, cache, failed, loads, publishOn, copy,
                     loading, countPending, timer, memo, counting>>
      /\ visible' = window /\ recency' = Touched(recency, window \cap Cached(cache))
      /\ scheduled' \in SUBSET (scheduled \cup window) /\ flush' \in {flush, epoch}
  BY DEF Render, queryRest, epochVars
<1>2. window \in SUBSET Chunks
  BY GridAssumption
<1>3. RecencyInv'
  BY <1>1, ReadTracks DEF RowsInv
<1>4. recency' \in Seq(Chunks)
  BY <1>3, RecencyTyped DEF RecencyInv
<1>5. TypeOK'
  BY <1>1, <1>2, <1>4 DEF RowsInv, TypeOK, RowsTypeOK
<1>6. ListedCurrent' /\ CopyInv'
  BY <1>1, RequestsStay DEF RowsInv, InWindow
<1> QED BY <1>3, <1>5, <1>6 DEF RowsInv

(* A flush asks for what the current epoch asks for.                       *)
LEMMA FlushKeepsRows ==
  ASSUME RowsInv, Flush, UNCHANGED queryRest
  PROVE  RowsInv'
<1> DEFINE chunks == IF flush = epoch
                     THEN {c \in scheduled \cap visible : failed[c] = "no"} ELSE {}
<1>1. /\ UNCHANGED <<view, total, epoch, snapshots, reload, cache, recency, failed, visible, copy,
                     loading, countPending, timer, memo, counting>>
      /\ flush' = None /\ scheduled' = {}
      /\ loads' = Asked(loads, chunks, {epoch}) /\ publishOn' = publishOn \cup chunks
  BY DEF Flush, queryRest, epochVars
<1>2. chunks \in SUBSET Chunks /\ {epoch} \in SUBSET Nat
  BY TypesOfEpochs DEF RowsInv, TypeOK, RowsTypeOK
<1> HIDE DEF chunks
<1>3. loads' \in SUBSET Load /\ Current(loads')
  BY <1>1, <1>2, TypesOfEpochs, AskedLoads DEF RowsInv, ListedCurrent
<1>4. TypeOK'
  BY <1>1, <1>2, <1>3 DEF RowsInv, TypeOK, RowsTypeOK, None
<1>5. RecencyInv'
  BY <1>1 DEF RowsInv, RecencyInv
<1>6. ListedCurrent'
  BY <1>1, <1>3 DEF ListedCurrent, Current, InWindow
<1>7. CopyInv'
  BY <1>1 DEF RowsInv, CopyInv, CopyOnTrack, OnTrack, CopyComplete, Single, InWindow
<1> QED BY <1>4, <1>5, <1>6, <1>7 DEF RowsInv

(* A copy has what is cached and asks for the rest, now or later.          *)
LEMMA StartCopyKeepsRows ==
  ASSUME RowsInv, NEW range \in Ranges, StartCopy(range), UNCHANGED queryRest
  PROVE  RowsInv'
<1> DEFINE here == range \cap Cached(cache)
           missing == range \ here
           first == LeastOf(MaxConcurrency, missing)
           watch == IF Cardinality(range) = 1 THEN {epoch} ELSE {}
           asked == Asked(loads, first, watch)
           got == [c \in Chunks |-> IF c \in here THEN cache[c] ELSE None]
           stage == IF missing = {} THEN Verdict(epoch, range, got) ELSE "loading"
           waiting == KeysFor(asked, first)
<1>1. /\ UNCHANGED <<view, total, epoch, snapshots, reload, cache, failed, scheduled, flush,
                     visible, loading, countPending, timer, memo, counting>>
      /\ recency' = Touched(recency, here) /\ loads' = asked
      /\ publishOn' \in SUBSET (publishOn \cup first)
      /\ copy' = [stage |-> stage, range |-> range, epoch |-> epoch, early |-> InWindow,
                  got |-> got, todo |-> missing \ first, waiting |-> waiting]
  BY DEF StartCopy, queryRest, epochVars
<1>2. range \in SUBSET Chunks
  BY GridAssumption
<1>3. /\ epoch \in Nat /\ epoch # 0 /\ loads \in SUBSET Load
      /\ cache \in [Chunks -> Nat] /\ InWindow \in BOOLEAN
  BY TypesOfEpochs DEF RowsInv, EpochsTyped, InWindow
<1>4. missing \in SUBSET Chunks /\ first \in SUBSET missing
  BY <1>2, SomeChunks
<1>5. got \in [Chunks -> Nat] /\ \A c \in range \ missing : got[c] # None
  BY <1>2, <1>3 DEF Cached, None
<1>6. watch \in SUBSET Nat
  BY <1>3
<1>7. RecencyInv'
  BY <1>1, ReadTracks DEF RowsInv
<1>8. recency' \in Seq(Chunks)
  BY <1>7, RecencyTyped DEF RecencyInv
<1>9. missing = {} => stage = "copied"
  BY <1>5 DEF Verdict
<1>10. stage \in CopyStages
  BY <1>9 DEF CopyStages
<1> HIDE DEF here, missing, first, watch, got, stage
<1>11. /\ asked \in SUBSET Load /\ Current(asked)
       /\ \A c \in first : \E l \in asked : l.listed /\ l.chunk = c
  BY <1>3, <1>4, <1>6, AskedLoads DEF RowsInv, ListedCurrent
<1> HIDE DEF asked
<1>12. /\ waiting \in SUBSET LoadKey
       /\ ~InWindow => \A c \in first : \E k \in waiting : k.chunk = c /\ k.epoch = epoch
  BY <1>4, <1>11, KeysWaited
<1> HIDE DEF waiting
<1>13. copy' \in Copy
  BY <1>1, <1>2, <1>3, <1>4, <1>5, <1>10, <1>12 DEF Copy
<1>14. TypeOK'
  BY <1>1, <1>4, <1>8, <1>11, <1>13 DEF RowsInv, TypeOK, RowsTypeOK
<1>15. ListedCurrent'
  BY <1>1, <1>11 DEF ListedCurrent, Current, InWindow
<1>16. /\ copy'.stage = stage /\ copy'.range = range /\ copy'.epoch = epoch
       /\ copy'.early = InWindow /\ copy'.got = got /\ copy'.todo = missing \ first
       /\ copy'.waiting = waiting
  BY <1>1
<1>17. ~InWindow => \A c \in range \ (missing \ first) :
                      got[c] = None => \E k \in waiting : k.chunk = c /\ k.epoch = epoch
  BY <1>5, <1>12
<1>18. CopyInv'
  <2>1. copy'.epoch <= epoch'
    BY <1>1, <1>3, <1>16
  <2>2. CopyOnTrack'
    BY <1>1, <1>16, <1>17 DEF CopyOnTrack, OnTrack, InWindow
  <2>3. stage # "incomplete"
    BY <1>9 DEF stage
  <2>4. CopyComplete'
    BY <1>16, <2>3 DEF CopyComplete
  <2> QED BY <2>1, <2>2, <2>4 DEF CopyInv
<1> QED BY <1>7, <1>14, <1>15, <1>18 DEF RowsInv

-----------------------------------------------------------------------------
(* The answers to requests, and what waits for them.                       *)

(* What of a copy is put together when a load is answered.                 *)
Landed(l, got) ==
  /\ got \in [Chunks -> Nat]
  /\ ~Single => got = [copy.got EXCEPT ![l.chunk] = IF l.epoch = epoch THEN l.epoch ELSE @]

(* A chunk whose request is answered is had, if the request was of the     *)
(* epoch.                                                                  *)
LEMMA LandedOnTrack ==
  ASSUME copy \in Copy, epoch # 0, NEW l \in Load, NEW got, Landed(l, got), ~Single,
         OnTrack(copy.got, copy.todo, copy.waiting)
  PROVE  OnTrack(got, copy.todo, copy.waiting \ {Key(l)})
<1>1. copy.got \in [Chunks -> Nat] /\ copy.range \in SUBSET Chunks
  BY DEF Copy
<1>2. l.chunk \in Chunks /\ Key(l).chunk = l.chunk /\ Key(l).epoch = l.epoch
  BY DEF Load, Key
<1>3. got = [copy.got EXCEPT ![l.chunk] = IF l.epoch = epoch THEN l.epoch ELSE @]
  BY DEF Landed
<1>4. SUFFICES ASSUME NEW c \in copy.range \ copy.todo, got[c] = None
               PROVE  \E k \in copy.waiting \ {Key(l)} : k.chunk = c /\ k.epoch = epoch
  BY DEF OnTrack
<1>5. copy.got[c] = None /\ (c = l.chunk => l.epoch # epoch)
  BY <1>1, <1>2, <1>3, <1>4 DEF None
<1>6. PICK k \in copy.waiting : k.chunk = c /\ k.epoch = epoch
  BY <1>5 DEF OnTrack
<1>7. k # Key(l)
  BY <1>2, <1>5, <1>6
<1> QED BY <1>6, <1>7

(* Nobody waits for it: the request goes.                                  *)
LEMMA LoadGone ==
  ASSUME RowsInv, NEW l \in loads, UNCHANGED <<epoch, reload>>, NobodyWaits(l)
  PROVE  /\ loads' \in SUBSET Load /\ publishOn' \in SUBSET Chunks /\ copy' \in Copy
         /\ ListedCurrent' /\ CopyInv'
<1>1. /\ loads' \in SUBSET loads /\ publishOn' \in SUBSET publishOn /\ copy' = copy
      /\ InWindow' = InWindow
  BY DEF NobodyWaits, InWindow
<1>2. ListedCurrent'
  BY <1>1 DEF RowsInv, ListedCurrent, Current
<1>3. CopyInv'
  BY <1>1 DEF RowsInv, CopyInv, CopyOnTrack, OnTrack, CopyComplete, Single
<1> QED BY <1>1, <1>2, <1>3 DEF RowsInv, TypeOK, RowsTypeOK

(* A worker asks for the next chunk it has to get.                         *)
LEMMA WorkerKeepsOn ==
  ASSUME RowsInv, NEW l \in loads, UNCHANGED <<epoch, reload>>, NEW got, Landed(l, got),
         WorkerGoesOn(l, got)
  PROVE  /\ loads' \in SUBSET Load /\ publishOn' \in SUBSET Chunks /\ copy' \in Copy
         /\ ListedCurrent' /\ CopyInv'
<1> DEFINE next == LeastOf(1, copy.todo)
           asked == Asked(loads \ {l}, next, {})
           more == KeysFor(asked, next)
           waiting == (copy.waiting \ {Key(l)}) \cup more
           left == copy.todo \ next
<1>1. /\ loads' = asked /\ publishOn' \in SUBSET (publishOn \cup next)
      /\ copy' = [copy EXCEPT !.got = got, !.todo = @ \ next,
                              !.waiting = (@ \ {Key(l)}) \cup more]
  BY DEF WorkerGoesOn
<1>2. /\ copy \in Copy /\ epoch \in Nat /\ epoch # 0 /\ loads \in SUBSET Load
      /\ publishOn \in SUBSET Chunks
  BY TypesOfEpochs DEF RowsInv, TypeOK, RowsTypeOK
<1>3. /\ copy.todo \in SUBSET Chunks /\ copy.waiting \in SUBSET LoadKey
      /\ copy.stage \in CopyStages
  BY <1>2 DEF Copy
<1>4. next \in SUBSET copy.todo
  BY <1>3, SomeChunks
<1>5. (loads \ {l}) \in SUBSET Load /\ {} \in SUBSET Nat
  BY <1>2
<1>6. Current(loads \ {l})
  BY DEF RowsInv, ListedCurrent, Current
<1> HIDE DEF next
<1>7. /\ asked \in SUBSET Load /\ Current(asked)
      /\ \A c \in next : \E k \in asked : k.listed /\ k.chunk = c
  BY <1>2, <1>3, <1>4, <1>5, <1>6, AskedLoads
<1> HIDE DEF asked
<1>8. /\ more \in SUBSET LoadKey
      /\ ~InWindow => \A c \in next : \E k \in more : k.chunk = c /\ k.epoch = epoch
  BY <1>3, <1>4, <1>7, KeysWaited
<1> HIDE DEF more
<1>9. copy' = NewCopy(copy.stage, got, left, waiting)
  BY <1>1, <1>2 DEF Copy, NewCopy
<1>10. got \in [Chunks -> Nat] /\ left \in SUBSET Chunks /\ waiting \in SUBSET LoadKey
  BY <1>3, <1>8 DEF Landed
<1> HIDE DEF left, waiting
<1>11. /\ copy' \in Copy
       /\ copy'.stage = copy.stage /\ copy'.got = got /\ copy'.todo = left
       /\ copy'.waiting = waiting
       /\ copy'.range = copy.range /\ copy'.epoch = copy.epoch /\ copy'.early = copy.early
  BY <1>2, <1>3, <1>9, <1>10, CopyUpdated
<1>12. InWindow' = InWindow
  BY DEF InWindow
<1>13. ListedCurrent'
  BY <1>1, <1>7, <1>12 DEF ListedCurrent, Current
<1>14. CopyOnTrack'
  <2>1. SUFFICES ASSUME copy.stage = "loading", copy.epoch = epoch, ~copy.early, ~Single
                 PROVE  ~InWindow /\ OnTrack(got, left, waiting)
    BY <1>11, <1>12 DEF CopyOnTrack, OnTrack, Single
  <2>2. ~InWindow /\ OnTrack(copy.got, copy.todo, copy.waiting)
    BY <2>1 DEF RowsInv, CopyInv, CopyOnTrack
  <2>3. OnTrack(got, copy.todo, copy.waiting \ {Key(l)})
    BY <1>2, <2>1, <2>2, LandedOnTrack
  <2>4. OnTrack(got, left, waiting)
    BY <1>8, <2>2, <2>3 DEF OnTrack, left, waiting
  <2> QED BY <2>2, <2>4
<1>15. CopyInv'
  BY <1>11, <1>14 DEF RowsInv, CopyInv, CopyComplete
<1> QED BY <1>1, <1>2, <1>3, <1>4, <1>7, <1>11, <1>13, <1>15

(* A worker stops: the copy comes to its verdict when it was the last one. *)
LEMMA WorkerEnds ==
  ASSUME RowsInv, NEW l \in loads, UNCHANGED <<epoch, reload>>, NEW got,
         NEW worst \in CopyStages, WorkerStops(l, got, worst),
         got \in [Chunks -> Nat],
         \/ worst = "failed" \/ Single
         \/ /\ worst = Verdict(copy.epoch, copy.range, got) /\ copy.todo = {} /\ Landed(l, got)
  PROVE  /\ loads' \in SUBSET Load /\ publishOn' \in SUBSET Chunks /\ copy' \in Copy
         /\ ListedCurrent' /\ CopyInv'
<1> DEFINE waiting == copy.waiting \ {Key(l)}
           ends == copy.stage = "loading" /\ (waiting = {} \/ worst = "failed")
           stage == IF ends THEN worst ELSE copy.stage
<1>1. /\ loads' \in SUBSET loads /\ publishOn' \in SUBSET publishOn
      /\ copy' = [copy EXCEPT !.got = got, !.waiting = waiting,
                              !.stage = IF ends THEN worst ELSE @]
  BY DEF WorkerStops
<1>2. /\ copy \in Copy /\ epoch \in Nat /\ epoch # 0 /\ loads \in SUBSET Load
      /\ publishOn \in SUBSET Chunks
  BY TypesOfEpochs DEF RowsInv, TypeOK, RowsTypeOK
<1>3. /\ copy.todo \in SUBSET Chunks /\ waiting \in SUBSET LoadKey /\ stage \in CopyStages
  BY <1>2 DEF Copy
<1> HIDE DEF ends
<1>4. copy' = NewCopy(stage, got, copy.todo, waiting)
  BY <1>1, <1>2 DEF Copy, NewCopy
<1> HIDE DEF waiting, stage
<1>5. /\ copy' \in Copy
      /\ copy'.stage = stage /\ copy'.got = got /\ copy'.todo = copy.todo
      /\ copy'.waiting = waiting
      /\ copy'.range = copy.range /\ copy'.epoch = copy.epoch /\ copy'.early = copy.early
  BY <1>2, <1>3, <1>4, CopyUpdated
<1>6. InWindow' = InWindow
  BY DEF InWindow
<1>7. ListedCurrent'
  BY <1>1, <1>6 DEF RowsInv, ListedCurrent, Current
<1>8. ASSUME copy.stage = "loading", copy.epoch = epoch, ~copy.early, ~Single,
             worst # "failed"
      PROVE  ~InWindow /\ OnTrack(got, copy.todo, waiting)
  <2>1. ~InWindow /\ OnTrack(copy.got, copy.todo, copy.waiting)
    BY <1>8 DEF RowsInv, CopyInv, CopyOnTrack
  <2> QED BY <1>2, <1>8, <2>1, LandedOnTrack DEF waiting
<1>9. CopyOnTrack'
  <2>1. SUFFICES ASSUME stage = "loading", copy.epoch = epoch, ~copy.early, ~Single
                 PROVE  ~InWindow /\ OnTrack(got, copy.todo, waiting)
    BY <1>5, <1>6 DEF CopyOnTrack, OnTrack, Single
  <2>2. worst # "loading"
    BY <2>1 DEF Verdict
  <2>3. copy.stage = "loading" /\ worst # "failed"
    BY <2>1, <2>2 DEF stage, ends
  <2> QED BY <1>8, <2>1, <2>3
<1>10. CopyComplete'
  <2>1. SUFFICES ASSUME stage = "incomplete", Cardinality(copy.range) > 1, ~copy.early
                 PROVE  FALSE
    BY <1>5 DEF CopyComplete
  <2>2. ends
    BY <2>1 DEF stage, RowsInv, CopyInv, CopyComplete
  <2>3. copy.stage = "loading" /\ worst = "incomplete" /\ waiting = {}
    BY <2>1, <2>2 DEF stage, ends
  <2>4. ~Single
    BY <2>1 DEF Single
  <2>5. copy.epoch = epoch /\ copy.todo = {} /\ \E c \in copy.range : got[c] = None
    BY <2>3, <2>4 DEF Verdict
  <2>6. OnTrack(got, {}, {})
    BY <1>8, <2>1, <2>3, <2>4, <2>5
  <2> QED BY <2>5, <2>6 DEF OnTrack
<1>11. CopyInv'
  BY <1>5, <1>9, <1>10 DEF RowsInv, CopyInv
<1> QED BY <1>1, <1>2, <1>5, <1>7, <1>11

(* The rows of a load arrive.                                              *)
LEMMA LoadLandsKeepsRows ==
  ASSUME RowsInv, NEW l \in loads, LoadLands(l), UNCHANGED queryRest
  PROVE  RowsInv'
<1> DEFINE stored == IsCurrent(l) /\ l.chunk \in publishOn
           got == [copy.got EXCEPT ![l.chunk] =
                     IF ~Single THEN (IF IsCurrent(l) THEN l.epoch ELSE @)
                     ELSE IF stored THEN l.epoch ELSE cache[l.chunk]]
<1>1. UNCHANGED <<view, epoch, snapshots, reload, failed, scheduled, flush, visible,
                  loading, countPending, timer, memo, counting>>
  BY DEF LoadLands, queryRest, epochVars
<1>2. /\ copy \in Copy /\ epoch \in Nat /\ epoch # 0 /\ loads \in SUBSET Load
      /\ cache \in [Chunks -> Nat] /\ total \in Nat
  BY TypesOfEpochs DEF RowsInv, EpochsTyped, TypeOK, RowsTypeOK
<1>3. l \in Load /\ l.chunk \in Chunks /\ l.epoch \in Nat
  BY <1>2 DEF Load
<1>4. cache' \in [Chunks -> Nat] /\ total' \in Nat /\ RecencyInv'
  <2>1. CASE stored /\ Store(l.chunk, l.epoch) /\ total' \in {total, l.epoch}
    <3>1. l.epoch \in Nat \ {0}
      BY <1>2, <2>1 DEF IsCurrent
    <3>2. RecencyInv'
      BY <1>2, <1>3, <2>1, <3>1, StoreTracks DEF RowsInv
    <3> QED BY <1>2, <1>3, <2>1, <3>2, StoreKeeps
  <2>2. CASE UNCHANGED <<cache, total>> /\ recency' = Touched(recency, ReadBack(l))
    BY <1>2, <2>2, ReadBackTracks DEF RowsInv
  <2> QED BY <2>1, <2>2 DEF LoadLands
<1>5. recency' \in Seq(Chunks)
  BY <1>4, RecencyTyped DEF RecencyInv
<1>6. got \in [Chunks -> Nat]
  BY <1>2, <1>3 DEF Copy
<1>7. Landed(l, got)
  BY <1>6 DEF Landed, IsCurrent
<1>8. Verdict(copy.epoch, copy.range, got) \in CopyStages
  BY DEF Verdict, CopyStages
<1>9. \/ NobodyWaits(l) \/ WorkerGoesOn(l, got)
      \/ copy.todo = {} /\ WorkerStops(l, got, Verdict(copy.epoch, copy.range, got))
  BY DEF LoadLands
<1> HIDE DEF got, stored
<1>10. UNCHANGED <<epoch, reload>>
  BY <1>1
<1>11. /\ loads' \in SUBSET Load /\ publishOn' \in SUBSET Chunks /\ copy' \in Copy
       /\ ListedCurrent' /\ CopyInv'
  BY <1>6, <1>7, <1>8, <1>9, <1>10, LoadGone, WorkerKeepsOn, WorkerEnds
<1>12. TypeOK'
  BY <1>1, <1>4, <1>5, <1>11 DEF RowsInv, TypeOK, RowsTypeOK
<1> QED BY <1>4, <1>11, <1>12 DEF RowsInv

(* A load fails, and the copy with it unless it was of one chunk.          *)
LEMMA LoadFailsKeepsRows ==
  ASSUME RowsInv, NEW l \in loads, NEW why \in Failures, LoadFails(l, why), UNCHANGED queryRest
  PROVE  RowsInv'
<1> DEFINE got == [copy.got EXCEPT ![l.chunk] = IF Single THEN cache[l.chunk] ELSE @]
           worst == IF Single THEN Verdict(copy.epoch, copy.range, got) ELSE "failed"
<1>1. /\ UNCHANGED <<view, total, epoch, snapshots, reload, cache, scheduled, flush,
                     visible, loading, countPending, timer, memo, counting>>
      /\ recency' = Touched(recency, ReadBack(l))
      /\ failed' = IF Latches(l, why) THEN [failed EXCEPT ![l.chunk] = why] ELSE failed
      /\ NobodyWaits(l) \/ WorkerStops(l, got, worst)
  BY DEF LoadFails, queryRest, epochVars
<1>2. /\ copy \in Copy /\ loads \in SUBSET Load /\ cache \in [Chunks -> Nat]
      /\ failed \in [Chunks -> {"no"} \cup Failures]
  BY TypesOfEpochs DEF RowsInv, EpochsTyped, TypeOK, RowsTypeOK
<1>3. l.chunk \in Chunks
  BY <1>2 DEF Load
<1>4. got \in [Chunks -> Nat] /\ failed' \in [Chunks -> {"no"} \cup Failures]
  BY <1>1, <1>2, <1>3 DEF Copy
<1>5. worst \in CopyStages /\ (worst = "failed" \/ Single)
  BY DEF Verdict, CopyStages
<1> HIDE DEF got, worst
<1>6. UNCHANGED <<epoch, reload>>
  BY <1>1
<1>7. /\ loads' \in SUBSET Load /\ publishOn' \in SUBSET Chunks /\ copy' \in Copy
      /\ ListedCurrent' /\ CopyInv'
  BY <1>1, <1>4, <1>5, <1>6, LoadGone, WorkerEnds
<1>8. RecencyInv'
  BY <1>1, ReadBackTracks DEF RowsInv
<1>9. recency' \in Seq(Chunks)
  BY <1>8, RecencyTyped DEF RecencyInv
<1>10. TypeOK'
  BY <1>1, <1>4, <1>7, <1>9 DEF RowsInv, TypeOK, RowsTypeOK
<1> QED BY <1>7, <1>8, <1>10 DEF RowsInv

-----------------------------------------------------------------------------
(* The steps of a reload and of the user.                                  *)

(* A reload goes on: the window of the current epoch closes only when its  *)
(* cancel is answered.                                                     *)
LEMMA ReloadStepsKeepRows ==
  ASSUME RowsInv, NEW e \in 1 .. MaxEpoch, ReloadStep(e)
  PROVE  RowsInv'
<1>1. UNCHANGED <<view, epoch, snapshots, flush, visible, copy, timer, memo>>
  BY DEF ReloadStep, CancelAnswered, FirstChunk, Settle, CountAnswered, FirstChunkFails,
         reloadStepRest
<1>2. /\ reload \in [1 .. MaxEpoch -> ReloadStages] /\ epoch \in 1 .. MaxEpoch
      /\ cache \in [Chunks -> Nat] /\ e \in Nat \ {0}
  BY TypesOfEpochs DEF RowsInv, EpochsTyped
<1> USE DEF ReloadStages
<1>3. CASE CancelAnswered(e)
  <2>1. /\ reload' \in [1 .. MaxEpoch -> ReloadStages]
        /\ UNCHANGED <<total, loading, countPending, counting>>
    BY <1>2, <1>3 DEF CancelAnswered, ReloadGoes
  <2>2. CASE e = epoch /\ ReloadGoes(e, "cancelling", "loading") /\ ClearEpochState
    <3>1. TypeOK'
      BY <1>1, <2>1, <2>2, ClearedRows DEF RowsInv, TypeOK, RowsTypeOK
    <3>2. ~InWindow' /\ InWindow
      BY <1>1, <1>2, <2>2 DEF ReloadGoes, InWindow
    <3>3. ListedCurrent'
      BY <2>2, ClearedRows DEF RowsInv, ListedCurrent, Current
    <3>4. CopyInv'
      BY <1>1, <3>2 DEF RowsInv, CopyInv, CopyOnTrack, CopyComplete, Single
    <3> QED BY <2>2, <3>1, <3>3, <3>4, ClearedRows DEF RowsInv
  <2>3. CASE e # epoch /\ ReloadGoes(e, "cancelling", "none")
             /\ UNCHANGED <<chunkVars, loads, publishOn>>
    <3>1. UNCHANGED <<cache, recency, failed, scheduled, loads, publishOn>>
      BY <2>3 DEF chunkVars
    <3>2. InWindow' = InWindow
      BY <1>1, <1>2, <2>3 DEF ReloadGoes, InWindow
    <3>3. TypeOK'
      BY <1>1, <2>1, <3>1 DEF RowsInv, TypeOK, RowsTypeOK
    <3> QED BY <1>1, <3>1, <3>2, <3>3, RequestsStay DEF RowsInv, RecencyInv
  <2> QED BY <1>3, <2>2, <2>3 DEF CancelAnswered
<1>4. ASSUME UNCHANGED <<loads, publishOn, scheduled>>,
             reload' \in [1 .. MaxEpoch -> ReloadStages], InWindow' = InWindow,
             cache' \in [Chunks -> Nat], RecencyInv',
             failed' \in [Chunks -> {"no"} \cup Failures], total' \in Nat,
             loading' \in BOOLEAN, countPending' \in BOOLEAN, counting' \subseteq 1 .. MaxEpoch
      PROVE  RowsInv'
  <2>1. recency' \in Seq(Chunks)
    BY <1>4, RecencyTyped DEF RecencyInv
  <2>2. TypeOK'
    BY <1>1, <1>4, <2>1 DEF RowsInv, TypeOK, RowsTypeOK
  <2>3. ListedCurrent' /\ CopyInv'
    BY <1>1, <1>4, RequestsStay DEF RowsInv
  <2> QED BY <1>4, <2>2, <2>3 DEF RowsInv
<1>5. /\ failed \in [Chunks -> {"no"} \cup Failures] /\ total \in Nat
      /\ loading \in BOOLEAN /\ countPending \in BOOLEAN /\ counting \subseteq 1 .. MaxEpoch
      /\ 0 \in Chunks
  BY GridAssumption DEF RowsInv, TypeOK, RowsTypeOK, Chunks
<1>6. CASE FirstChunk(e)
  <2>1. /\ UNCHANGED <<failed, scheduled, loads, publishOn, loading>>
        /\ reload' \in [1 .. MaxEpoch -> ReloadStages]
        /\ InWindow' = InWindow
    BY <1>1, <1>2, <1>6 DEF FirstChunk, ReloadGoes, InWindow
  <2>2. CASE Store(0, e) /\ total' = e
    <3>1. RecencyInv'
      BY <1>2, <1>5, <2>2, StoreTracks DEF RowsInv
    <3>2. cache' \in [Chunks -> Nat]
      BY <1>2, <1>5, <2>2, StoreKeeps
    <3>3. countPending' \in BOOLEAN /\ counting' \subseteq 1 .. MaxEpoch
      BY <1>5, <1>6 DEF FirstChunk
    <3> QED BY <1>2, <1>4, <1>5, <2>1, <2>2, <3>1, <3>2, <3>3
  <2>3. CASE UNCHANGED <<cache, recency, total, countPending, counting>>
    BY <1>2, <1>4, <1>5, <2>1, <2>3 DEF RowsInv, RecencyInv
  <2> QED BY <1>6, <2>2, <2>3 DEF FirstChunk
<1>7. ASSUME NEW why \in Failures, FirstChunkFails(e, why) PROVE RowsInv'
  <2>1. /\ UNCHANGED <<cache, recency, scheduled, loads, publishOn, counting>>
        /\ reload' \in [1 .. MaxEpoch -> ReloadStages] /\ InWindow' = InWindow
    BY <1>1, <1>2, <1>7 DEF FirstChunkFails, ReloadGoes, InWindow
  <2>2. /\ failed' \in [Chunks -> {"no"} \cup Failures] /\ total' \in Nat
        /\ loading' \in BOOLEAN /\ countPending' \in BOOLEAN
    <3>1. failed' \in {failed, [failed EXCEPT ![0] = why]}
      BY <1>7 DEF FirstChunkFails
    <3>2. /\ total' \in {total, None} /\ loading' \in {loading, FALSE}
          /\ countPending' \in {countPending, FALSE}
      BY <1>7 DEF FirstChunkFails
    <3>3. [failed EXCEPT ![0] = why] \in [Chunks -> {"no"} \cup Failures]
      BY <1>5, <1>7
    <3>4. failed' \in [Chunks -> {"no"} \cup Failures]
      BY <1>5, <3>1, <3>3
    <3>5. total' \in Nat
      BY <1>5, <3>2 DEF None
    <3>6. loading' \in BOOLEAN /\ countPending' \in BOOLEAN
      BY <1>5, <3>2
    <3> QED BY <3>4, <3>5, <3>6
  <2> QED BY <1>2, <1>4, <1>5, <2>1, <2>2 DEF RowsInv, RecencyInv
<1>8. CASE Settle(e)
  <2>1. /\ UNCHANGED <<total, cache, recency, failed, scheduled, loads, publishOn, countPending,
                       counting>>
        /\ reload' \in [1 .. MaxEpoch -> ReloadStages] /\ InWindow' = InWindow
        /\ loading' \in BOOLEAN
    BY <1>1, <1>2, <1>5, <1>8 DEF Settle, ReloadGoes, InWindow, chunkVars
  <2> QED BY <1>2, <1>4, <1>5, <2>1 DEF RowsInv, RecencyInv
<1>9. CASE CountAnswered(e)
  <2>1. /\ UNCHANGED <<reload, cache, recency, failed, scheduled, loads, publishOn, loading>>
        /\ counting' \subseteq 1 .. MaxEpoch /\ countPending' \in BOOLEAN /\ total' \in Nat
    BY <1>2, <1>5, <1>9 DEF CountAnswered, chunkVars
  <2>2. InWindow' = InWindow
    BY <1>1, <2>1 DEF InWindow
  <2> QED BY <1>2, <1>4, <1>5, <2>1, <2>2 DEF RowsInv, RecencyInv
<1> QED BY <1>3, <1>6, <1>7, <1>8, <1>9 DEF ReloadStep

(* A filter field changes; nothing is asked for yet.                       *)
LEMMA InputKeepsRows ==
  ASSUME RowsInv, NEW f \in Filters, HandleFilterInput(f)
  PROVE  RowsInv'
<1>1. /\ UNCHANGED <<total, epoch, snapshots, reload, cache, recency, failed, scheduled, loads,
                     publishOn, flush, visible, copy, countPending, counting, loading, memo>>
      /\ view' = [view EXCEPT !.filter = f] /\ view.table # NoTable
      /\ timer' = timer \/ timer' = [filter |-> f, table |-> view.table]
  BY DEF HandleFilterInput, DebouncedReload, reloadRest, chunkVars, epochVars
<1>2. view' \in View /\ [filter |-> f, table |-> view.table] \in Timer
  BY <1>1 DEF RowsInv, TypeOK, RowsTypeOK, View, Timer
<1>3. TypeOK'
  <2>1. timer' \in Timer \cup {NoTimer}
    BY <1>1, <1>2 DEF RowsInv, TypeOK
  <2> QED BY <1>1, <1>2, <2>1 DEF RowsInv, TypeOK, RowsTypeOK
<1>4. ListedCurrent' /\ CopyInv'
  BY <1>1, RequestsStay DEF RowsInv, InWindow
<1> QED BY <1>1, <1>3, <1>4 DEF RowsInv, RecencyInv

(* Every action that reloads.                                              *)
LEMMA ReloadsKeepRows ==
  ASSUME RowsInv,
         \/ \E s \in Sorts : HandleSort(s)
         \/ \E t \in Tables, f \in Filters, s \in Sorts : SelectTable(t, f, s)
         \/ Retry \/ DebounceFires
  PROVE  RowsInv'
<1>1. view \in View /\ timer \in Timer \cup {NoTimer} /\ memo \in Filters \cup {NoMemo}
  BY DEF RowsInv, TypeOK, RowsTypeOK
<1>2. ASSUME NEW s \in Sorts, HandleSort(s) PROVE RowsInv'
  <2>1. view' \in View /\ ReloadData(view') /\ UNCHANGED reloadRest /\ UNCHANGED <<timer, memo>>
    BY <1>1, <1>2 DEF HandleSort, View
  <2> QED BY <1>1, <2>1, ReloadKeepsRows
<1>3. ASSUME NEW t \in Tables, NEW f \in Filters, NEW s \in Sorts, SelectTable(t, f, s)
      PROVE  RowsInv'
  <2>1. /\ view' \in View /\ ReloadData(view') /\ UNCHANGED reloadRest
        /\ timer' = NoTimer /\ memo' = f
    BY <1>3 DEF SelectTable, View
  <2> QED BY <2>1, ReloadKeepsRows
<1>4. CASE Retry
  <2>1. view' = view /\ ReloadData(view') /\ UNCHANGED reloadRest /\ UNCHANGED <<timer, memo>>
    BY <1>4 DEF Retry
  <2> QED BY <1>1, <2>1, ReloadKeepsRows
<1>5. CASE DebounceFires
  <2>1. /\ view' = view /\ ReloadData(view') /\ UNCHANGED reloadRest
        /\ timer' = NoTimer /\ memo' = timer.filter /\ timer.filter \in Filters
    BY <1>1, <1>5 DEF DebounceFires, Timer
  <2> QED BY <1>1, <2>1, ReloadKeepsRows
<1> QED BY <1>2, <1>3, <1>4, <1>5

(* Every step.                                                             *)
LEMMA RowsStep == RowsInv /\ [Next]_vars => RowsInv'
<1> SUFFICES ASSUME RowsInv, [Next]_vars PROVE RowsInv'
  OBVIOUS
<1>1. CASE User
  BY <1>1, ReloadsKeepRows, InputKeepsRows, ResetKeepsRows, StartCopyKeepsRows DEF User
<1>2. CASE Draw
  BY <1>2, RenderKeepsRows DEF Draw
<1>3. CASE Timers
  BY <1>3, ReloadsKeepRows, FlushKeepsRows DEF Timers
<1>4. ASSUME NEW key \in Keys, LoadStep(key) PROVE RowsInv'
  BY <1>4, LoadLandsKeepsRows, LoadFailsKeepsRows DEF LoadStep
<1>5. ASSUME NEW e \in 1 .. MaxEpoch, ReloadStep(e) PROVE RowsInv'
  BY <1>5, ReloadStepsKeepRows
<1>6. CASE UNCHANGED vars
  <2>1. /\ UNCHANGED <<view, total, epoch, snapshots, reload, cache, recency, failed, scheduled,
                       loads, publishOn, flush, visible, copy, loading, countPending, timer, memo,
                       counting>>
    BY <1>6 DEF vars, rowVars, chunkVars, epochVars
  <2>2. TypeOK' /\ RecencyInv'
    BY <2>1 DEF RowsInv, TypeOK, RowsTypeOK, RecencyInv
  <2>3. ListedCurrent' /\ CopyInv'
    BY <2>1, RequestsStay DEF RowsInv, InWindow
  <2> QED BY <2>2, <2>3 DEF RowsInv
<1> QED BY <1>1, <1>2, <1>3, <1>4, <1>5, <1>6 DEF Next

LEMMA RowsAlways == Spec => []RowsInv
  BY RowsStart, RowsStep, PTL DEF Spec

(* Everything the grid and its queries keep has its type.                  *)
THEOREM GridAlwaysTyped == Spec => []TypeOK
<1>1. RowsInv => TypeOK
  BY DEF RowsInv
<1> QED BY <1>1, RowsAlways, PTL

(* The recency order lists exactly the cached chunks, each once, and there *)
(* are never more of them than the cap (virtualRows.svelte.ts,             *)
(* touchRecency and evictIfOverCap).                                       *)
THEOREM RecencyAlwaysTracksCache == Spec => []RecencyTracksCache
<1>1. RowsInv => RecencyTracksCache
  <2> SUFFICES ASSUME RowsInv PROVE RecencyTracksCache
    OBVIOUS
  <2>1. Lists(recency, Cached(cache)) /\ Cardinality(Cached(cache)) <= MaxCachedChunks
    BY DEF RowsInv, RecencyInv
  <2>2. Cached(cache) \in SUBSET Chunks
    BY DEF Cached
  <2>3. Len(recency) = Cardinality(Cached(cache)) /\ DOMAIN recency = 1 .. Cardinality(Cached(cache))
    BY <2>1, <2>2, ChunksFinite, ListIsSeq
  <2>4. {recency[i] : i \in DOMAIN recency} = Cached(cache)
    BY <2>1, <2>3 DEF Lists
  <2> QED BY <2>1, <2>3, <2>4 DEF RecencyTracksCache
<1> QED BY <1>1, RowsAlways, PTL

(* A copy of several chunks that was not begun while a reload waited for   *)
(* its cancel never ends for want of rows that were loaded                 *)
(* (virtualRows.svelte.ts, getVisibleRows), whatever its loads evict, and  *)
(* however many workers share them.                                        *)
THEOREM CopyAlwaysComplete == Spec => []CopyComplete
<1>1. RowsInv => CopyComplete
  BY DEF RowsInv, CopyInv
<1> QED BY <1>1, RowsAlways, PTL
=============================================================================
