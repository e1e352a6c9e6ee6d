--------------------------- MODULE ParquetProofs ---------------------------
(***************************************************************************)
(* One open Parquet, CSV or JSON file, for any number of readers and SQL   *)
(* threads, any rows, filters and sorts, and any number of cancels, errors *)
(* and crashes.                                                            *)
(***************************************************************************)
EXTENDS ParquetSession, ListingProofs

---------------------------------------------------------------------------
(* Orders.                                                                 *)

(* The orders of the views are strict on the rows.                         *)
LEMMA ViewOrderIsStrict ==
  ASSUME NEW sort, NEW S \in SUBSET Rows
  PROVE  StrictOrder(ViewOrder(sort), S)
  <1>1. \A row \in Rows : Rank(row) \in Nat /\ row \in Nat
    BY ParquetAssumption DEF Rank, Rows
  <1>2. \A a, b \in Rows : <<a, b>> \in ViewOrder(sort) <=> Before(sort, a, b)
    BY DEF ViewOrder
  <1>3. \A a \in Rows : ~Before(sort, a, a)
    BY <1>1 DEF Before, order_by
  <1>4. \A a, b, c \in Rows : Before(sort, a, b) /\ Before(sort, b, c) => Before(sort, a, c)
    BY <1>1 DEF Before, order_by
  <1>5. \A a, b \in Rows : a # b => Before(sort, a, b) \/ Before(sort, b, a)
    BY <1>1 DEF Before, order_by
  <1> QED
    BY <1>2, <1>3, <1>4, <1>5 DEF StrictOrder

(* A filter selects finitely many rows, the empty one all of them.         *)
LEMMA MatchesFinite ==
  /\ \A S \in SUBSET Rows : IsFiniteSet(S)
  /\ Cardinality(Matches[NoFilter]) = NRows
  <1>1. IsFiniteSet(Rows) /\ Cardinality(Rows) = NRows
    BY ParquetAssumption, FS_Interval DEF Rows
  <1> QED
    BY <1>1, FS_Subset, ParquetAssumption

(* A view lists the rows its filter selects.                               *)
LEMMA ViewLists ==
  ASSUME NEW key \in ViewKey
  PROVE  /\ Lists(ViewOf[key], Matches[key.filter])
         /\ Cardinality(Matches[key.filter]) \in Nat
         /\ Matches[key.filter] \in SUBSET Rows
  <1>1. Matches[key.filter] \in SUBSET Rows
    BY ParquetAssumption DEF ViewKey
  <1>2. IsFiniteSet(Matches[key.filter])
    BY <1>1, MatchesFinite
  <1>3. ViewOf[key] = InOrder(Matches[key.filter], ViewOrder(key.sort))
    BY DEF ViewOf
  <1>4. Cardinality(Matches[key.filter]) \in Nat
    BY <1>2, FS_CardinalityType
  <1> QED
    BY <1>1, <1>2, <1>3, <1>4, ViewOrderIsStrict, InOrderLists

LEMMA ViewLength ==
  ASSUME NEW key \in ViewKey
  PROVE  Len(ViewOf[key]) = Cardinality(Matches[key.filter])
  BY ViewLists DEF Lists

(* A page holds different rows of the view.                                *)
LEMMA PageLists ==
  ASSUME NEW key \in ViewKey, NEW offset \in Nat, NEW limit \in Nat
  PROVE  LET chunk == Page(ViewOf[key], offset, limit)
         IN \E k \in Nat :
              /\ chunk \in [1 .. k -> Range(chunk)]
              /\ \A i, j \in 1 .. k : chunk[i] = chunk[j] => i = j
              /\ Range(chunk) \in SUBSET Rows
  <1> DEFINE view == ViewOf[key]
             S == Matches[key.filter]
             n == Cardinality(S)
             last == Least(offset + limit, n)
             k == IF last > offset THEN last - offset ELSE 0
             chunk == Page(view, offset, limit)
  <1>1. /\ n \in Nat /\ S \in SUBSET Rows /\ view \in [1 .. n -> S]
        /\ \A i, j \in 1 .. n : view[i] = view[j] => i = j
    BY ViewLists DEF Lists
  <1>2. Len(view) = n
    BY <1>1
  <1>3. last \in Nat /\ k \in Nat /\ last <= n
    BY <1>1 DEF Least
  <1>4. chunk = SubSeq(view, offset + 1, last)
    BY <1>2 DEF Page
  <1>5. view \in Seq(S)
    BY <1>1
  <1> HIDE DEF last, n, view, S
  <1>6. chunk = [i \in 1 .. k |-> view[offset + i]]
    <2>1. chunk = [i \in 1 .. (last - (offset + 1)) + 1 |-> view[i + (offset + 1) - 1]]
      BY <1>2, <1>3, <1>4, <1>5
    <2>2. 1 .. (last - (offset + 1)) + 1 = 1 .. k
      BY <1>3
    <2> QED
      BY <1>3, <2>1, <2>2
  <1>7. \A i \in 1 .. k : offset + i \in 1 .. n
    BY <1>1, <1>3
  <1> HIDE DEF k, chunk
  <1>8. DOMAIN chunk = 1 .. k /\ chunk \in [1 .. k -> Range(chunk)]
    BY <1>6 DEF Range
  <1>9. ASSUME NEW i \in 1 .. k, NEW j \in 1 .. k, chunk[i] = chunk[j]
        PROVE  i = j
    <2>1. view[offset + i] = view[offset + j]
      BY <1>6, <1>9
    <2>2. offset + i = offset + j
      BY <1>1, <1>7, <2>1
    <2> QED
      BY <1>3, <2>2
  <1>10. Range(chunk) \in SUBSET Rows
    BY <1>1, <1>6, <1>7, <1>8 DEF Range
  <1> QED
    BY <1>3, <1>8, <1>9, <1>10 DEF chunk, view

(* Rows put where a list has them are that list again.                     *)
ByPlace(R, place) == {ab \in R \X R : place[ab[1]] < place[ab[2]]}

LEMMA PlacedBack ==
  ASSUME NEW R, NEW k \in Nat, NEW chunk \in [1 .. k -> R],
         \A i, j \in 1 .. k : chunk[i] = chunk[j] => i = j,
         \A a \in R : \E i \in 1 .. k : chunk[i] = a,
         NEW place \in [R -> 1 .. k], \A a \in R : chunk[place[a]] = a
  PROVE  InOrder(R, ByPlace(R, place)) = chunk
  <1> DEFINE order == ByPlace(R, place)
             t == InOrder(R, order)
  <1>1. ASSUME NEW a \in R
        PROVE  place[a] \in 1 .. k /\ chunk[place[a]] = a
    BY <1>1
  <1>2. \A i \in 1 .. k : place[chunk[i]] = i
    BY <1>1
  <1>3. IsFiniteSet(1 .. k) /\ Cardinality(1 .. k) = k
    BY FS_Interval
  <1>4. chunk \in Surjection(1 .. k, R) /\ chunk \in Injection(1 .. k, R)
    BY DEF Surjection, Injection, IsInjective
  <1>5. IsFiniteSet(R) /\ Cardinality(R) = k
    BY <1>3, <1>4, FS_Surjection
  <1>6. \A a, b \in R : <<a, b>> \in order <=> place[a] < place[b]
    BY DEF ByPlace
  <1>7. \A a \in R : place[a] \in Nat
    BY <1>1
  <1>8. \A a, b \in R : place[a] = place[b] => a = b
    BY <1>1
  <1> HIDE DEF order
  <1>9. StrictOrder(order, R)
    <2>1. \A a \in R : <<a, a>> \notin order
      BY <1>6, <1>7
    <2>2. \A a, b, c \in R : <<a, b>> \in order /\ <<b, c>> \in order => <<a, c>> \in order
      BY <1>6, <1>7
    <2>3. \A a, b \in R : a # b => <<a, b>> \in order \/ <<b, a>> \in order
      BY <1>6, <1>7, <1>8
    <2> QED
      BY <2>1, <2>2, <2>3 DEF StrictOrder
  <1>10. ASSUME NEW i \in 1 .. k
         PROVE  \E c \in R : Cardinality(Preceding(c, R, order)) = i - 1
    <2>1. i \in 1 .. Cardinality(R)
      BY <1>5
    <2>2. IsFiniteSet(R)
      BY <1>5
    <2>3. \A j \in 1 .. Cardinality(R) : \E c \in R : Cardinality(Preceding(c, R, order)) = j - 1
      BY <1>9, <2>2, SomeElementHasPlace
    <2> QED
      BY <2>1, <2>3
  <1>11. ASSUME NEW i \in 1 .. k
         PROVE  t[i] = chunk[i]
    <2> DEFINE a == t[i]
               p == place[a]
               before == Preceding(a, R, order)
               to == [j \in 1 .. p - 1 |-> chunk[j]]
    <2>1. t[i] = CHOOSE c \in R : Cardinality(Preceding(c, R, order)) = i - 1
      BY <1>5 DEF InOrder
    <2>2. \E c \in R : Cardinality(Preceding(c, R, order)) = i - 1
      BY <1>10
    <2>3. a \in R /\ Cardinality(before) = i - 1
      BY <2>1, <2>2
    <2>4. p \in 1 .. k /\ chunk[p] = a
      BY <1>1, <2>3
    <2> HIDE DEF a, p
    <2>5. before = {b \in R : place[b] < p}
      BY <1>6, <2>3 DEF p, Preceding
    <2>6. \A j \in 1 .. p - 1 : j \in 1 .. k /\ chunk[j] \in before
      BY <1>2, <2>4, <2>5
    <2>7. \A b \in before : place[b] \in 1 .. p - 1 /\ chunk[place[b]] = b
      BY <1>1, <1>7, <2>4, <2>5
    <2> HIDE DEF before
    <2>8. to \in Surjection(1 .. p - 1, before)
      BY <2>6, <2>7 DEF Surjection
    <2>9. to \in Injection(1 .. p - 1, before)
      BY <2>6 DEF Injection, IsInjective
    <2>10. IsFiniteSet(1 .. p - 1) /\ Cardinality(1 .. p - 1) = p - 1
      <3>1. PICK q \in Nat : q = p - 1
        BY <2>4
      <3>2. IsFiniteSet(1 .. q) /\ Cardinality(1 .. q) = q
        BY FS_Interval
      <3> QED
        BY <3>1, <3>2
    <2>11. Cardinality(before) = p - 1
      BY <2>8, <2>9, <2>10, FS_Surjection
    <2>12. p = i
      BY <2>3, <2>4, <2>11
    <2> QED
      BY <2>4, <2>12 DEF a
  <1>12. t \in [1 .. k -> R]
    BY <1>5, <1>9, InOrderLists DEF Lists
  <1> HIDE DEF t
  <1> QED
    BY <1>11, <1>12 DEF t, order

(* What listed_page makes of the rows it scanned is the page.              *)
LEMMA ChunkPlaced ==
  ASSUME NEW key \in ViewKey, NEW offset \in Nat, NEW limit \in Nat
  PROVE  Placed(Page(ViewOf[key], offset, limit)) = Page(ViewOf[key], offset, limit)
  <1> DEFINE chunk == Page(ViewOf[key], offset, limit)
             R == Range(chunk)
             scanned == InOrder(R, ViewOrder("none"))
             place == [n \in R |-> CHOOSE i \in DOMAIN chunk : chunk[i] = n]
  <1>1. PICK k \in Nat :
          /\ chunk \in [1 .. k -> R]
          /\ \A i, j \in 1 .. k : chunk[i] = chunk[j] => i = j
          /\ R \in SUBSET Rows
    BY PageLists
  <1> HIDE DEF chunk
  <1>2. \A a \in R : \E i \in 1 .. k : chunk[i] = a
    BY <1>1 DEF Range
  <1>3. place \in [R -> 1 .. k] /\ \A a \in R : chunk[place[a]] = a
    BY <1>1, <1>2
  <1>4. Lists(scanned, R)
    BY <1>1, MatchesFinite, ViewOrderIsStrict, InOrderLists
  <1> HIDE DEF scanned, place, R
  <1>5. Range(scanned) = R
    <2>1. DOMAIN scanned = 1 .. Cardinality(R)
      BY <1>4 DEF Lists
    <2> QED
      BY <1>4, <2>1 DEF Lists, Range
  <1>6. InOrder(R, ByPlace(R, place)) = chunk
    BY <1>1, <1>2, <1>3, PlacedBack
  <1> QED
    BY <1>5, <1>6 DEF Placed, ByPlace, scanned, place, R, chunk

---------------------------------------------------------------------------
(* The inductive invariant.                                                *)

(* The phases of a reader that holds the browse mutex; on the last ones    *)
(* it works with a view.                                                   *)
ViewPhases == {"scan", "listed", "chunk", "attach", "drop", "build", "tally",
               "sorted page", "sorted error"}
BrowsePhases == {"range", "offset", "offset count", "count"} \cup ViewPhases
SelectPhases == {"describe", "generation", "rows"}
SqlPhases == {"lock", "classify"} \cup SelectPhases
Errors == {"failed", "INTERRUPT", "cancelled"}
Phases == {"idle", "check", "lock"} \cup BrowsePhases \cup SqlPhases

ReaderRequest == [op : {"page", "count"}, filter : Filters \cup {BadFilter}, sort : Sorts,
                  offset : Nat, limit : Limits]

SessionTypes ==
  /\ cast \in Casts /\ life \in {"none", "open", "closed"}
  /\ generation \in Nat /\ faults \in Nat /\ crashes \in Nat
  /\ pc \in [Threads -> Phases] /\ req \in [Threads -> ReaderRequest \cup SqlRequest \cup {NoRequest}]
  /\ gen \in [Threads -> Nat] /\ err \in [Threads -> {"none"} \cup Errors] /\ shown \in [Threads -> Nat]

(* A reader is somewhere in its request, on the path the request takes.    *)
OnPath(r) ==
  /\ pc[r] \in {"idle", "check", "lock"} \cup BrowsePhases
  /\ pc[r] # "idle" => req[r] \in ReaderRequest /\ (req[r].op = "count" => req[r].sort = "none")
  /\ pc[r] \notin {"idle", "check"} => req[r].filter \in Filters
  /\ pc[r] = "range" => row_numbers(file) /\ req[r].sort = "none" /\ req[r].filter = NoFilter
  /\ pc[r] \in {"offset", "offset count"} => ~row_numbers(file)
  /\ pc[r] = "count" => req[r].op = "count"
  /\ pc[r] \in ViewPhases => row_numbers(file)

(* A thread of the SQL tab is somewhere in its statement, and has shown no *)
(* row of any but a single SELECT.                                         *)
InStatement(s) ==
  /\ pc[s] \in {"idle"} \cup SqlPhases
  /\ pc[s] # "idle" => req[s] \in SqlRequest
  /\ pc[s] \in SelectPhases => req[s].op = "execute" /\ req[s].verdict = "ok"
  /\ IF pc[s] = "rows" THEN shown[s] <= req[s].size /\ shown[s] <= SqlResultLimit
     ELSE shown[s] = 0

RequestInv == (\A r \in Readers : OnPath(r)) /\ (\A s \in SqlThreads : InStatement(s))

(* The browse mutex.                                                       *)
MutexInv == \A r \in Readers : pc[r] \in BrowsePhases <=> browse = r

(* What the holder of the mutex may rely on: a rebuild has forgotten the   *)
(* active view before it touches the table, and fills it for its request.  *)
Relies(r) ==
  /\ pc[r] \in {"scan", "attach", "drop", "build", "tally"} => active = NoView
  /\ pc[r] \in {"drop", "build", "tally"} => attached
  /\ pc[r] = "tally" => table = KeyOf(req[r])
  /\ pc[r] \in {"listed", "chunk"} => active.kind = "Listed" /\ active.key = KeyOf(req[r])
  /\ pc[r] = "sorted page" => active.kind = "Sorted" /\ active.key = KeyOf(req[r])

ViewInv == ActiveViewWhole /\ (\A r \in Readers : Relies(r))

(* Why a sort failed: a generation only grows, so a cancelled build stays  *)
(* one that was cancelled until its thread looks at the error.             *)
Failed(r) ==
  pc[r] = "sorted error" =>
    /\ err[r] \in {"failed", "INTERRUPT", "cancelled"}
    /\ err[r] = "failed" => faults > 0
    /\ err[r] = "cancelled" => gen[r] < generation

FailureInv ==
  /\ \A t \in Threads : gen[t] <= generation
  /\ CacheGivenUpForFailure
  /\ \A r \in Readers : Failed(r)

(* A closed session is held by some thread, and none is left without one.  *)
LifeInv ==
  /\ life = "closed" => \E t \in Threads : pc[t] # "idle"
  /\ life = "none" => (\A t \in Threads : pc[t] = "idle") /\ (disk # {} => crashes > 0)

ParquetInv ==
  SessionTypes /\ RequestInv /\ MutexInv /\ ViewInv /\ FailureInv /\ LifeInv
    /\ ProgressOfABuild /\ OneReading

---------------------------------------------------------------------------
(* The kinds of steps: a thread answers, a reader goes on, a thread of the *)
(* SQL tab goes on.                                                        *)

Answers(t) ==
  /\ pc[t] \notin {"idle", "build"} /\ pc' = [pc EXCEPT ![t] = "idle"]
  /\ browse' = (IF browse = t THEN Nobody ELSE browse)
  /\ err' = [err EXCEPT ![t] = "none"] /\ shown' = [shown EXCEPT ![t] = 0]
  /\ req' = [req EXCEPT ![t] = NoRequest] /\ gen' = [gen EXCEPT ![t] = 0]
  /\ UNCHANGED <<cast, fileVars, generation, building, crashes, sort_cache_failed>>
  /\ faults' \in {faults, faults + 1}
  /\ LetGo(t)

(* How a reader's phases follow each other.                                *)
Advances(r, to) ==
  \/ pc[r] = "check" /\ to = "lock" /\ req[r].filter # BadFilter /\ browse' = browse
  \/ pc[r] = "lock" /\ to = Path(r) /\ browse = Nobody /\ browse' = r
  \/ pc[r] = "offset" /\ to = "offset count" /\ browse' = browse
  \/ pc[r] \in ViewPhases /\ to \in ViewPhases /\ browse' = browse

GoesOn(r) ==
  /\ \E to \in Phases : Advances(r, to) /\ pc' = [pc EXCEPT ![r] = to]
  /\ gen' = gen \/ gen' = [gen EXCEPT ![r] = generation]
  /\ err' = err \/ (\E why \in {"none"} \cup Errors : err' = [err EXCEPT ![r] = why])
  /\ faults' \in {faults, faults + 1}
  /\ Working(r)

SqlGoesOn(s) ==
  /\ pc[s] # "idle" /\ (\E to \in SqlPhases : pc' = [pc EXCEPT ![s] = to])
  /\ gen' = gen \/ gen' = [gen EXCEPT ![s] = generation]
  /\ shown' = shown \/ shown' = [shown EXCEPT ![s] = @ + 1]
  /\ UNCHANGED <<req, faults>>
  /\ SqlStep(s)

LEMMA PathIsPhase ==
  ASSUME NEW r
  PROVE  /\ Path(r) \in BrowsePhases
         /\ Path(r) = "range" => row_numbers(file) /\ req[r].sort = "none" /\ req[r].filter = NoFilter
         /\ Path(r) \in {"offset", "offset count"} => ~row_numbers(file)
         /\ Path(r) = "count" => req[r].op = "count"
         /\ Path(r) \in ViewPhases => row_numbers(file)
         /\ Path(r) \in {"scan", "attach", "drop", "listed", "sorted page",
                         "range", "offset", "count"}
         /\ Path(r) = "drop" => attached
         /\ Path(r) = "listed" => active.kind = "Listed" /\ active.key = KeyOf(req[r])
         /\ Path(r) = "sorted page" => active.kind = "Sorted" /\ active.key = KeyOf(req[r])
  <1> DEFINE q == req[r]
             listed == KeyOf(q).sort = "none" \/ pages_from_a_list(file) \/ sort_cache_failed
  <1>1. CASE ~row_numbers(file)
    <2>1. Path(r) = IF q.op = "count" THEN "count" ELSE "offset"
      BY <1>1 DEF Path
    <2> QED
      BY <1>1, <2>1 DEF BrowsePhases, ViewPhases
  <1>2. CASE row_numbers(file) /\ q.op = "page" /\ q.sort = "none" /\ q.filter = NoFilter
    <2>1. Path(r) = "range"
      BY <1>2 DEF Path
    <2> QED
      BY <1>2, <2>1 DEF BrowsePhases, ViewPhases
  <1>3. CASE row_numbers(file) /\ ~(q.op = "page" /\ q.sort = "none" /\ q.filter = NoFilter)
    <2>1. \/ Path(r) = "listed" /\ active.kind = "Listed" /\ active.key = KeyOf(q)
          \/ Path(r) = "scan"
          \/ Path(r) = "sorted page" /\ active.kind = "Sorted" /\ active.key = KeyOf(q)
          \/ Path(r) = "drop" /\ attached
          \/ Path(r) = "attach"
      BY <1>3 DEF Path
    <2> QED
      BY <1>3, <2>1 DEF BrowsePhases, ViewPhases
  <1> QED
    BY <1>1, <1>2, <1>3

LEMMA EndsMean ==
  ASSUME NEW t, NEW conn, NEW checked \in BOOLEAN, NEW end \in Ends(t, conn, checked)
  PROVE  /\ end \in {"done", "failed", "INTERRUPT", "cancelled"}
         /\ end = "cancelled" => checked /\ generation # gen[t]
  BY DEF Ends

LEMMA CountedMeans ==
  ASSUME NEW end, Counted(end), faults \in Nat
  PROVE  /\ faults' \in {faults, faults + 1} /\ faults' \in Nat
         /\ end = "failed" => faults' > 0
  BY DEF Counted

(* Every step of a reader answers or goes on.                              *)
LEMMA ReaderAnswersOrGoesOn ==
  ASSUME SessionTypes, NEW r \in Readers, ReaderStep(r)
  PROVE  Answers(r) \/ GoesOn(r)
  <1> USE DEF Goto
  <1>0. faults \in Nat /\ pc \in [Threads -> Phases] /\ r \in Threads
    BY DEF SessionTypes, Threads
  <1>1. CASE Refuse(r)
    BY <1>0, <1>1 DEF Refuse, Answer, Answers
  <1>2. CASE CountAll(r)
    BY <1>0, <1>2 DEF CountAll, Answer, Answers
  <1>3. CASE Check(r)
    <2>1. Advances(r, "lock") /\ pc' = [pc EXCEPT ![r] = "lock"] /\ Working(r)
          /\ UNCHANGED <<faults, err>> /\ gen' = [gen EXCEPT ![r] = generation]
      BY <1>3 DEF Check, Advances
    <2> QED
      BY <2>1 DEF GoesOn, Phases, BrowsePhases, ViewPhases
  <1>4. CASE Acquire(r)
    <2>1. Advances(r, Path(r)) /\ pc' = [pc EXCEPT ![r] = Path(r)] /\ Working(r)
          /\ UNCHANGED <<faults, err>> /\ gen' \in {gen, [gen EXCEPT ![r] = generation]}
      BY <1>4 DEF Acquire, Advances
    <2> QED
      BY <2>1, PathIsPhase DEF GoesOn, Phases, BrowsePhases, ViewPhases
  <1>5. CASE RangePage(r)
    <2>1. PICK end, answer :
            Answer(r, "range", answer) /\ Counted(end) /\ LetGo(r) /\ UNCHANGED sort_cache_failed
      BY <1>5 DEF RangePage
    <2> QED
      BY <1>0, <2>1, CountedMeans DEF Answer, Answers
  <1>6. CASE offset_page(r)
    <2>1. PICK end \in Ends(r, "browse", TRUE) :
      \/ /\ end # "done"
         /\ Answer(r, "offset", Failure(r))
         /\ Counted(end) /\ LetGo(r) /\ UNCHANGED <<sort_cache_failed, hit>>
      \/ /\ end = "done"
         /\ Goto(r, "offset", "offset count")
         /\ UNCHANGED <<browse, faults, gen, err>>
         /\ Working(r)
      BY <1>6 DEF offset_page
    <2>2. CASE end # "done"
      BY <1>0, <2>1, <2>2, CountedMeans DEF Answer, Answers
    <2>3. CASE end = "done"
      <3>1. Advances(r, "offset count")
        BY <2>1, <2>3 DEF Advances
      <3> QED
        BY <2>1, <2>3, <3>1 DEF GoesOn, Phases, BrowsePhases, ViewPhases
    <2> QED
      BY <2>2, <2>3
  <1>7. CASE OffsetCount(r)
    <2>1. PICK end, answer :
            Answer(r, "offset count", answer) /\ Counted(end) /\ LetGo(r) /\ UNCHANGED sort_cache_failed
      BY <1>7 DEF OffsetCount
    <2> QED
      BY <1>0, <2>1, CountedMeans DEF Answer, Answers
  <1>8. CASE count_where(r)
    <2>1. PICK end, answer :
            Answer(r, "count", answer) /\ Counted(end) /\ LetGo(r) /\ UNCHANGED sort_cache_failed
      BY <1>8 DEF count_where
    <2> QED
      BY <1>0, <2>1, CountedMeans DEF Answer, Answers
  <1>9. CASE ensure_listed(r)
    <2>1. PICK end \in Ends(r, "browse", TRUE) :
      \/ /\ end # "done"
         /\ Answer(r, "scan", Failure(r))
         /\ Counted(end) /\ LetGo(r) /\ UNCHANGED <<sort_cache_failed, hit>>
      \/ /\ end = "done"
         /\ Goto(r, "scan", "listed")
         /\ UNCHANGED <<browse, faults, gen, err>>
         /\ Working(r)
      BY <1>9 DEF ensure_listed
    <2>2. CASE end # "done"
      BY <1>0, <2>1, <2>2, CountedMeans DEF Answer, Answers
    <2>3. CASE end = "done"
      <3>1. Advances(r, "listed")
        BY <2>1, <2>3 DEF Advances, ViewPhases
      <3> QED
        BY <2>1, <2>3, <3>1 DEF GoesOn, Phases, BrowsePhases, ViewPhases
    <2> QED
      BY <2>2, <2>3
  <1>10. CASE Listed(r)
    <2>1. \/ Answers(r)
          \/ Goto(r, "listed", "chunk") /\ UNCHANGED <<browse, faults, gen, err>> /\ Working(r)
      BY <1>0, <1>10 DEF Listed, Answer, Answers
    <2>2. CASE Goto(r, "listed", "chunk") /\ UNCHANGED <<browse, faults, gen, err>> /\ Working(r)
      <3>1. Advances(r, "chunk")
        BY <2>2 DEF Advances, ViewPhases
      <3> QED
        BY <2>2, <3>1 DEF GoesOn, Phases, BrowsePhases, ViewPhases
    <2> QED
      BY <2>1, <2>2
  <1>11. CASE listed_page(r)
    <2>1. PICK end, answer :
            Answer(r, "chunk", answer) /\ Counted(end) /\ LetGo(r) /\ UNCHANGED sort_cache_failed
      BY <1>11 DEF listed_page
    <2> QED
      BY <1>0, <2>1, CountedMeans DEF Answer, Answers
  <1>12. ASSUME NEW to \in ViewPhases, NEW from \in ViewPhases, Goto(r, from, to),
                err' = err \/ (\E why \in {"none"} \cup Errors : err' = [err EXCEPT ![r] = why]),
                faults' \in {faults, faults + 1}, UNCHANGED <<browse, gen>>, Working(r)
         PROVE  GoesOn(r)
    <2>1. Advances(r, to) 
      BY <1>12 DEF Advances, ViewPhases
    <2> QED
      BY <1>12, <2>1 DEF GoesOn, Phases, BrowsePhases, ViewPhases
  <1>13. \A from, to : from \in ViewPhases /\ to \in ViewPhases /\ Goto(r, from, to)
           /\ (err' = err \/ (\E why \in {"none"} \cup Errors : err' = [err EXCEPT ![r] = why]))
           /\ faults' \in {faults, faults + 1} /\ UNCHANGED <<browse, gen>> /\ Working(r) => GoesOn(r)
    BY <1>12
  <1>14. CASE Attach(r)
    <2>1. PICK end \in Ends(r, "browse", FALSE) :
            /\ \/ end # "done" /\ SortFails(r, "attach", end) /\ Counted(end)
               \/ Goto(r, "attach", "drop") /\ UNCHANGED <<faults, err>>
            /\ UNCHANGED <<browse, gen>> /\ Working(r)
      BY <1>14 DEF Attach
    <2> QED
      BY <1>0, <1>13, <2>1, EndsMean, CountedMeans DEF SortFails, ViewPhases, Errors
  <1>15. CASE DropOld(r)
    <2>1. PICK end \in Ends(r, "browse", FALSE) :
            /\ \/ end # "done" /\ SortFails(r, "drop", end) /\ Counted(end)
               \/ Goto(r, "drop", "build") /\ UNCHANGED <<faults, err>>
            /\ UNCHANGED <<browse, gen>> /\ Working(r)
      BY <1>15 DEF DropOld
    <2> QED
      BY <1>0, <1>13, <2>1, EndsMean, CountedMeans DEF SortFails, ViewPhases, Errors
  <1>16. CASE Build(r)
    <2>1. PICK end \in Ends(r, "builder", FALSE) :
            /\ \/ end # "done"
                 /\ SortFails(r, "build", IF generation # gen[r] THEN "cancelled" ELSE end)
               \/ Goto(r, "build", "tally") /\ UNCHANGED err
            /\ Counted(end) /\ UNCHANGED <<browse, gen>> /\ Working(r)
      BY <1>16 DEF Build, BuildEnds
    <2> QED
      BY <1>0, <1>13, <2>1, EndsMean, CountedMeans DEF SortFails, ViewPhases, Errors
  <1>17. CASE Tally(r)
    <2>1. PICK end \in Ends(r, "browse", FALSE) :
            /\ \/ end # "done" /\ SortFails(r, "tally", end) /\ Counted(end)
               \/ Goto(r, "tally", "sorted page") /\ UNCHANGED <<faults, err>>
            /\ UNCHANGED <<browse, gen>> /\ Working(r)
      BY <1>17 DEF Tally
    <2> QED
      BY <1>0, <1>13, <2>1, EndsMean, CountedMeans DEF SortFails, ViewPhases, Errors
  <1>18. CASE sorted_page(r)
    <2>1. PICK end \in Ends(r, "browse", TRUE) :
      \/ /\ end # "done" /\ SortFails(r, "sorted page", end)
         /\ Counted(end) /\ UNCHANGED <<browse, gen>> /\ Working(r)
      \/ /\ end = "done"
         /\ Answer(r, "sorted page",
              Checked(r, Page(ViewOf[table], req[r].offset, req[r].limit), active.count))
         /\ Counted(end) /\ LetGo(r) /\ UNCHANGED <<sort_cache_failed, hit>>
      BY <1>18 DEF sorted_page
    <2>2. CASE /\ end # "done" /\ SortFails(r, "sorted page", end)
               /\ Counted(end) /\ UNCHANGED <<browse, gen>> /\ Working(r)
      BY <1>0, <1>13, <2>2, EndsMean, CountedMeans DEF SortFails, ViewPhases, Errors
    <2> QED
      BY <1>0, <2>1, <2>2, CountedMeans DEF Answer, Answers
  <1>19. CASE FallBack(r)
    <2>1. /\ Goto(r, "sorted error", "scan") /\ err' = [err EXCEPT ![r] = "none"]
          /\ UNCHANGED <<browse, faults, gen>> /\ Working(r)
      BY <1>19 DEF FallBack
    <2> QED
      BY <1>13, <2>1 DEF ViewPhases
  <1>20. CASE SortStopped(r)
    BY <1>0, <1>20 DEF SortStopped, Answer, Answers
  <1> QED
    BY <1>1, <1>2, <1>3, <1>4, <1>5, <1>6, <1>7, <1>8, <1>9, <1>10, <1>11, <1>14, <1>15,
       <1>16, <1>17, <1>18, <1>19, <1>20 DEF ReaderStep

(* Every step of a thread of the SQL tab answers or goes on.               *)
LEMMA SqlAnswersOrGoesOn ==
  ASSUME SessionTypes, NEW s \in SqlThreads, SqlThreadStep(s)
  PROVE  Answers(s) \/ SqlGoesOn(s)
  <1> USE DEF Goto
  <1>0. faults \in Nat /\ pc \in [Threads -> Phases] /\ s \in Threads
    BY DEF SessionTypes, Threads
  <1>1. CASE SqlAcquire(s)
    BY <1>1 DEF SqlAcquire, SqlGoesOn, SqlPhases
  <1>2. CASE validate_sql(s)
    BY <1>0, <1>2 DEF validate_sql, SqlAnswer, Answer, Answers
  <1>3. CASE Classify(s)
    BY <1>0, <1>3 DEF Classify, SqlAnswer, Answer, Answers, SqlGoesOn, SqlPhases, SelectPhases
  <1>4. CASE Describe(s)
    <2>1. PICK end \in Ends(s, "sql", FALSE) :
      \/ /\ SqlAnswer(s, "describe", [status |-> "error", req |-> req[s], rows |-> 0])
         /\ Counted(end)
      \/ /\ Goto(s, "describe", "generation")
         /\ UNCHANGED <<req, gen, shown, faults>> /\ SqlStep(s)
      BY <1>4 DEF Describe
    <2> QED
      BY <1>0, <2>1, CountedMeans DEF SqlAnswer, Answer, Answers, SqlGoesOn, SqlPhases, SelectPhases
  <1>5. CASE ReadGeneration(s)
    BY <1>5 DEF ReadGeneration, SqlGoesOn, SqlPhases, SelectPhases
  <1>6. CASE SqlRow(s)
    <2>1. pc' = [pc EXCEPT ![s] = "rows"]
      BY <1>0, <1>6 DEF SqlRow
    <2> QED
      BY <1>6, <2>1 DEF SqlRow, SqlGoesOn, SqlPhases, SelectPhases
  <1>7. CASE execute_sql(s)
    <2>1. PICK answer : SqlAnswer(s, "rows", answer) /\ (UNCHANGED faults \/ \E end : Counted(end))
      BY <1>7 DEF execute_sql
    <2> QED
      BY <1>0, <2>1, CountedMeans DEF SqlAnswer, Answer, Answers
  <1> QED
    BY <1>1, <1>2, <1>3, <1>4, <1>5, <1>6, <1>7 DEF SqlThreadStep

(* The steps of one thread, and of the session's life.                     *)
ThreadStep(t) ==
  \/ t \in Readers /\ (Ask(t) \/ ReaderStep(t))
  \/ t \in SqlThreads /\ (AskSql(t) \/ SqlThreadStep(t))
LifeStep == Open \/ Bump \/ Interrupts \/ Close \/ Crash \/ sweep_stale_cache

LEMMA StepsAreOfAThreadOrOfTheLife ==
  ASSUME Next
  PROVE  (\E t \in Threads : ThreadStep(t)) \/ LifeStep
  BY DEF Next, ThreadStep, LifeStep, Threads

---------------------------------------------------------------------------
(* Types.                                                                  *)

LEMMA AskedIsRequest ==
  ASSUME SessionTypes
  PROVE  Request \subseteq ReaderRequest
  <1>1. cast.offsets \subseteq Nat
    BY ParquetAssumption DEF SessionTypes, CastType
  <1> QED
    BY <1>1 DEF Request, ReaderRequest

LEMMA LetGoKeepsTypes ==
  ASSUME NEW t, LetGo(t)
  PROVE  life' \in {life, "none"}
  BY DEF LetGo, DropSession, KeepSession

LEMMA TypesKept ==
  ASSUME SessionTypes, [Next]_vars
  PROVE  SessionTypes'
  <1> USE DEF SessionTypes
  <1>1. CASE UNCHANGED vars
    BY <1>1 DEF vars, fileVars, viewVars, threadVars
  <1>2. ASSUME NEW t \in Threads, ThreadStep(t)
        PROVE  SessionTypes'
    <2>1. CASE t \in Readers /\ Ask(t)
      <3>1. PICK q \in ReaderRequest : req' = [req EXCEPT ![t] = q]
        BY <2>1, AskedIsRequest DEF Ask
      <3>2. pc' = [pc EXCEPT ![t] = "check"] /\ "check" \in Phases
        BY <2>1 DEF Ask, Goto, Phases
      <3> QED
        BY <2>1, <3>1, <3>2 DEF Ask
    <2>2. CASE t \in SqlThreads /\ AskSql(t)
      <3>1. PICK q \in SqlRequest : req' = [req EXCEPT ![t] = q]
        BY <2>2 DEF AskSql
      <3>2. pc' = [pc EXCEPT ![t] = "lock"] /\ "lock" \in Phases
        BY <2>2 DEF AskSql, Goto, Phases
      <3> QED
        BY <2>2, <3>1, <3>2 DEF AskSql, SqlStep
    <2>3. CASE Answers(t)
      <3>1. life' \in {life, "none"}
        BY <2>3, LetGoKeepsTypes DEF Answers
      <3>2. pc' \in [Threads -> Phases]
        BY <2>3 DEF Answers, Phases
      <3>3. req' \in [Threads -> ReaderRequest \cup SqlRequest \cup {NoRequest}]
        BY <2>3 DEF Answers
      <3> QED
        BY <2>3, <3>1, <3>2, <3>3 DEF Answers
    <2>4. CASE t \in Readers /\ GoesOn(t)
      BY <2>4 DEF GoesOn, Working
    <2>5. CASE t \in SqlThreads /\ SqlGoesOn(t)
      <3>1. pc' \in [Threads -> Phases]
        BY <2>5 DEF SqlGoesOn, Phases
      <3> QED
        BY <2>5, <3>1 DEF SqlGoesOn, SqlStep
    <2> QED
      BY <1>2, <2>1, <2>2, <2>3, <2>4, <2>5, ReaderAnswersOrGoesOn, SqlAnswersOrGoesOn
      DEF ThreadStep
  <1>3. CASE LifeStep
    <2>1. CASE Crash
      <3>1. pc' \in [Threads -> Phases] /\ req' \in [Threads -> {NoRequest}]
        BY <2>1 DEF Crash, Phases
      <3> QED
        BY <2>1, <3>1 DEF Crash
    <2>2. CASE ~Crash
      <3>1. Around /\ life' \in {life, "none", "open", "closed"}
              /\ generation' \in {generation, generation + 1}
        BY <1>3, <2>2
        DEF LifeStep, Open, Bump, Interrupts, Interrupt, Close, sweep_stale_cache, DropSession
      <3> QED
        BY <3>1 DEF Around, threadVars
    <2> QED
      BY <2>1, <2>2
  <1> QED
    BY <1>1, <1>2, <1>3, StepsAreOfAThreadOrOfTheLife

---------------------------------------------------------------------------
(* The life of the session.                                                *)

(* A thread's step changes nothing of another thread's.                    *)
LEMMA StepIsLocal ==
  ASSUME SessionTypes, NEW t \in Threads, ThreadStep(t)
  PROVE  /\ \A u \in Threads : u # t =>
              /\ pc'[u] = pc[u] /\ req'[u] = req[u] /\ gen'[u] = gen[u]
              /\ err'[u] = err[u] /\ shown'[u] = shown[u]
         /\ UNCHANGED <<cast, fileVars, generation, crashes>>
  <1> USE DEF SessionTypes
  <1>1. CASE t \in Readers /\ Ask(t)
    BY <1>1 DEF Ask, Goto
  <1>2. CASE t \in SqlThreads /\ AskSql(t)
    BY <1>2 DEF AskSql, Goto, SqlStep
  <1>3. CASE Answers(t)
    BY <1>3 DEF Answers
  <1>4. CASE t \in Readers /\ GoesOn(t)
    BY <1>4 DEF GoesOn, Working
  <1>5. CASE t \in SqlThreads /\ SqlGoesOn(t)
    BY <1>5 DEF SqlGoesOn, SqlStep
  <1> QED
    BY <1>1, <1>2, <1>3, <1>4, <1>5, ReaderAnswersOrGoesOn, SqlAnswersOrGoesOn DEF ThreadStep

(* The step of a thread at work: it asks an open session, or is within its *)
(* request before the step and after it.                                   *)
LEMMA WorkingStep ==
  ASSUME SessionTypes, NEW t \in Threads, ThreadStep(t), ~Answers(t)
  PROVE  /\ pc[t] # "idle" \/ life = "open"
         /\ pc'[t] # "idle" /\ life' = life
  <1> USE DEF SessionTypes
  <1>1. CASE t \in Readers /\ Ask(t)
    BY <1>1 DEF Ask, Goto
  <1>2. CASE t \in SqlThreads /\ AskSql(t)
    BY <1>2 DEF AskSql, Goto, SqlStep
  <1>3. CASE t \in Readers /\ GoesOn(t)
    <2>1. \A to : Advances(t, to) => pc[t] # "idle" /\ to # "idle"
      BY PathIsPhase DEF Advances, ViewPhases, BrowsePhases
    <2> QED
      BY <1>3, <2>1 DEF GoesOn, Working
  <1>4. CASE t \in SqlThreads /\ SqlGoesOn(t)
    BY <1>4 DEF SqlGoesOn, SqlStep, SqlPhases, SelectPhases
  <1> QED
    BY <1>1, <1>2, <1>3, <1>4, ReaderAnswersOrGoesOn, SqlAnswersOrGoesOn DEF ThreadStep

LEMMA LifeKept ==
  ASSUME SessionTypes, LifeInv, [Next]_vars
  PROVE  LifeInv'
  <1> USE DEF LifeInv, SessionTypes
  <1>1. CASE UNCHANGED vars
    BY <1>1 DEF vars, threadVars
  <1>2. ASSUME NEW t \in Threads, Answers(t)
        PROVE  LifeInv'
    <2>1. /\ pc' = [pc EXCEPT ![t] = "idle"] /\ LetGo(t) /\ crashes' = crashes /\ pc[t] # "idle"
      BY <1>2 DEF Answers
    <2>2. CASE life = "closed" /\ \A u \in Threads \ {t} : pc[u] = "idle"
      BY <2>1, <2>2 DEF LetGo, DropSession
    <2>3. CASE ~(life = "closed" /\ \A u \in Threads \ {t} : pc[u] = "idle")
      BY <2>1, <2>3 DEF LetGo, KeepSession
    <2> QED
      BY <2>2, <2>3
  <1>3. ASSUME NEW t \in Threads, ThreadStep(t), ~Answers(t)
        PROVE  LifeInv'
    BY <1>3, WorkingStep
  <1>4. CASE Open
    BY <1>4 DEF Open, Around, threadVars
  <1>5. CASE Bump
    BY <1>5 DEF Bump, Around, threadVars
  <1>6. CASE Interrupts
    BY <1>6 DEF Interrupts, Interrupt, Around, threadVars
  <1>7. CASE Close
    BY <1>7 DEF Close, Around, threadVars, DropSession
  <1>8. CASE Crash
    BY <1>8 DEF Crash
  <1>9. CASE sweep_stale_cache
    BY <1>9 DEF sweep_stale_cache, Around, threadVars
  <1> QED
    BY <1>1, <1>2, <1>3, <1>4, <1>5, <1>6, <1>7, <1>8, <1>9, StepsAreOfAThreadOrOfTheLife
    DEF LifeStep

(* Both readers of the file are chosen when it is opened.                  *)
LEMMA ReadingKept ==
  ASSUME SessionTypes, LifeInv, OneReading, [Next]_vars
  PROVE  OneReading'
  <1> USE DEF OneReading
  <1>1. CASE UNCHANGED vars
    BY <1>1 DEF vars, fileVars
  <1>2. ASSUME NEW t \in Threads, ThreadStep(t)
        PROVE  OneReading'
    <2>1. UNCHANGED fileVars
      BY <1>2, StepIsLocal
    <2>2. life = "none" => life' = "none"
      <3>1. CASE Answers(t)
        BY <3>1, LetGoKeepsTypes DEF Answers
      <3>2. CASE ~Answers(t)
        BY <1>2, <3>2, WorkingStep DEF LifeInv
      <3> QED
        BY <3>1, <3>2
    <2> QED
      BY <2>1, <2>2 DEF fileVars
  <1>3. CASE Open
    BY <1>3 DEF Open, SqlReader
  <1>4. CASE LifeStep /\ ~Open
    BY <1>4 DEF LifeStep, Bump, Interrupts, Interrupt, Close, Crash, sweep_stale_cache, fileVars,
               DropSession, LifeInv
  <1> QED
    BY <1>1, <1>2, <1>3, <1>4, StepsAreOfAThreadOrOfTheLife

---------------------------------------------------------------------------
(* Requests.                                                               *)

LEMMA ReaderKeepsPath ==
  ASSUME SessionTypes, NEW r \in Readers, OnPath(r), Ask(r) \/ ReaderStep(r)
  PROVE  OnPath(r)'
  <1>0. r \in Threads /\ pc \in [Threads -> Phases]
          /\ req \in [Threads -> ReaderRequest \cup SqlRequest \cup {NoRequest}]
    BY DEF SessionTypes, Threads
  <1>1. CASE Ask(r)
    <2>1. PICK q \in ReaderRequest :
            /\ q.op = "count" => q.sort = "none"
            /\ req' = [req EXCEPT ![r] = q]
      BY <1>1, AskedIsRequest DEF Ask
    <2>2. pc'[r] = "check" /\ req'[r] = q
      BY <1>0, <1>1, <2>1 DEF Ask, Goto
    <2> QED
      BY <2>1, <2>2 DEF OnPath, ViewPhases
  <1>2. CASE Answers(r)
    <2>1. pc'[r] = "idle"
      BY <1>0, <1>2 DEF Answers
    <2> QED
      BY <2>1 DEF OnPath, ViewPhases
  <1>3. CASE GoesOn(r)
    <2>1. PICK to \in Phases : Advances(r, to) /\ pc' = [pc EXCEPT ![r] = to]
      BY <1>3 DEF GoesOn
    <2>2. pc'[r] = to /\ req' = req /\ file' = file
      BY <1>0, <1>3, <2>1 DEF GoesOn, Working, fileVars
    <2>3. CASE pc[r] = "check" /\ to = "lock" /\ req[r].filter # BadFilter
      <3>1. req[r] \in ReaderRequest /\ req[r].filter \in Filters
        BY <2>3 DEF OnPath, ReaderRequest
      <3> QED
        BY <2>2, <2>3, <3>1 DEF OnPath, ViewPhases
    <2>4. CASE pc[r] = "lock" /\ to = Path(r)
      BY <2>2, <2>4, PathIsPhase DEF OnPath, ViewPhases, BrowsePhases
    <2>5. CASE pc[r] = "offset" /\ to = "offset count"
      BY <2>2, <2>5 DEF OnPath, ViewPhases, BrowsePhases
    <2>6. CASE pc[r] \in ViewPhases /\ to \in ViewPhases
      BY <2>2, <2>6 DEF OnPath, ViewPhases, BrowsePhases
    <2> QED
      BY <2>1, <2>3, <2>4, <2>5, <2>6 DEF Advances
  <1> QED
    BY <1>1, <1>2, <1>3, ReaderAnswersOrGoesOn

LEMMA SqlKeepsStatement ==
  ASSUME SessionTypes, NEW s \in SqlThreads, InStatement(s), AskSql(s) \/ SqlThreadStep(s)
  PROVE  InStatement(s)'
  <1> USE DEF Goto
  <1>0. /\ s \in Threads /\ pc \in [Threads -> Phases] /\ shown \in [Threads -> Nat]
        /\ req \in [Threads -> ReaderRequest \cup SqlRequest \cup {NoRequest}]
    BY DEF SessionTypes, Threads
  <1>1. CASE AskSql(s)
    <2>1. PICK q \in SqlRequest : req' = [req EXCEPT ![s] = q]
      BY <1>1 DEF AskSql
    <2>2. pc'[s] = "lock" /\ req'[s] = q /\ shown'[s] = 0
      BY <1>0, <1>1, <2>1 DEF AskSql, InStatement, SqlPhases, SelectPhases
    <2> QED
      BY <2>1, <2>2 DEF InStatement, SqlPhases, SelectPhases
  <1>2. CASE Answers(s)
    <2>1. pc'[s] = "idle" /\ shown'[s] = 0
      BY <1>0, <1>2 DEF Answers
    <2> QED
      BY <2>1 DEF InStatement, SqlPhases, SelectPhases
  <1>3. CASE SqlAcquire(s)
    BY <1>0, <1>3 DEF SqlAcquire, SqlStep, InStatement, SqlPhases, SelectPhases
  <1>4. CASE validate_sql(s)
    BY <1>0, <1>2, <1>4 DEF validate_sql, SqlAnswer, Answer, Answers
  <1>5. CASE Classify(s) /\ ~Answers(s)
    <2>1. \/ /\ req[s].op = "execute" /\ req[s].verdict = "ok" /\ pc[s] = "classify"
             /\ pc' = [pc EXCEPT ![s] = "describe"] /\ UNCHANGED <<req, shown>>
          \/ SqlAnswer(s, "classify", [status |-> "refused", req |-> req[s]]) /\ UNCHANGED faults
      BY <1>5 DEF Classify
    <2>2. CASE SqlAnswer(s, "classify", [status |-> "refused", req |-> req[s]]) /\ UNCHANGED faults
      BY <1>0, <1>5, <2>2 DEF SqlAnswer, Answer, Answers
    <2> QED
      BY <1>0, <2>1, <2>2 DEF InStatement, SqlPhases, SelectPhases
  <1>6. CASE Describe(s) /\ ~Answers(s)
    <2>1. PICK end \in Ends(s, "sql", FALSE) :
      \/ /\ SqlAnswer(s, "describe", [status |-> "error", req |-> req[s], rows |-> 0])
         /\ Counted(end)
      \/ /\ Goto(s, "describe", "generation")
         /\ UNCHANGED <<req, shown>>
      BY <1>6 DEF Describe
    <2>2. faults \in Nat
      BY DEF SessionTypes
    <2>3. CASE /\ SqlAnswer(s, "describe", [status |-> "error", req |-> req[s], rows |-> 0])
               /\ Counted(end)
      BY <1>0, <1>6, <2>2, <2>3, CountedMeans DEF SqlAnswer, Answer, Answers
    <2> QED
      BY <1>0, <2>1, <2>3 DEF InStatement, SqlPhases, SelectPhases
  <1>7. CASE ReadGeneration(s)
    <2>1. /\ pc[s] = "generation" /\ pc'[s] = "rows" /\ UNCHANGED <<req, shown>>
          /\ shown[s] = 0 /\ req[s] \in SqlRequest /\ req[s].op = "execute" /\ req[s].verdict = "ok"
      BY <1>0, <1>7 DEF ReadGeneration, InStatement, SqlPhases, SelectPhases
    <2>2. req[s].size \in Nat /\ SqlResultLimit \in Nat
      BY <2>1, ParquetAssumption DEF SqlRequest
    <2>3. 0 <= req[s].size /\ 0 <= SqlResultLimit
      BY <2>2
    <2> QED
      BY <2>1, <2>3 DEF InStatement, SqlPhases, SelectPhases
  <1>8. CASE SqlRow(s)
    <2>1. /\ pc[s] = "rows" /\ UNCHANGED <<req, pc>> /\ shown'[s] = shown[s] + 1
          /\ shown[s] < req[s].size /\ shown[s] < SqlResultLimit
          /\ req[s] \in SqlRequest /\ req[s].op = "execute" /\ req[s].verdict = "ok"
      BY <1>0, <1>8 DEF SqlRow, InStatement, SqlPhases, SelectPhases
    <2>2. req[s].size \in Nat /\ SqlResultLimit \in Nat /\ shown[s] \in Nat
      BY <1>0, <2>1, ParquetAssumption DEF SqlRequest
    <2>3. shown'[s] <= req[s].size /\ shown'[s] <= SqlResultLimit
      BY <2>1, <2>2
    <2> QED
      BY <2>1, <2>3 DEF InStatement, SqlPhases, SelectPhases
  <1>9. CASE execute_sql(s)
    <2>1. PICK answer : SqlAnswer(s, "rows", answer) /\ (UNCHANGED faults \/ \E end : Counted(end))
      BY <1>9 DEF execute_sql
    <2>2. faults \in Nat
      BY DEF SessionTypes
    <2>3. Answers(s)
      BY <1>0, <2>1, <2>2, CountedMeans DEF SqlAnswer, Answer, Answers
    <2> QED
      BY <1>2, <2>3
  <1> QED
    BY <1>1, <1>2, <1>3, <1>4, <1>5, <1>6, <1>7, <1>8, <1>9 DEF SqlThreadStep

LEMMA RequestsKept ==
  ASSUME SessionTypes, RequestInv, [Next]_vars
  PROVE  RequestInv'
  <1> USE DEF RequestInv
  <1>1. CASE UNCHANGED vars
    BY <1>1 DEF vars, threadVars, fileVars, OnPath, InStatement
  <1>2. ASSUME NEW t \in Threads, ThreadStep(t)
        PROVE  RequestInv'
    <2>1. \A r \in Readers : r # t => OnPath(r)'
      BY <1>2, StepIsLocal DEF OnPath, fileVars, Threads
    <2>2. \A s \in SqlThreads : s # t => InStatement(s)'
      BY <1>2, StepIsLocal DEF InStatement, Threads
    <2>3. CASE t \in Readers /\ (Ask(t) \/ ReaderStep(t))
      <3>1. t \notin SqlThreads
        BY <2>3, ParquetAssumption
      <3> QED
        BY <2>1, <2>2, <2>3, <3>1, ReaderKeepsPath
    <2>4. CASE t \in SqlThreads /\ (AskSql(t) \/ SqlThreadStep(t))
      <3>1. t \notin Readers
        BY <2>4, ParquetAssumption
      <3> QED
        BY <2>1, <2>2, <2>4, <3>1, SqlKeepsStatement
    <2> QED
      BY <1>2, <2>3, <2>4 DEF ThreadStep
  <1>3. CASE Crash
    <2>1. \A t \in Threads : pc'[t] = "idle" /\ shown'[t] = 0
      BY <1>3 DEF Crash
    <2> QED
      BY <2>1 DEF OnPath, InStatement, Threads, ViewPhases, SelectPhases
  <1>4. CASE LifeStep /\ ~Crash
    <2>1. UNCHANGED threadVars /\ file' = file
      BY <1>4 DEF LifeStep, Open, Bump, Interrupts, Interrupt, Close, sweep_stale_cache, Around,
         fileVars
    <2> QED
      BY <2>1 DEF threadVars, OnPath, InStatement
  <1> QED
    BY <1>1, <1>2, <1>3, <1>4, StepsAreOfAThreadOrOfTheLife

---------------------------------------------------------------------------
(* The mutex.                                                              *)

LEMMA MutexKept ==
  ASSUME SessionTypes, RequestInv, MutexInv, [Next]_vars
  PROVE  MutexInv'
  <1> USE DEF MutexInv
  <1>0. pc \in [Threads -> Phases] /\ \A r \in Readers : r \in Threads /\ r # Nobody
    BY NobodyAssumption DEF SessionTypes, Threads
  <1>1. CASE UNCHANGED vars
    BY <1>1 DEF vars, threadVars
  <1>2. ASSUME NEW t \in Threads, Answers(t)
        PROVE  MutexInv'
    <2>1. pc' = [pc EXCEPT ![t] = "idle"] /\ browse' = (IF browse = t THEN Nobody ELSE browse)
      BY <1>2 DEF Answers
    <2>2. "idle" \notin BrowsePhases
      BY DEF BrowsePhases, ViewPhases
    <2> QED
      BY <1>0, <2>1, <2>2
  <1>3. ASSUME NEW t \in Threads, browse' = browse, \A u \in Threads : u # t => pc'[u] = pc[u],
               t \in Readers => (pc[t] \in BrowsePhases <=> pc'[t] \in BrowsePhases)
        PROVE  MutexInv'
    BY <1>0, <1>3
  <1>4. ASSUME NEW t \in Readers, Ask(t)
        PROVE  MutexInv'
    <2>1. pc[t] = "idle" /\ pc' = [pc EXCEPT ![t] = "check"] /\ browse' = browse
      BY <1>4 DEF Ask, Goto
    <2> QED
      BY <1>0, <1>3, <2>1 DEF BrowsePhases, ViewPhases
  <1>5. ASSUME NEW t \in SqlThreads, AskSql(t) \/ SqlGoesOn(t)
        PROVE  MutexInv'
    <2>1. t \in Threads /\ t \notin Readers /\ browse' = browse
      BY <1>5, ParquetAssumption DEF Threads, AskSql, SqlGoesOn, SqlStep
    <2>2. \A u \in Threads : u # t => pc'[u] = pc[u]
      BY <1>0, <1>5 DEF AskSql, Goto, SqlGoesOn
    <2> QED
      BY <1>3, <2>1, <2>2
  <1>6. ASSUME NEW t \in Readers, GoesOn(t)
        PROVE  MutexInv'
    <2>1. PICK to \in Phases : Advances(t, to) /\ pc' = [pc EXCEPT ![t] = to]
      BY <1>6 DEF GoesOn
    <2>2. CASE pc[t] = "lock" /\ to = Path(t) /\ browse = Nobody /\ browse' = t
      <3>1. to \in BrowsePhases
        BY <2>2, PathIsPhase
      <3> QED
        BY <1>0, <2>1, <2>2, <3>1
    <2>3. CASE ~(pc[t] = "lock" /\ to = Path(t) /\ browse = Nobody /\ browse' = t)
      <3>1. browse' = browse /\ (pc[t] \in BrowsePhases <=> to \in BrowsePhases)
        BY <2>1, <2>3 DEF Advances, BrowsePhases, ViewPhases
      <3> QED
        BY <1>0, <1>3, <2>1, <3>1
    <2> QED
      BY <2>2, <2>3
  <1>7. CASE Crash
    <2>1. browse' = Nobody /\ \A t \in Threads : pc'[t] = "idle"
      BY <1>7 DEF Crash
    <2> QED
      BY <1>0, <2>1 DEF BrowsePhases, ViewPhases
  <1>8. CASE LifeStep /\ ~Crash
    BY <1>8 DEF LifeStep, Open, Bump, Interrupts, Interrupt, Close, sweep_stale_cache, Around,
                threadVars
  <1> QED
    BY <1>1, <1>2, <1>4, <1>5, <1>6, <1>7, <1>8, StepsAreOfAThreadOrOfTheLife,
       ReaderAnswersOrGoesOn, SqlAnswersOrGoesOn DEF ThreadStep

(* Only the builder's steps mark a build, and only its own ends it.        *)
LEMMA OthersLeaveMark ==
  ASSUME NEW r \in Readers, ReaderStep(r), ~DropOld(r), ~Build(r)
  PROVE  building' = building /\ pc[r] # "build"
  <1> USE DEF Goto, Answer, SortFails, viewVars
  <1>1. CASE Refuse(r)
    BY <1>1 DEF Refuse
  <1>2. CASE CountAll(r)
    BY <1>2 DEF CountAll
  <1>3. CASE Check(r)
    BY <1>3 DEF Check
  <1>4. CASE Acquire(r)
    BY <1>4 DEF Acquire
  <1>5. CASE RangePage(r)
    BY <1>5 DEF RangePage
  <1>6. CASE offset_page(r)
    BY <1>6 DEF offset_page
  <1>7. CASE OffsetCount(r)
    BY <1>7 DEF OffsetCount
  <1>8. CASE count_where(r)
    BY <1>8 DEF count_where
  <1>9. CASE ensure_listed(r)
    BY <1>9 DEF ensure_listed
  <1>10. CASE Listed(r)
    BY <1>10 DEF Listed
  <1>11. CASE listed_page(r)
    BY <1>11 DEF listed_page
  <1>12. CASE Attach(r)
    BY <1>12 DEF Attach
  <1>13. CASE Tally(r)
    BY <1>13 DEF Tally
  <1>14. CASE sorted_page(r)
    BY <1>14 DEF sorted_page
  <1>15. CASE FallBack(r)
    BY <1>15 DEF FallBack
  <1>16. CASE SortStopped(r)
    BY <1>16 DEF SortStopped
  <1> QED
    BY <1>1, <1>2, <1>3, <1>4, <1>5, <1>6, <1>7, <1>8, <1>9, <1>10, <1>11, <1>12, <1>13, <1>14,
       <1>15, <1>16 DEF ReaderStep

(* Only the reader that builds has marked a build.                         *)
LEMMA ProgressKept ==
  ASSUME SessionTypes, MutexInv, ProgressOfABuild, [Next]_vars
  PROVE  ProgressOfABuild'
  <1> USE DEF ProgressOfABuild
  <1>0. pc \in [Threads -> Phases] /\ \A r \in Readers : r \in Threads
    BY DEF SessionTypes, Threads
  <1>1. ASSUME building' = building, browse' = browse,
               \A r \in Readers : pc[r] = "build" => pc'[r] = "build"
        PROVE  ProgressOfABuild'
    BY <1>1
  <1>2. CASE UNCHANGED vars
    BY <1>2 DEF vars, threadVars, viewVars
  <1>3. ASSUME NEW t \in Threads, Answers(t)
        PROVE  ProgressOfABuild'
    <2>1. /\ pc[t] # "build" /\ pc' = [pc EXCEPT ![t] = "idle"] /\ building' = building
          /\ browse' = (IF browse = t THEN Nobody ELSE browse)
      BY <1>3 DEF Answers
    <2> QED
      BY <1>0, <2>1
  <1>4. ASSUME NEW t \in Readers, Ask(t)
        PROVE  ProgressOfABuild'
    BY <1>0, <1>1, <1>4 DEF Ask, Goto, viewVars
  <1>5. ASSUME NEW t \in SqlThreads, AskSql(t) \/ SqlGoesOn(t)
        PROVE  ProgressOfABuild'
    <2>1. t \notin Readers /\ building' = building /\ browse' = browse
      BY <1>5, ParquetAssumption DEF AskSql, SqlGoesOn, SqlStep, viewVars
    <2>2. \A u \in Readers : pc'[u] = pc[u]
      BY <1>0, <1>5, <2>1 DEF AskSql, Goto, SqlGoesOn
    <2> QED
      BY <1>1, <2>1, <2>2
  <1>6. ASSUME NEW t \in Readers, ReaderStep(t), ~Answers(t)
        PROVE  ProgressOfABuild'
    <2>1. CASE DropOld(t)
      <3>1. \/ building' = building /\ pc[t] = "drop"
            \/ pc[t] = "drop" /\ pc'[t] = "build"
        BY <1>0, <2>1 DEF DropOld, SortFails, Goto
      <3>2. browse = t /\ browse' = browse
        BY <2>1, <3>1 DEF DropOld, MutexInv, BrowsePhases, ViewPhases
      <3>3. \A u \in Readers : u # t => pc'[u] = pc[u]
        BY <1>0, <2>1 DEF DropOld, SortFails, Goto
      <3> QED
        BY <1>1, <3>1, <3>2, <3>3
    <2>2. CASE Build(t)
      BY <2>2 DEF Build
    <2>3. CASE ~DropOld(t) /\ ~Build(t)
      <3>1. building' = building /\ pc[t] # "build"
        BY <1>6, <2>3, OthersLeaveMark
      <3>2. PICK to \in Phases : Advances(t, to) /\ pc' = [pc EXCEPT ![t] = to]
        BY <1>6, ReaderAnswersOrGoesOn DEF GoesOn
      <3>3. browse' = browse \/ browse = Nobody
        BY <3>2 DEF Advances
      <3>4. \A u \in Readers : u # Nobody
        BY NobodyAssumption DEF Threads
      <3> QED
        BY <1>0, <3>1, <3>2, <3>3, <3>4
    <2> QED
      BY <2>1, <2>2, <2>3
  <1>7. CASE Crash
    BY <1>7 DEF Crash
  <1>8. CASE LifeStep /\ ~Crash
    BY <1>1, <1>8 DEF LifeStep, Open, Bump, Interrupts, Interrupt, Close, sweep_stale_cache, Around,
                      threadVars, viewVars
  <1> QED
    BY <1>2, <1>3, <1>4, <1>5, <1>6, <1>7, <1>8, StepsAreOfAThreadOrOfTheLife,
       SqlAnswersOrGoesOn DEF ThreadStep

---------------------------------------------------------------------------
(* Failures.                                                               *)

LEMMA OthersKeepCache ==
  ASSUME NEW r \in Readers, ReaderStep(r), ~FallBack(r)
  PROVE  sort_cache_failed' = sort_cache_failed
  <1>1. CASE Refuse(r)
    BY <1>1 DEF Refuse
  <1>2. CASE CountAll(r)
    BY <1>2 DEF CountAll
  <1>3. CASE Check(r)
    BY <1>3 DEF Check
  <1>4. CASE Acquire(r)
    BY <1>4 DEF Acquire
  <1>5. CASE RangePage(r)
    BY <1>5 DEF RangePage
  <1>6. CASE offset_page(r)
    BY <1>6 DEF offset_page
  <1>7. CASE OffsetCount(r)
    BY <1>7 DEF OffsetCount
  <1>8. CASE count_where(r)
    BY <1>8 DEF count_where
  <1>9. CASE ensure_listed(r)
    BY <1>9 DEF ensure_listed
  <1>10. CASE Listed(r)
    BY <1>10 DEF Listed
  <1>11. CASE listed_page(r)
    BY <1>11 DEF listed_page
  <1>12. CASE Attach(r)
    BY <1>12 DEF Attach
  <1>13. CASE DropOld(r)
    BY <1>13 DEF DropOld
  <1>14. CASE Build(r)
    BY <1>14 DEF Build
  <1>15. CASE Tally(r)
    BY <1>15 DEF Tally
  <1>16. CASE sorted_page(r)
    BY <1>16 DEF sorted_page
  <1>17. CASE SortStopped(r)
    BY <1>17 DEF SortStopped
  <1> QED
    BY <1>1, <1>2, <1>3, <1>4, <1>5, <1>6, <1>7, <1>8, <1>9, <1>10, <1>11, <1>12, <1>13, <1>14,
       <1>15, <1>16, <1>17 DEF ReaderStep

LEMMA OrderOfNumbers ==
  /\ \A m, n \in Nat : m <= n => m = n \/ m < n
  /\ \A m, n \in Nat : m <= n => m <= n + 1
  /\ \A m, n \in Nat : m < n => m < n + 1
  /\ \A n \in Nat : 0 <= n /\ n <= n /\ ~(n < n)
  OBVIOUS

(* A step to "sorted error" says why.                                      *)
LEMMA NewlyFailed ==
  ASSUME SessionTypes, \A t \in Threads : gen[t] <= generation,
         NEW r \in Readers, ReaderStep(r), pc'[r] = "sorted error"
  PROVE  /\ err'[r] \in Errors /\ (err'[r] = "failed" => faults' > 0)
         /\ err'[r] = "cancelled" => gen'[r] < generation'
  <1>0. /\ r \in Threads /\ pc \in [Threads -> Phases] /\ faults \in Nat /\ generation \in Nat
        /\ gen \in [Threads -> Nat] /\ err \in [Threads -> {"none"} \cup Errors]
    BY DEF SessionTypes, Threads
  <1>1. ~Answers(r)
    BY <1>0 DEF Answers
  <1>2. UNCHANGED generation
    BY <1>0, StepIsLocal DEF ThreadStep
  <1>3. generation # gen[r] => gen[r] < generation
    <2>1. gen[r] <= generation /\ gen[r] \in Nat
      BY <1>0
    <2> QED
      BY <1>0, <2>1, OrderOfNumbers, Zenon
  <1> DEFINE Fails ==
               \E end \in Errors :
                 /\ end = "cancelled" => generation # gen[r]
                 /\ Counted(end) /\ gen' = gen
                 /\ \/ err' = [err EXCEPT ![r] = end]
                    \/ generation # gen[r] /\ err' = [err EXCEPT ![r] = "cancelled"]
  <1>5. ASSUME Fails
        PROVE  /\ err'[r] \in Errors /\ (err'[r] = "failed" => faults' > 0)
               /\ err'[r] = "cancelled" => gen'[r] < generation'
    <2>1. PICK end \in Errors :
                 /\ end = "cancelled" => generation # gen[r]
                 /\ Counted(end) /\ gen' = gen
                 /\ \/ err' = [err EXCEPT ![r] = end]
                    \/ generation # gen[r] /\ err' = [err EXCEPT ![r] = "cancelled"]
      BY <1>5
    <2>2. end = "failed" => faults' > 0
      BY <1>0, <2>1, CountedMeans
    <2>3. gen'[r] = gen[r] /\ generation' = generation
      BY <1>2, <2>1
    <2>4. CASE err' = [err EXCEPT ![r] = end]
      BY <1>0, <1>3, <2>1, <2>2, <2>3, <2>4
    <2>5. CASE generation # gen[r] /\ err' = [err EXCEPT ![r] = "cancelled"]
      BY <1>0, <1>3, <2>3, <2>5 DEF Errors
    <2> QED
      BY <2>1, <2>4, <2>5
  <1>6. CASE Attach(r)
    <2>1. PICK end \in Ends(r, "browse", FALSE) :
            /\ end # "done" /\ Counted(end) /\ gen' = gen
            /\ \/ err' = [err EXCEPT ![r] = end]
               \/ generation # gen[r] /\ err' = [err EXCEPT ![r] = "cancelled"]
      BY <1>0, <1>6 DEF Attach, SortFails, Goto
    <2>2. end \in Errors /\ (end = "cancelled" => generation # gen[r])
      BY <2>1, EndsMean DEF Errors
    <2> QED
      BY <1>5, <2>1, <2>2
  <1>7. CASE DropOld(r)
    <2>1. PICK end \in Ends(r, "browse", FALSE) :
            /\ end # "done" /\ Counted(end) /\ gen' = gen
            /\ \/ err' = [err EXCEPT ![r] = end]
               \/ generation # gen[r] /\ err' = [err EXCEPT ![r] = "cancelled"]
      BY <1>0, <1>7 DEF DropOld, SortFails, Goto
    <2>2. end \in Errors /\ (end = "cancelled" => generation # gen[r])
      BY <2>1, EndsMean DEF Errors
    <2> QED
      BY <1>5, <2>1, <2>2
  <1>8. CASE Build(r)
    <2>1. PICK end \in Ends(r, "builder", FALSE) :
            /\ end # "done" /\ Counted(end) /\ gen' = gen
            /\ \/ err' = [err EXCEPT ![r] = end]
               \/ generation # gen[r] /\ err' = [err EXCEPT ![r] = "cancelled"]
      BY <1>0, <1>8 DEF Build, BuildEnds, SortFails, Goto
    <2>2. end \in Errors /\ (end = "cancelled" => generation # gen[r])
      BY <2>1, EndsMean DEF Errors
    <2> QED
      BY <1>5, <2>1, <2>2
  <1>9. CASE Tally(r)
    <2>1. PICK end \in Ends(r, "browse", FALSE) :
            /\ end # "done" /\ Counted(end) /\ gen' = gen
            /\ \/ err' = [err EXCEPT ![r] = end]
               \/ generation # gen[r] /\ err' = [err EXCEPT ![r] = "cancelled"]
      BY <1>0, <1>9 DEF Tally, SortFails, Goto
    <2>2. end \in Errors /\ (end = "cancelled" => generation # gen[r])
      BY <2>1, EndsMean DEF Errors
    <2> QED
      BY <1>5, <2>1, <2>2
  <1>10. CASE sorted_page(r)
    <2>1. PICK end \in Ends(r, "browse", TRUE) :
            /\ end # "done" /\ Counted(end) /\ gen' = gen
            /\ \/ err' = [err EXCEPT ![r] = end]
               \/ generation # gen[r] /\ err' = [err EXCEPT ![r] = "cancelled"]
      BY <1>0, <1>10 DEF sorted_page, SortFails, Goto, Answer
    <2>2. end \in Errors /\ (end = "cancelled" => generation # gen[r])
      BY <2>1, EndsMean DEF Errors
    <2> QED
      BY <1>5, <2>1, <2>2
  <1>11. CASE Refuse(r)
    BY <1>0, <1>11 DEF Refuse, Goto, Answer
  <1>12. CASE CountAll(r)
    BY <1>0, <1>12 DEF CountAll, Goto, Answer
  <1>13. CASE Check(r)
    BY <1>0, <1>13 DEF Check, Goto
  <1>14. CASE Acquire(r)
    BY <1>0, <1>14, PathIsPhase DEF Acquire, Goto
  <1>15. CASE RangePage(r)
    BY <1>0, <1>15 DEF RangePage, Goto, Answer
  <1>16. CASE offset_page(r)
    BY <1>0, <1>16 DEF offset_page, Goto, Answer
  <1>17. CASE OffsetCount(r)
    BY <1>0, <1>17 DEF OffsetCount, Goto, Answer
  <1>18. CASE count_where(r)
    BY <1>0, <1>18 DEF count_where, Goto, Answer
  <1>19. CASE ensure_listed(r)
    BY <1>0, <1>19 DEF ensure_listed, Goto, Answer
  <1>20. CASE Listed(r)
    BY <1>0, <1>20 DEF Listed, Goto, Answer
  <1>21. CASE listed_page(r)
    BY <1>0, <1>21 DEF listed_page, Goto, Answer
  <1>22. CASE FallBack(r)
    BY <1>0, <1>22 DEF FallBack, Goto
  <1>23. CASE SortStopped(r)
    BY <1>0, <1>23 DEF SortStopped, Goto, Answer
  <1> QED
    BY <1>6, <1>7, <1>8, <1>9, <1>10, <1>11, <1>12, <1>13, <1>14, <1>15, <1>16, <1>17, <1>18,
       <1>19, <1>20, <1>21, <1>22, <1>23 DEF ReaderStep


LEMMA FailuresKept ==
  ASSUME SessionTypes, FailureInv, [Next]_vars
  PROVE  FailureInv'
  <1> USE DEF FailureInv, CacheGivenUpForFailure
  <1>0. /\ pc \in [Threads -> Phases] /\ faults \in Nat /\ generation \in Nat
        /\ gen \in [Threads -> Nat] /\ \A r \in Readers : r \in Threads
    BY DEF SessionTypes, Threads
  <1>1. CASE UNCHANGED vars
    BY <1>1 DEF vars, threadVars, Failed
  <1>2. ASSUME NEW t \in Threads, ThreadStep(t)
        PROVE  FailureInv'
    <2>1. /\ \A u \in Threads : u # t => /\ pc'[u] = pc[u] /\ gen'[u] = gen[u] /\ err'[u] = err[u]
          /\ generation' = generation
      BY <1>2, StepIsLocal
    <2>2. faults' \in {faults, faults + 1}
            /\ (gen' = gen \/ \E n \in {0, generation} : gen' = [gen EXCEPT ![t] = n])
      BY <1>2, ReaderAnswersOrGoesOn, SqlAnswersOrGoesOn
      DEF ThreadStep, Ask, AskSql, Answers, GoesOn, SqlGoesOn
    <2>3. \A u \in Threads : gen'[u] <= generation'
      <3>1. 0 <= generation /\ generation <= generation
        BY <1>0
      <3> QED
        BY <1>0, <2>1, <2>2, <3>1
    <2>4. faults > 0 => faults' > 0
      BY <1>0, <2>2
    <2>5. \A r \in Readers : r # t => Failed(r)'
      BY <1>0, <2>1, <2>4 DEF Failed
    <2>6. ASSUME t \in Readers
          PROVE  Failed(t)'
      <3>1. CASE Ask(t)
        BY <1>0, <3>1 DEF Ask, Goto, Failed
      <3>2. CASE ReaderStep(t)
        BY <3>2, <2>6, NewlyFailed DEF Failed, Errors
      <3> QED
        BY <1>2, <2>6, <3>1, <3>2, ParquetAssumption DEF ThreadStep
    <2>7. CacheGivenUpForFailure'
      <3>1. CASE t \in Readers /\ ReaderStep(t) /\ FallBack(t)
        <4>1. /\ pc[t] = "sorted error" /\ generation = gen[t] /\ err[t] # "INTERRUPT"
              /\ Failed(t) /\ t \in Threads
          BY <1>0, <3>1 DEF FallBack, Goto
        <4>2. ~(gen[t] < generation)
          BY <1>0, <4>1, OrderOfNumbers
        <4>3. faults > 0
          BY <4>1, <4>2 DEF Failed
        <4> QED
          BY <2>4, <4>3
      <3>2. CASE ~(t \in Readers /\ ReaderStep(t) /\ FallBack(t))
        <4>1. sort_cache_failed' = sort_cache_failed
          BY <1>2, <3>2, OthersKeepCache, SqlAnswersOrGoesOn
          DEF ThreadStep, Ask, AskSql, SqlStep, SqlGoesOn, Answers
        <4> QED
          BY <2>4, <4>1
      <3> QED
        BY <3>1, <3>2
    <2> QED
      BY <2>3, <2>5, <2>6, <2>7
  <1>3. CASE Bump
    <2>1. generation' = generation + 1 /\ UNCHANGED <<pc, err, gen, sort_cache_failed, faults>>
      BY <1>3 DEF Bump, Around, threadVars
    <2>2. \A t \in Threads : gen[t] \in Nat /\ gen[t] <= generation
      BY <1>0
    <2>3. \A t \in Threads : gen[t] <= generation + 1
      BY <1>0, <2>2, OrderOfNumbers, Zenon
    <2>4. \A r \in Readers : gen[r] < generation => gen[r] < generation + 1
      BY <1>0, <2>2, OrderOfNumbers, Zenon
    <2> QED
      BY <2>1, <2>3, <2>4 DEF Failed
  <1>4. CASE Crash
    <2>1. \A t \in Threads : pc'[t] = "idle" /\ gen'[t] = 0
      BY <1>4 DEF Crash
    <2>2. generation' = 0 /\ sort_cache_failed' = FALSE
      BY <1>4 DEF Crash
    <2>3. \A t \in Threads : gen'[t] <= generation'
      BY <2>1, <2>2
    <2>4. \A r \in Readers : Failed(r)'
      BY <1>0, <2>1 DEF Failed
    <2> QED
      BY <2>2, <2>3, <2>4
  <1>5. CASE LifeStep /\ ~Bump /\ ~Crash
    <2>1. /\ UNCHANGED <<pc, err, gen, faults, generation>>
          /\ sort_cache_failed' = sort_cache_failed \/ sort_cache_failed' = FALSE
      BY <1>5 DEF LifeStep, Open, Interrupts, Interrupt, Close, sweep_stale_cache, Around, threadVars
    <2>2. sort_cache_failed' => sort_cache_failed
      BY <2>1, Zenon
    <2>3. CacheGivenUpForFailure'
      BY <2>1, <2>2
    <2>4. \A r \in Readers : Failed(r)'
      BY <2>1 DEF Failed
    <2> QED
      BY <2>1, <2>3, <2>4
  <1> QED
    BY <1>1, <1>2, <1>3, <1>4, <1>5, StepsAreOfAThreadOrOfTheLife DEF LifeStep

---------------------------------------------------------------------------
(* Views.                                                                  *)

(* The step of a reader that leaves the views alone relies on no more than *)
(* before, or on what Path saw.                                            *)
LEMMA ReaderKeepsViews ==
  ASSUME SessionTypes, MutexInv, ViewInv, NEW t \in Readers, ReaderStep(t), GoesOn(t), ~Answers(t)
  PROVE  ActiveViewWhole' /\ Relies(t)'
  <1>0. t \in Threads /\ pc \in [Threads -> Phases] /\ req' = req
    BY DEF SessionTypes, Threads, GoesOn, Working
  <1>1. ActiveViewWhole /\ Relies(t)
    BY DEF ViewInv
  <1>2. CASE Check(t)
    <2>1. UNCHANGED viewVars /\ pc'[t] = "lock"
      BY <1>0, <1>2 DEF Check, Goto
    <2> QED
      BY <1>1, <2>1 DEF viewVars, ActiveViewWhole, Relies
  <1>3. CASE Acquire(t)
    <2>1. /\ UNCHANGED <<attached, table>> /\ pc'[t] = Path(t)
          /\ active' = IF Path(t) \in {"scan", "drop", "attach"} THEN NoView ELSE active
      BY <1>0, <1>3 DEF Acquire, Goto
    <2>2. ActiveViewWhole'
      BY <1>1, <2>1 DEF ActiveViewWhole, NoView
    <2> QED
      BY <1>0, <2>1, <2>2, PathIsPhase DEF Relies, KeyOf
  <1>4. CASE offset_page(t) \/ Listed(t)
    <2>1. /\ UNCHANGED viewVars
          /\ pc'[t] = "offset count" \/ (pc[t] = "listed" /\ pc'[t] = "chunk")
      <3>1. CASE offset_page(t)
        <4>1. PICK end \in Ends(t, "browse", TRUE) :
          \/ /\ Answer(t, "offset", Failure(t))
             /\ Counted(end) /\ LetGo(t) /\ UNCHANGED <<sort_cache_failed, hit>>
          \/ Goto(t, "offset", "offset count") /\ UNCHANGED viewVars
          BY <3>1 DEF offset_page
        <4>2. faults \in Nat
          BY DEF SessionTypes
        <4>3. CASE /\ Answer(t, "offset", Failure(t))
                   /\ Counted(end) /\ LetGo(t) /\ UNCHANGED <<sort_cache_failed, hit>>
          BY <1>0, <4>2, <4>3, CountedMeans DEF Answer, Goto, Answers
        <4> QED
          BY <1>0, <4>1, <4>3 DEF Goto
      <3>2. CASE Listed(t)
        <4>1. \/ \E answer : /\ Answer(t, "listed", answer)
                             /\ LetGo(t) /\ UNCHANGED <<sort_cache_failed, hit, faults>>
              \/ Goto(t, "listed", "chunk") /\ UNCHANGED viewVars
          BY <3>2 DEF Listed
        <4>2. CASE \E answer : /\ Answer(t, "listed", answer)
                               /\ LetGo(t) /\ UNCHANGED <<sort_cache_failed, hit, faults>>
          BY <1>0, <4>2 DEF Answer, Goto, Answers
        <4> QED
          BY <1>0, <4>1, <4>2 DEF Goto
      <3> QED
        BY <1>4, <3>1, <3>2
    <2> QED
      BY <1>0, <1>1, <2>1 DEF viewVars, ActiveViewWhole, Relies, KeyOf
  <1>5. CASE ensure_listed(t)
    <2>1. PICK end \in Ends(t, "browse", TRUE) :
      \/ /\ Answer(t, "scan", Failure(t))
         /\ Counted(end) /\ LetGo(t) /\ UNCHANGED <<sort_cache_failed, hit>>
      \/ /\ Goto(t, "scan", "listed")
         /\ active' = [kind |-> "Listed", key |-> KeyOf(req[t]), rows |-> ViewOf[KeyOf(req[t])]]
      BY <1>5 DEF ensure_listed
    <2>2. faults \in Nat
      BY DEF SessionTypes
    <2>3. CASE /\ Answer(t, "scan", Failure(t))
               /\ Counted(end) /\ LetGo(t) /\ UNCHANGED <<sort_cache_failed, hit>>
      BY <1>0, <2>2, <2>3, CountedMeans DEF Answer, Goto, Answers
    <2>4. CASE /\ Goto(t, "scan", "listed")
               /\ active' = [kind |-> "Listed", key |-> KeyOf(req[t]), rows |-> ViewOf[KeyOf(req[t])]]
      <3>1. pc'[t] = "listed" /\ req'[t] = req[t]
        BY <1>0, <2>4 DEF Goto
      <3>2. active'.kind = "Listed" /\ active'.key = KeyOf(req[t]) /\ active'.rows = ViewOf[active'.key]
        BY <2>4
      <3>3. ActiveViewWhole'
        BY <3>2 DEF ActiveViewWhole
      <3> QED
        BY <3>1, <3>2, <3>3 DEF Relies, KeyOf
    <2> QED
      BY <2>1, <2>3, <2>4
  <1>6. CASE Attach(t)
    <2>1. /\ pc[t] = "attach" /\ active' = active
          /\ pc'[t] = "sorted error" \/ (pc'[t] = "drop" /\ attached' = TRUE)
      BY <1>0, <1>6 DEF Attach, SortFails, Goto
    <2>2. active' = NoView
      BY <1>1, <2>1 DEF Relies
    <2>3. ActiveViewWhole'
      BY <2>2 DEF ActiveViewWhole, NoView
    <2> QED
      BY <2>1, <2>2, <2>3 DEF Relies
  <1>7. CASE DropOld(t)
    <2>1. /\ pc[t] = "drop" /\ UNCHANGED <<active, attached>> /\ pc'[t] \in {"sorted error", "build"}
      BY <1>0, <1>7 DEF DropOld, SortFails, Goto
    <2>2. active' = NoView /\ attached'
      BY <1>1, <2>1 DEF Relies
    <2>3. ActiveViewWhole'
      BY <2>2 DEF ActiveViewWhole, NoView
    <2> QED
      BY <2>1, <2>2, <2>3 DEF Relies
  <1>8. CASE Build(t)
    <2>1. /\ pc[t] = "build" /\ UNCHANGED <<active, attached>>
          /\ pc'[t] = "sorted error" \/ (pc'[t] = "tally" /\ table' = KeyOf(req[t]))
      BY <1>0, <1>8 DEF Build, BuildEnds, SortFails, Goto
    <2>2. active' = NoView /\ attached'
      BY <1>1, <2>1 DEF Relies
    <2>3. ActiveViewWhole'
      BY <2>2 DEF ActiveViewWhole, NoView
    <2> QED
      BY <1>0, <2>1, <2>2, <2>3 DEF Relies, KeyOf
  <1>9. CASE Tally(t)
    <2>1. /\ pc[t] = "tally" /\ UNCHANGED <<attached, table>>
          /\ \/ pc'[t] = "sorted error" /\ active' = active
             \/ /\ pc'[t] = "sorted page"
                /\ active' = [kind |-> "Sorted", key |-> KeyOf(req[t]), count |-> Len(ViewOf[table])]
      BY <1>0, <1>9 DEF Tally, SortFails, Goto
    <2>2. active = NoView /\ attached /\ table = KeyOf(req[t])
      BY <1>1, <2>1 DEF Relies
    <2>3. CASE pc'[t] = "sorted error" /\ active' = active
      BY <2>2, <2>3 DEF ActiveViewWhole, NoView, Relies
    <2>4. CASE /\ pc'[t] = "sorted page"
               /\ active' = [kind |-> "Sorted", key |-> KeyOf(req[t]), count |-> Len(ViewOf[table])]
      <3>1. /\ active'.kind = "Sorted" /\ active'.key = KeyOf(req[t]) /\ table' = active'.key
            /\ active'.count = Len(ViewOf[active'.key]) /\ attached' /\ req'[t] = req[t]
        BY <1>0, <2>1, <2>2, <2>4
      <3>2. ActiveViewWhole'
        BY <3>1 DEF ActiveViewWhole
      <3> QED
        BY <2>4, <3>1, <3>2 DEF Relies, KeyOf
    <2> QED
      BY <2>1, <2>3, <2>4
  <1>10. CASE sorted_page(t)
    <2>1. PICK end \in Ends(t, "browse", TRUE) :
      \/ SortFails(t, "sorted page", end) /\ UNCHANGED viewVars
      \/ \E answer : /\ Answer(t, "sorted page", answer)
                     /\ Counted(end) /\ LetGo(t) /\ UNCHANGED <<sort_cache_failed, hit>>
      BY <1>10 DEF sorted_page
    <2>2. faults \in Nat
      BY DEF SessionTypes
    <2>3. CASE \E answer : /\ Answer(t, "sorted page", answer)
                           /\ Counted(end) /\ LetGo(t) /\ UNCHANGED <<sort_cache_failed, hit>>
      BY <1>0, <2>2, <2>3, CountedMeans DEF Answer, Goto, Answers
    <2>4. CASE SortFails(t, "sorted page", end) /\ UNCHANGED viewVars
      <3>1. pc'[t] = "sorted error"
        BY <1>0, <2>4 DEF SortFails, Goto
      <3> QED
        BY <1>1, <2>4, <3>1 DEF viewVars, ActiveViewWhole, Relies
    <2> QED
      BY <2>1, <2>3, <2>4
  <1>11. CASE FallBack(t)
    <2>1. active' = NoView /\ pc'[t] = "scan"
      BY <1>0, <1>11 DEF FallBack, Goto
    <2> QED
      BY <2>1 DEF ActiveViewWhole, NoView, Relies
  <1>12. CASE \/ Refuse(t) \/ CountAll(t) \/ RangePage(t) \/ OffsetCount(t) \/ count_where(t)
              \/ listed_page(t) \/ SortStopped(t)
    <2>1. pc'[t] = "idle"
      BY <1>0, <1>12
      DEF Refuse, CountAll, RangePage, OffsetCount, count_where, listed_page, SortStopped, Answer, Goto
    <2>2. pc'[t] # "idle"
      BY <1>0, WorkingStep DEF ThreadStep
    <2> QED
      BY <2>1, <2>2
  <1> QED
    BY <1>2, <1>3, <1>4, <1>5, <1>6, <1>7, <1>8, <1>9, <1>10, <1>11, <1>12 DEF ReaderStep

LEMMA ViewsKept ==
  ASSUME SessionTypes, MutexInv, ViewInv, [Next]_vars
  PROVE  ViewInv'
  <1>0. pc \in [Threads -> Phases] /\ \A r \in Readers : r \in Threads /\ r # Nobody
    BY NobodyAssumption DEF SessionTypes, Threads
  <1>1. ASSUME UNCHANGED <<active, attached, table>>,
               \A r \in Readers : pc'[r] \notin BrowsePhases \/ (pc'[r] = pc[r] /\ req'[r] = req[r])
        PROVE  ViewInv'
    <2>1. ActiveViewWhole'
      BY <1>1 DEF ViewInv, ActiveViewWhole
    <2>2. ASSUME NEW r \in Readers
          PROVE  Relies(r)'
      <3>1. CASE pc'[r] \notin BrowsePhases
        BY <3>1 DEF Relies, BrowsePhases, ViewPhases
      <3>2. CASE pc'[r] = pc[r] /\ req'[r] = req[r]
        BY <1>1, <3>2 DEF ViewInv, Relies, KeyOf
      <3> QED
        BY <1>1, <3>1, <3>2
    <2> QED
      BY <2>1, <2>2 DEF ViewInv
  <1>2. ASSUME \A t \in Threads : pc'[t] = "idle", active' = NoView
        PROVE  ViewInv'
    <2>1. ActiveViewWhole'
      BY <1>2 DEF ActiveViewWhole, NoView
    <2>2. \A r \in Readers : Relies(r)'
      BY <1>0, <1>2 DEF Relies
    <2> QED
      BY <2>1, <2>2 DEF ViewInv
  <1>3. CASE UNCHANGED vars
    BY <1>1, <1>3 DEF vars, threadVars, viewVars
  <1>4. ASSUME NEW t \in Threads, Answers(t)
        PROVE  ViewInv'
    <2>1. pc' = [pc EXCEPT ![t] = "idle"] /\ req' = [req EXCEPT ![t] = NoRequest] /\ LetGo(t)
      BY <1>4 DEF Answers
    <2>2. CASE life = "closed" /\ \A u \in Threads \ {t} : pc[u] = "idle"
      <3>1. active' = NoView
        BY <2>1, <2>2 DEF LetGo, DropSession
      <3>2. \A u \in Threads : pc'[u] = "idle"
        BY <1>0, <2>1, <2>2
      <3> QED
        BY <1>2, <3>1, <3>2
    <2>3. CASE ~(life = "closed" /\ \A u \in Threads \ {t} : pc[u] = "idle")
      <3>1. UNCHANGED <<active, attached, table>>
        BY <2>1, <2>3 DEF LetGo, KeepSession
      <3>2. "idle" \notin BrowsePhases
        BY DEF BrowsePhases, ViewPhases
      <3>3. \A r \in Readers : pc'[r] \notin BrowsePhases \/ (pc'[r] = pc[r] /\ req'[r] = req[r])
        BY <1>0, <1>4, <2>1, <3>2 DEF SessionTypes
      <3> QED
        BY <1>1, <3>1, <3>3
    <2> QED
      BY <2>2, <2>3
  <1>5. ASSUME NEW t \in Readers, Ask(t)
        PROVE  ViewInv'
    <2>1. UNCHANGED <<active, attached, table>> /\ pc'[t] = "check"
      BY <1>0, <1>5 DEF Ask, Goto, viewVars
    <2>2. \A r \in Readers : r # t => pc'[r] = pc[r] /\ req'[r] = req[r]
      BY <1>0, <1>5, StepIsLocal DEF ThreadStep
    <2> QED
      BY <1>1, <2>1, <2>2 DEF BrowsePhases, ViewPhases
  <1>6. ASSUME NEW t \in SqlThreads, AskSql(t) \/ SqlThreadStep(t), ~Answers(t)
        PROVE  ViewInv'
    <2>1. UNCHANGED <<active, attached, table>>
      BY <1>6, SqlAnswersOrGoesOn DEF AskSql, SqlGoesOn, SqlStep, viewVars
    <2>2. \A r \in Readers : r # t
      BY <1>6, ParquetAssumption
    <2>3. \A r \in Readers : pc'[r] = pc[r] /\ req'[r] = req[r]
      BY <1>0, <1>6, <2>2, StepIsLocal DEF ThreadStep, Threads
    <2> QED
      BY <1>1, <2>1, <2>3
  <1>7. ASSUME NEW t \in Readers, ReaderStep(t), ~Answers(t)
        PROVE  ViewInv'
    <2>1. GoesOn(t)
      BY <1>7, ReaderAnswersOrGoesOn
    <2>2. ActiveViewWhole' /\ Relies(t)'
      BY <1>7, <2>1, ReaderKeepsViews
    <2>3. \A r \in Readers : r # t => pc'[r] = pc[r] /\ req'[r] = req[r]
      BY <1>0, <1>7, StepIsLocal DEF ThreadStep
    <2>4. \/ pc[t] \in BrowsePhases
          \/ browse = Nobody
          \/ UNCHANGED <<active, attached, table>>
      <3>1. PICK to \in Phases : Advances(t, to) /\ pc' = [pc EXCEPT ![t] = to]
        BY <2>1 DEF GoesOn
      <3>2. CASE pc[t] = "check"
        BY <1>7, <3>2, <1>0
        DEF ReaderStep, Check, Acquire, RangePage, offset_page, OffsetCount, count_where,
            ensure_listed, Listed, listed_page, Attach, DropOld, Build, Tally, sorted_page, FallBack,
            SortStopped, Refuse, CountAll, Answer, Answers, SortFails, BuildEnds, Goto, viewVars
      <3> QED
        BY <3>1, <3>2 DEF Advances, BrowsePhases, ViewPhases
    <2>5. CASE UNCHANGED <<active, attached, table>>
      <3>1. ASSUME NEW r \in Readers, r # t
            PROVE  Relies(r)'
        BY <2>3, <2>5, <3>1 DEF ViewInv, Relies, KeyOf
      <3> QED
        BY <2>2, <3>1 DEF ViewInv
    <2>6. CASE pc[t] \in BrowsePhases \/ browse = Nobody
      <3>1. ASSUME NEW r \in Readers, r # t
            PROVE  Relies(r)'
        <4>1. pc'[r] \notin BrowsePhases
          BY <1>0, <2>3, <2>6, <3>1 DEF MutexInv
        <4> QED
          BY <4>1 DEF Relies, BrowsePhases, ViewPhases
      <3> QED
        BY <2>2, <3>1 DEF ViewInv
    <2> QED
      BY <2>4, <2>5, <2>6
  <1>8. CASE Close
    <2>1. CASE \A t \in Threads : pc[t] = "idle"
      BY <1>2, <1>8, <2>1 DEF Close, Around, threadVars, DropSession
    <2>2. CASE ~(\A t \in Threads : pc[t] = "idle")
      BY <1>1, <1>8, <2>2 DEF Close, Around, threadVars
    <2> QED
      BY <2>1, <2>2
  <1>9. CASE Crash
    BY <1>2, <1>9 DEF Crash
  <1>10. CASE sweep_stale_cache
    <2>1. /\ UNCHANGED <<active, attached, pc, req>> /\ \A t \in Threads : pc[t] = "idle"
          /\ attached => table' = table
      BY <1>10 DEF sweep_stale_cache, Around, threadVars
    <2>2. ActiveViewWhole'
      BY <2>1 DEF ViewInv, ActiveViewWhole
    <2>3. \A r \in Readers : Relies(r)'
      BY <1>0, <2>1 DEF Relies
    <2> QED
      BY <2>2, <2>3 DEF ViewInv
  <1>11. CASE Open \/ Bump \/ Interrupts
    BY <1>1, <1>11 DEF Open, Bump, Interrupts, Interrupt, Around, threadVars, viewVars
  <1> QED
    BY <1>3, <1>4, <1>5, <1>6, <1>7, <1>8, <1>9, <1>10, <1>11, <1>0, StepsAreOfAThreadOrOfTheLife
    DEF ThreadStep, LifeStep

---------------------------------------------------------------------------
(* Answers.                                                                *)

(* What a page or a count has to be.                                       *)
RightAnswer(q, rows, total) ==
  \E view \in IF row_numbers(file) THEN {ViewOf[KeyOf(q)]} ELSE UntiedViews(KeyOf(q)) :
    /\ total = Len(view)
    /\ q.op = "page" => rows = Page(view, q.offset, q.limit)

LEMMA ViewAnswers ==
  ASSUME NEW q, row_numbers(file) \/ KeyOf(q).sort = "none"
  PROVE  /\ q.op # "page" => \A rows : RightAnswer(q, rows, Len(ViewOf[KeyOf(q)]))
         /\ RightAnswer(q, Page(ViewOf[KeyOf(q)], q.offset, q.limit), Len(ViewOf[KeyOf(q)]))
  BY DEF RightAnswer, UntiedViews

LEMMA KeyOfRequest ==
  ASSUME NEW r \in Readers, OnPath(r), pc[r] # "idle", req[r].filter \in Filters
  PROVE  /\ KeyOf(req[r]) \in ViewKey /\ KeyOf(req[r]).filter = req[r].filter
         /\ req[r].op = "count" => KeyOf(req[r]).sort = "none"
         /\ req[r].sort = "none" => KeyOf(req[r]).sort = "none"
         /\ req[r].offset \in Nat /\ req[r].limit \in Nat
         /\ req[r].op \in {"page", "count"}
  <1>1. req[r] \in ReaderRequest /\ (req[r].op = "count" => req[r].sort = "none")
    BY DEF OnPath
  <1> QED
    BY <1>1, ParquetAssumption DEF ReaderRequest, KeyOf, ViewKey

LEMMA NoReplyIsRight ==
  ASSUME reply' = NoReply
  PROVE  PagesRight' /\ SelectAnswered'
  BY DEF NoReply, PagesRight, SelectAnswered

LEMMA FailureIsRight ==
  ASSUME NEW r \in Readers, OnPath(r), pc[r] # "idle", reply' = Failure(r)
  PROVE  PagesRight' /\ SelectAnswered'
  <1>1. req[r].op # "execute"
    BY DEF OnPath, ReaderRequest
  <1> QED
    BY <1>1 DEF Failure, PagesRight, SelectAnswered

LEMMA SuccessIsRight ==
  ASSUME NEW r \in Readers, OnPath(r), pc[r] # "idle", NEW rows, NEW total,
         reply' = Success(r, rows, total), RightAnswer(req[r], rows, total), file' = file
  PROVE  PagesRight' /\ SelectAnswered'
  <1>1. req[r].op # "execute"
    BY DEF OnPath, ReaderRequest
  <1>2. reply'.req = req[r] /\ reply'.rows = rows /\ reply'.total = total
    BY DEF Success
  <1> QED
    BY <1>1, <1>2 DEF PagesRight, SelectAnswered, RightAnswer, KeyOf

LEMMA CheckedIsRight ==
  ASSUME NEW r \in Readers, OnPath(r), pc[r] # "idle", NEW rows, NEW total,
         reply' = Checked(r, rows, total), RightAnswer(req[r], rows, total), file' = file
  PROVE  PagesRight' /\ SelectAnswered'
  BY FailureIsRight, SuccessIsRight DEF Checked

LEMMA ReadersAnswerRight ==
  ASSUME ParquetInv, NEW r \in Readers, ReaderStep(r)
  PROVE  PagesRight' /\ SelectAnswered'
  <1>0. /\ OnPath(r) /\ Relies(r) /\ ActiveViewWhole
        /\ r \in Threads /\ pc \in [Threads -> Phases] /\ SessionTypes
    BY DEF ParquetInv, RequestInv, ViewInv, Threads, SessionTypes
  <1>1. file' = file
    BY <1>0, StepIsLocal DEF ThreadStep, fileVars
  <1>2. CASE GoesOn(r)
    BY <1>2, NoReplyIsRight DEF GoesOn, Working
  <1>3. CASE Refuse(r) \/ SortStopped(r)
    <2>1. reply' = Failure(r) /\ pc[r] # "idle"
      BY <1>3 DEF Refuse, SortStopped, Answer, Goto
    <2> QED
      BY <1>0, <2>1, FailureIsRight
  <1>4. CASE CountAll(r)
    <2>1. /\ reply' = Success(r, <<>>, NRows) /\ pc[r] # "idle"
          /\ req[r].op = "count" /\ req[r].filter = NoFilter
      BY <1>4 DEF CountAll, Answer, Goto
    <2>2. KeyOf(req[r]) \in ViewKey /\ KeyOf(req[r]).filter = NoFilter /\ KeyOf(req[r]).sort = "none"
      BY <1>0, <2>1, KeyOfRequest, ParquetAssumption
    <2>3. Len(ViewOf[KeyOf(req[r])]) = NRows
      BY <2>2, ViewLength, MatchesFinite
    <2>4. RightAnswer(req[r], <<>>, NRows)
      BY <2>1, <2>2, <2>3, ViewAnswers
    <2> QED
      BY <1>0, <1>1, <2>1, <2>4, SuccessIsRight
  <1>5. CASE RangePage(r)
    <2>1. /\ \/ reply' = Failure(r)
             \/ reply' = Checked(r, Page(ViewOf[KeyOf(req[r])], req[r].offset, req[r].limit), NRows)
          /\ pc[r] = "range"
      BY <1>5 DEF RangePage, Answer, Goto
    <2>2. row_numbers(file) /\ req[r].sort = "none" /\ req[r].filter = NoFilter
      BY <1>0, <2>1 DEF OnPath
    <2>3. KeyOf(req[r]) \in ViewKey /\ KeyOf(req[r]).filter = NoFilter
      BY <1>0, <2>1, <2>2, KeyOfRequest, ParquetAssumption
    <2>4. Len(ViewOf[KeyOf(req[r])]) = NRows
      BY <2>3, ViewLength, MatchesFinite
    <2>5. RightAnswer(req[r], Page(ViewOf[KeyOf(req[r])], req[r].offset, req[r].limit), NRows)
      BY <2>2, <2>4, ViewAnswers
    <2> QED
      BY <1>0, <1>1, <2>1, <2>5, FailureIsRight, CheckedIsRight
  <1>6. CASE offset_page(r) /\ ~GoesOn(r)
    <2>1. \/ reply' = Failure(r) /\ pc[r] = "offset"
          \/ reply' = NoReply
      BY <1>6 DEF offset_page, Answer, Goto, Working
    <2> QED
      BY <1>0, <2>1, FailureIsRight, NoReplyIsRight
  <1>7. CASE OffsetCount(r)
    <2>1. PICK view \in UntiedViews(KeyOf(req[r])) :
            /\ \/ reply' = Failure(r)
               \/ reply' = Checked(r, Page(view, req[r].offset, req[r].limit), Len(view))
            /\ pc[r] = "offset count"
      BY <1>7 DEF OffsetCount, Answer, Goto
    <2>2. ~row_numbers(file)
      BY <1>0, <2>1 DEF OnPath
    <2>3. RightAnswer(req[r], Page(view, req[r].offset, req[r].limit), Len(view))
      BY <2>1, <2>2 DEF RightAnswer
    <2> QED
      BY <1>0, <1>1, <2>1, <2>3, FailureIsRight, CheckedIsRight
  <1>8. CASE count_where(r)
    <2>1. /\ \/ reply' = Failure(r)
             \/ reply' = Success(r, <<>>, Cardinality(Matches[req[r].filter]))
          /\ pc[r] = "count"
      BY <1>8 DEF count_where, Answer, Goto
    <2>2. req[r].op = "count" /\ req[r].filter \in Filters
      BY <1>0, <2>1 DEF OnPath
    <2>3. /\ KeyOf(req[r]) \in ViewKey /\ KeyOf(req[r]).filter = req[r].filter
          /\ KeyOf(req[r]).sort = "none"
      BY <1>0, <2>1, <2>2, KeyOfRequest
    <2>4. Len(ViewOf[KeyOf(req[r])]) = Cardinality(Matches[req[r].filter])
      BY <2>3, ViewLength
    <2>5. RightAnswer(req[r], <<>>, Cardinality(Matches[req[r].filter]))
      BY <2>2, <2>3, <2>4, ViewAnswers
    <2> QED
      BY <1>0, <1>1, <2>1, <2>5, FailureIsRight, SuccessIsRight
  <1>9. CASE ensure_listed(r) /\ ~GoesOn(r)
    <2>1. \/ reply' = Failure(r) /\ pc[r] = "scan"
          \/ reply' = NoReply
      BY <1>9 DEF ensure_listed, Answer, Goto, Working
    <2> QED
      BY <1>0, <2>1, FailureIsRight, NoReplyIsRight
  <1>10. ASSUME pc[r] \in {"listed", "chunk"}
         PROVE  /\ row_numbers(file) /\ active.rows = ViewOf[KeyOf(req[r])]
                /\ KeyOf(req[r]) \in ViewKey /\ req[r].offset \in Nat /\ req[r].limit \in Nat
                /\ req[r].op \in {"page", "count"}
    <2>1. row_numbers(file) /\ req[r].filter \in Filters
      BY <1>0, <1>10 DEF OnPath, ViewPhases
    <2>2. active.rows = ViewOf[KeyOf(req[r])]
      <3>1. active.kind = "Listed" /\ active.key = KeyOf(req[r])
        BY <1>0, <1>10 DEF Relies
      <3> QED
        BY <1>0, <3>1 DEF ActiveViewWhole
    <2> QED
      BY <1>0, <1>10, <2>1, <2>2, KeyOfRequest
  <1>11. CASE Listed(r) /\ ~GoesOn(r)
    <2> DEFINE chunk == Page(active.rows, req[r].offset, req[r].limit)
               total == Len(active.rows)
    <2>1. /\ \/ reply' = Success(r, <<>>, total) /\ req[r].op = "count"
             \/ reply' = Checked(r, <<>>, total) /\ chunk = <<>>
             \/ reply' = NoReply
          /\ pc[r] = "listed"
      BY <1>11 DEF Listed, Answer, Goto, Working
    <2>2. /\ RightAnswer(req[r], chunk, total)
          /\ req[r].op # "page" => RightAnswer(req[r], <<>>, total)
      BY <1>10, <2>1, ViewAnswers
    <2> QED
      BY <1>0, <1>1, <2>1, <2>2, SuccessIsRight, CheckedIsRight, NoReplyIsRight
  <1>12. CASE listed_page(r)
    <2> DEFINE chunk == Page(active.rows, req[r].offset, req[r].limit)
               placed == Placed(chunk)
    <2>1. /\ \/ reply' = Failure(r)
             \/ reply' = Checked(r, placed, Len(active.rows))
          /\ pc[r] = "chunk"
      BY <1>12 DEF listed_page, Answer, Goto
    <2>2. placed = chunk
      BY <1>10, <2>1, ChunkPlaced
    <2> HIDE DEF placed
    <2>3. RightAnswer(req[r], placed, Len(active.rows))
      BY <1>10, <2>1, <2>2, ViewAnswers
    <2> QED
      BY <1>0, <1>1, <2>1, <2>3, FailureIsRight, CheckedIsRight
  <1>13. CASE sorted_page(r) /\ ~GoesOn(r)
    <2>1. /\ \/ reply' = NoReply
             \/ reply' = Checked(r, Page(ViewOf[table], req[r].offset, req[r].limit), active.count)
          /\ pc[r] = "sorted page"
      BY <1>13 DEF sorted_page, SortFails, Answer, Goto, Working
    <2>2. row_numbers(file)
      BY <1>0, <2>1 DEF OnPath, ViewPhases
    <2>3. table = KeyOf(req[r]) /\ active.count = Len(ViewOf[KeyOf(req[r])])
      BY <1>0, <2>1 DEF Relies, ActiveViewWhole
    <2>4. RightAnswer(req[r], Page(ViewOf[table], req[r].offset, req[r].limit), active.count)
      BY <2>2, <2>3, ViewAnswers
    <2> QED
      BY <1>0, <1>1, <2>1, <2>4, CheckedIsRight, NoReplyIsRight
  <1>14. CASE /\ \/ Check(r) \/ Acquire(r) \/ Attach(r) \/ DropOld(r) \/ Build(r) \/ Tally(r)
                 \/ FallBack(r)
    BY <1>14, NoReplyIsRight DEF Check, Acquire, Attach, DropOld, Build, Tally, FallBack, Working
  <1> QED
    BY <1>2, <1>3, <1>4, <1>5, <1>6, <1>7, <1>8, <1>9, <1>11, <1>12, <1>13, <1>14 DEF ReaderStep

LEMMA SqlAnswersRight ==
  ASSUME ParquetInv, NEW s \in SqlThreads, SqlThreadStep(s)
  PROVE  PagesRight' /\ SelectAnswered'
  <1>0. InStatement(s) /\ s \in Threads /\ shown \in [Threads -> Nat]
    BY DEF ParquetInv, RequestInv, Threads, SessionTypes
  <1> DEFINE Goal == PagesRight' /\ SelectAnswered'
  <1>1. CASE SqlGoesOn(s)
    BY <1>1, NoReplyIsRight DEF SqlGoesOn, SqlStep
  <1>2. ASSUME reply' = NoReply \/ reply'.status \in {"refused", "fine", "busy"}
        PROVE  Goal
    BY <1>2 DEF NoReply, PagesRight, SelectAnswered
  <1>3. ASSUME pc[s] \in SelectPhases, reply'.status = "error", reply'.req = req[s]
        PROVE  Goal
    BY <1>0, <1>3 DEF PagesRight, SelectAnswered, InStatement
  <1>4. CASE SqlAcquire(s) \/ ReadGeneration(s) \/ SqlRow(s)
    BY <1>2, <1>4 DEF SqlAcquire, ReadGeneration, SqlRow, SqlStep
  <1>5. CASE validate_sql(s)
    BY <1>2, <1>5 DEF validate_sql, SqlAnswer, Answer
  <1>6. CASE Classify(s)
    BY <1>2, <1>6 DEF Classify, SqlAnswer, Answer, SqlStep
  <1>7. CASE Describe(s)
    <2>1. /\ \/ reply' = [status |-> "error", req |-> req[s], rows |-> 0]
             \/ reply' = NoReply
          /\ pc[s] = "describe"
      BY <1>7 DEF Describe, SqlAnswer, Answer, Goto, SqlStep
    <2> QED
      BY <1>2, <1>3, <2>1 DEF SelectPhases
  <1>8. CASE execute_sql(s)
    <2>1. /\ \/ reply' = [status |-> "error", req |-> req[s], rows |-> shown[s]]
             \/ /\ reply' = RowsShown(s)
                /\ shown[s] = req[s].size \/ shown[s] = SqlResultLimit
          /\ pc[s] = "rows"
      BY <1>8 DEF execute_sql, SqlAnswer, Answer, Goto
    <2>2. CASE reply' = [status |-> "error", req |-> req[s], rows |-> shown[s]]
      BY <1>3, <2>1, <2>2 DEF SelectPhases
    <2>3. CASE /\ reply' = RowsShown(s)
               /\ shown[s] = req[s].size \/ shown[s] = SqlResultLimit
      <3>1. /\ shown[s] <= req[s].size /\ shown[s] <= SqlResultLimit
            /\ req[s] \in SqlRequest /\ req[s].op = "execute" /\ req[s].verdict = "ok"
        BY <1>0, <2>1 DEF InStatement, SqlPhases, SelectPhases
      <3>2. req[s].size \in Nat /\ SqlResultLimit \in Nat /\ shown[s] \in Nat
        BY <1>0, <3>1, ParquetAssumption DEF SqlRequest
      <3>3. /\ shown[s] = Least(req[s].size, SqlResultLimit)
            /\ (shown[s] < req[s].size) = (req[s].size > SqlResultLimit)
        BY <2>3, <3>1, <3>2 DEF Least
      <3>4. /\ reply'.status = "ok" /\ reply'.req = req[s] /\ reply'.rows = shown[s]
            /\ reply'.truncated = (shown[s] < req[s].size)
        BY <2>3 DEF RowsShown
      <3>5. PagesRight'
        BY <3>1, <3>4 DEF PagesRight
      <3>6. SelectAnswered'
        BY <3>1, <3>3, <3>4 DEF SelectAnswered
      <3> QED
        BY <3>5, <3>6
    <2> QED
      BY <2>1, <2>2, <2>3
  <1> QED
    BY <1>4, <1>5, <1>6, <1>7, <1>8 DEF SqlThreadStep

LEMMA AnswersRight ==
  ASSUME ParquetInv, PagesRight, SelectAnswered, [Next]_vars
  PROVE  PagesRight' /\ SelectAnswered'
  <1>1. CASE UNCHANGED vars
    <2>1. reply' = reply /\ file' = file
      BY <1>1 DEF vars, fileVars
    <2>2. PagesRight'
      BY <2>1 DEF PagesRight
    <2>3. SelectAnswered'
      BY <2>1 DEF SelectAnswered
    <2> QED
      BY <2>2, <2>3
  <1>2. ASSUME NEW t \in Threads, ThreadStep(t)
        PROVE  PagesRight' /\ SelectAnswered'
    BY <1>2, ReadersAnswerRight, SqlAnswersRight, NoReplyIsRight
    DEF ThreadStep, Ask, AskSql, SqlStep
  <1>3. CASE LifeStep
    <2>1. reply' = NoReply
      BY <1>3 DEF LifeStep, Open, Bump, Interrupts, Interrupt, Close, Crash, sweep_stale_cache, Around
    <2> QED
      BY <2>1, NoReplyIsRight
  <1> QED
    BY <1>1, <1>2, <1>3, StepsAreOfAThreadOrOfTheLife

---------------------------------------------------------------------------
(* The theorems.                                                           *)

LEMMA ParquetInvInitially ==
  ASSUME Init
  PROVE  ParquetInv /\ PagesRight /\ SelectAnswered
  <1> USE DEF Init, Reset
  <1>1. \A t \in Threads : pc[t] = "idle" /\ gen[t] = 0 /\ shown[t] = 0
    OBVIOUS
  <1>2. \A r \in Readers : r \in Threads /\ r # Nobody
    BY NobodyAssumption DEF Threads
  <1>3. SessionTypes
    BY DEF SessionTypes, Phases
  <1>4. RequestInv
    BY <1>1 DEF RequestInv, OnPath, InStatement, Threads, ViewPhases, SelectPhases
  <1>5. MutexInv
    BY <1>1, <1>2 DEF MutexInv, BrowsePhases, ViewPhases
  <1>6. ViewInv
    BY <1>1, <1>2 DEF ViewInv, ActiveViewWhole, NoView, Relies
  <1>7. FailureInv
    <2>1. \A t \in Threads : gen[t] <= generation
      BY <1>1
    <2>2. CacheGivenUpForFailure
      BY DEF CacheGivenUpForFailure
    <2>3. \A r \in Readers : Failed(r)
      BY <1>1, <1>2 DEF Failed
    <2> QED
      BY <2>1, <2>2, <2>3 DEF FailureInv
  <1>8. LifeInv
    BY <1>1 DEF LifeInv
  <1>9. ProgressOfABuild /\ OneReading
    BY DEF ProgressOfABuild, OneReading
  <1>10. PagesRight /\ SelectAnswered
    BY DEF NoReply, PagesRight, SelectAnswered
  <1> QED
    BY <1>3, <1>4, <1>5, <1>6, <1>7, <1>8, <1>9, <1>10 DEF ParquetInv

LEMMA ParquetInvKept ==
  ASSUME ParquetInv, PagesRight, SelectAnswered, [Next]_vars
  PROVE  ParquetInv' /\ PagesRight' /\ SelectAnswered'
  BY TypesKept, RequestsKept, MutexKept, ViewsKept, FailuresKept, LifeKept, ProgressKept,
     ReadingKept, AnswersRight
  DEF ParquetInv

LEMMA ParquetInvAlways ==
  Spec => [](ParquetInv /\ PagesRight /\ SelectAnswered)
  <1> DEFINE Inv == ParquetInv /\ PagesRight /\ SelectAnswered
  <1>1. Init => Inv
    BY ParquetInvInitially
  <1>2. Inv /\ [Next]_vars => Inv'
    BY ParquetInvKept
  <1> HIDE DEF Inv
  <1>3. Spec => []Inv
    BY <1>1, <1>2, PTL DEF Spec
  <1> QED
    BY <1>3 DEF Inv

(* A page is the page of the view its request names and a count that       *)
(* view's length, on every path, whatever failed, was cancelled or was     *)
(* cached before it (pq/query.rs, query_table and count_rows).             *)
THEOREM PagesAlwaysRight == Spec => []PagesRight
  <1>1. ParquetInv /\ PagesRight /\ SelectAnswered => PagesRight
    OBVIOUS
  <1> QED
    BY <1>1, ParquetInvAlways, PTL

(* The sort cache is whole whenever it is served from, given up only for   *)
(* an error of DuckDB's own, and its progress is that of a build.          *)
THEOREM SortCacheAlwaysSound == Spec => []SortCacheSound
  <1>1. ParquetInv => SortCacheSound
    BY DEF ParquetInv, ViewInv, FailureInv, SortCacheSound
  <1> QED
    BY <1>1, ParquetInvAlways, PTL

(* A session that was closed leaves no file behind unless a process        *)
(* crashed, although its last reader may finish after it was closed.       *)
THEOREM NothingEverLeftBehind == Spec => []NothingLeftBehind
  <1>1. ParquetInv => NothingLeftBehind
    BY DEF ParquetInv, SessionTypes, LifeInv, NothingLeftBehind
  <1> QED
    BY <1>1, ParquetInvAlways, PTL

(* The SQL tab reads the file as Browse Data does, answers with rows only  *)
(* for a single SELECT, and with all of them or the first SqlResultLimit,  *)
(* marked.                                                                 *)
THEOREM SqlAlwaysShownRight == Spec => []SqlShownRight
  <1>1. ParquetInv /\ SelectAnswered => SqlShownRight
    BY DEF ParquetInv, SqlShownRight
  <1> QED
    BY <1>1, ParquetInvAlways, PTL

=============================================================================
