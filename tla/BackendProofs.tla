--------------------------- MODULE BackendProofs ---------------------------
(***************************************************************************)
(* What holds of Backend for every value of its constants: any number of   *)
(* openers, cancellers, readers and SQL threads, any tables, page sizes    *)
(* and bounds.                                                             *)
(*                                                                         *)
(* The argument goes in four layers.  TypeInv is TypeOK with what a       *)
(* request may look like at each place of query_table; it is needed        *)
(* because the fields of a record are known to have a type only if the     *)
(* request is one.  LockInv adds that an opener in the critical section    *)
(* owns both locks, so that publishing a connection and a reader holding   *)
(* one exclude each other.  CacheInv then says whose the cached entries    *)
(* are: nobody writes a cache but the holder of the connection, and        *)
(* nobody replaces the connection without clearing them.                   *)
(* SessionInv, last, follows one opener through its command; it holds only *)
(* where no other one runs beside it (OneOpener), and says so.             *)
(***************************************************************************)
EXTENDS Backend, TLAPS

(* From its arrival a reader's request is a request, and the paths that    *)
(* key a cache by the view are only taken for a view.                      *)
Shape(r) ==
  /\ pc[r] # "idle" => job[r].want \in Request
  /\ \/ pc[r] = "order"
     \/ pc[r] \in {"count", "counting", "scan"} /\ job[r].goal = "order"
     => job[r].want.view \in Views

TypeInv == TypeOK /\ \A r \in Readers : Shape(r)

(* The type invariant holds before the first command.                      *)
LEMMA TypeInit == Init => TypeInv
  BY ThreadsAssumption, DataAssumption
  DEF Init, TypeInv, Shape, TypeOK, Threads, None, NoEntry, NoJob, NoOpening, Started,
       NoSqlJob, Job,
      Opening, SqlJob, NoRequest, OpenerPC, CancellerPC, ReaderPC, SqlPC, Goals, Statuses,
           AllSqlKinds

(* Every step of open_database keeps the type invariant.                   *)
LEMMA OpenTypes ==
  ASSUME TypeInv, NEW o \in Openers, OpenSqlite(o)
  PROVE  TypeInv'
<1> USE ThreadsAssumption DEF TypeInv, TypeOK, Shape, Threads, Goto, OpenerPC,
     sessionVars, cacheVars, lockVars, stopVars
<1>1. CASE OpenDatabase(o)
  BY <1>1 DEF OpenDatabase, Bump, Opening, NoOpening, Started, None
<1>2. CASE OpenInterrupt(o)
  BY <1>2 DEF OpenInterrupt, InterruptBrowse
<1>3. CASE OpenInterruptAux(o)
  BY <1>3 DEF OpenInterruptAux, InterruptAux
<1>4. CASE Connect(o)
  BY <1>4 DEF Connect, Opening
<1>5. CASE ConnectFails(o)
  BY <1>5 DEF ConnectFails, NoOpening, Started, Opening, None
<1>6. CASE PublishHandle(o)
  BY <1>6 DEF PublishHandle, Opening
<1>7. CASE PublishAuxHandle(o)
  BY <1>7 DEF PublishAuxHandle, Opening
<1>8. CASE Sweep(o)
  BY <1>8 DEF Sweep, Opening
<1>9. CASE SweepFails(o)
  BY <1>9 DEF SweepFails, Opening
<1>10. CASE RestoreHandle(o)
  BY <1>10 DEF RestoreHandle, Opening
<1>11. CASE RestoreAuxHandle(o)
  BY <1>11 DEF RestoreAuxHandle, Opening, NoOpening, Started, None
<1>12. CASE LockConn(o)
  BY <1>12 DEF LockConn
<1>13. CASE LockAux(o)
  BY <1>13 DEF LockAux
<1>14. CASE Swap(o)
  BY <1>14 DEF Swap, SeededCounts, Opening, None, NoEntry
<1>15. CASE TakeParquet(o)
  BY <1>15 DEF TakeParquet, None
<1>16. CASE NameFile(o)
  BY <1>16 DEF NameFile, Opening, NoOpening, Started, None
<1> QED BY <1>1, <1>2, <1>3, <1>4, <1>5, <1>6, <1>7, <1>8, <1>9, <1>10, <1>11, <1>12,
     <1>13, <1>14, <1>15, <1>16 DEF OpenSqlite

(* Every step of close_database and open_parquet keeps it.                 *)
LEMMA CloseTypes ==
  ASSUME TypeInv, NEW o \in Openers, CloseOrParquet(o)
  PROVE  TypeInv'
<1> USE ThreadsAssumption DEF TypeInv, TypeOK, Shape, Threads, Goto, OpenerPC,
     sessionVars, cacheVars, lockVars, stopVars
<1>1. CASE CloseDatabase(o)
  BY <1>1 DEF CloseDatabase, Bump, Opening, NoOpening, Started, None
<1>2. CASE OpenParquet(o)
  BY <1>2 DEF OpenParquet, Bump, Opening, NoOpening, Started, None
<1>3. CASE CloseInterrupt(o)
  BY <1>3 DEF CloseInterrupt, InterruptBrowse
<1>4. CASE CloseInterruptAux(o)
  BY <1>4 DEF CloseInterruptAux, InterruptAux
<1>5. CASE DropConn(o)
  BY <1>5 DEF DropConn, None
<1>6. CASE DropAux(o)
  BY <1>6 DEF DropAux, None
<1>7. CASE DropPath(o)
  BY <1>7 DEF DropPath, None
<1>8. CASE DropHandle(o)
  BY <1>8 DEF DropHandle, None
<1>9. CASE DropAuxHandle(o)
  BY <1>9 DEF DropAuxHandle, None
<1>10. CASE DropParquet(o)
  BY <1>10 DEF DropParquet, None
<1>11. CASE ClearIndexes(o)
  BY <1>11 DEF ClearIndexes
<1>12. CASE ClearOrders(o)
  BY <1>12 DEF ClearOrders
<1>13. CASE ClearCounts(o)
  BY <1>13 DEF ClearCounts, None
<1>14. CASE SetParquet(o)
  BY <1>14 DEF SetParquet, Opening
<1> QED BY <1>1, <1>2, <1>3, <1>4, <1>5, <1>6, <1>7, <1>8, <1>9, <1>10, <1>11, <1>12,
     <1>13, <1>14 DEF CloseOrParquet

(* Every step of cancel_queries keeps it.                                  *)
LEMMA CancelTypes ==
  ASSUME TypeInv, NEW c \in Cancellers, Cancel(c)
  PROVE  TypeInv'
<1> USE ThreadsAssumption DEF TypeInv, TypeOK, Shape, Threads, Goto, CancellerPC,
     sessionVars, cacheVars, lockVars, stopVars
<1>1. CASE CancelQueries(c)
  BY <1>1 DEF CancelQueries, Bump
<1>2. CASE CancelInterrupt(c)
  BY <1>2 DEF CancelInterrupt, InterruptBrowse
<1>3. CASE CancelInterruptAux(c)
  BY <1>3 DEF CancelInterruptAux, InterruptAux
<1> QED BY <1>1, <1>2, <1>3 DEF Cancel

(* The index entry a finished scan leaves behind.                          *)
IndexEntry(r) == [snap |-> job[r].snap, rows |-> job[r].scanned,
                  limit |-> job[r].want.limit, total |-> job[r].total]

(* Updating the fields of a reader's job one by one with values of their   *)
(* types gives a job again.                                                *)
LEMMA JobTyped ==
  ASSUME NEW r \in Readers, job \in [Readers -> Job], parquet \in Nat, conn \in Nat,
       generation \in Nat,
         counts \in [Tables -> Nat], indexes \in [Tables -> {NoEntry} \cup RowidIndex],
         orders \in [Tables -> {NoEntry} \cup OrderedRows],
         pc[r] # "idle" => job[r].want \in Request
  PROVE  /\ ToParquet(r) => job' \in [Readers -> Job]
         /\ QueryTable(r) \/ CountRows(r) => job' \in [Readers -> Job]
         /\ CountCached(r) => job' \in [Readers -> Job]
         /\ LookupIndex(r) => job' \in [Readers -> Job]
         /\ LookupOrder(r) => job' \in [Readers -> Job]
         /\ OrderBuilt(r) /\ job[r].want.view \in Views => job' \in [Readers -> Job]
         /\ CountEnd(r) => job' \in [Readers -> Job]
         /\ IndexBuilt(r) /\ IndexEntry(r) \in RowidIndex => job' \in [Readers -> Job]
<1>1. ASSUME ToParquet(r) PROVE job' \in [Readers -> Job]
  <2>1. "parquet" \in Statuses
    BY DEF Statuses
  <2>2. \A status \in Statuses :
          [job EXCEPT ![r].snap = parquet, ![r].status = status] \in [Readers -> Job]
    BY DEF Job
  <2> QED BY <1>1, <2>1, <2>2 DEF ToParquet
<1>2. ASSUME NEW to, NEW goal \in Goals, Acquire(r, to,
     goal) PROVE job' \in [Readers -> Job]
  BY <1>2 DEF Acquire, Job
<1>3. QueryTable(r) \/ CountRows(r) => job' \in [Readers -> Job]
  BY <1>2 DEF QueryTable, CountRows, Goals
<1>9. ASSUME NEW from, NEW snap \in Nat, Counted(r, from, snap)
      PROVE job' \in [Readers -> Job]
  BY <1>9 DEF Counted, Job, Statuses
<1>4. ASSUME CountCached(r) PROVE job' \in [Readers -> Job]
  <2>1. counts[job[r].want.table] \in Nat
    BY <1>4 DEF CountCached, Request, Goto, Counted
  <2> QED BY <1>4, <1>9, <2>1 DEF CountCached
<1>10. ASSUME CountEnd(r) PROVE job' \in [Readers -> Job]
  <2>1. job[r].snap \in Nat
    BY DEF Job
  <2> QED BY <1>9, <1>10, <2>1 DEF CountEnd
<1>5. ASSUME NEW from, NEW entry \in RowidIndex, UseIndex(r, from,
     entry) PROVE job' \in [Readers -> Job]
  <2>1. entry.total \in Nat
    BY DEF RowidIndex
  <2> QED BY <1>5, <2>1 DEF UseIndex, Job, Goals
<1>6. ASSUME LookupIndex(r) PROVE job' \in [Readers -> Job]
  <2>1. Usable(indexes[job[r].want.table],
       job[r].want) => indexes[job[r].want.table] \in RowidIndex
    BY <1>6 DEF LookupIndex, Usable, Request
  <2>2. ~Usable(indexes[job[r].want.table], job[r].want) => job' \in [Readers -> Job]
    BY <1>6 DEF LookupIndex, Job, Goals
  <2> QED BY <1>5, <1>6, <2>1, <2>2 DEF LookupIndex
<1>7. ASSUME LookupOrder(r) PROVE job' \in [Readers -> Job]
  <2>1. Fresh(orders[job[r].want.table],
       job[r].want) => orders[job[r].want.table] \in OrderedRows
    BY <1>7 DEF LookupOrder, Fresh, Request
  <2>2. \A entry \in OrderedRows : entry.snap \in Nat
    BY DEF OrderedRows
  <2>3. \A entry \in OrderedRows : [job EXCEPT ![r].via = entry,
       ![r].total = entry.snap] \in [Readers -> Job]
    BY <2>2 DEF Job
  <2> QED BY <1>7, <2>1, <2>3 DEF LookupOrder
<1>8. ASSUME OrderBuilt(r), job[r].want.view \in Views PROVE job' \in [Readers -> Job]
  <2> DEFINE entry == [snap |-> job[r].snap, rows |-> job[r].scanned,
       view |-> job[r].want.view]
  <2>1. entry \in OrderedRows /\ job[r].snap \in Nat
    BY <1>8 DEF OrderedRows, Job
  <2> HIDE DEF entry
  <2>2. [job EXCEPT ![r].via = entry, ![r].total = job[r].snap] \in [Readers -> Job]
    BY <2>1 DEF Job
  <2> QED BY <1>8, <2>2 DEF OrderBuilt, entry
<1>11. ASSUME IndexBuilt(r), IndexEntry(r) \in RowidIndex PROVE job' \in [Readers -> Job]
  BY <1>5, <1>11 DEF IndexBuilt, IndexEntry
<1> QED BY <1>1, <1>3, <1>4, <1>6, <1>7, <1>8, <1>10, <1>11

(* The same of an SQL thread's job.                                        *)
LEMMA SqlTyped ==
  ASSUME NEW s \in SqlThreads, sql \in [SqlThreads -> SqlJob], parquet \in Nat,
       generation \in Nat
  PROVE  SqlAsk(s) \/ SqlToParquet(s) \/ Prepare(s) => sql' \in [SqlThreads -> SqlJob]
<1>1. ASSUME SqlAsk(s) PROVE sql' \in [SqlThreads -> SqlJob]
  BY <1>1, DataAssumption DEF SqlAsk, SqlJob
<1>2. ASSUME SqlToParquet(s) PROVE sql' \in [SqlThreads -> SqlJob]
  <2>1. "parquet" \in Statuses
    BY DEF Statuses
  <2>2. \A status \in Statuses :
          [sql EXCEPT ![s].snap = parquet, ![s].status = status] \in [SqlThreads -> SqlJob]
    BY DEF SqlJob
  <2> QED BY <1>2, <2>1, <2>2 DEF SqlToParquet
<1>3. ASSUME Prepare(s) PROVE sql' \in [SqlThreads -> SqlJob]
  <2>1. \A n \in Nat : [sql EXCEPT ![s].gen = generation,
       ![s].scanned = n] \in [SqlThreads -> SqlJob]
    BY DEF SqlJob
  <2> QED BY <1>3, <2>1 DEF Prepare
<1> QED BY <1>1, <1>2, <1>3

(* Every step of query_table and count_rows keeps the type invariant.      *)
LEMMA ReaderTypes ==
  ASSUME TypeInv, NEW r \in Readers, Ask(r) \/ Answer(r)
  PROVE  TypeInv'
<1> USE ThreadsAssumption DEF TypeInv, TypeOK, Shape, Threads, Goto, ReaderPC,
     sessionVars, cacheVars, browseRest
<1>1. CASE Ask(r)
  BY <1>1 DEF Ask, Job
<1>2. CASE ToParquet(r)
  <2>1. job' \in [Readers -> Job]
    BY <1>2, JobTyped
  <2>2. job'[r].want = job[r].want /\ \A q \in Readers : q # r => job'[q] = job[q]
    BY <1>2 DEF ToParquet, Job
  <2> QED BY <1>2, <2>1, <2>2 DEF ToParquet
<1>3. CASE ToSqlite(r)
  BY <1>3 DEF ToSqlite
<1>4. CASE NotOpen(r)
  BY <1>4 DEF NotOpen, Job, Statuses
<1>5. CASE QueryTable(r)
  <2>1. job' \in [Readers -> Job]
    BY <1>5, JobTyped
  <2>2. PICK to \in {"index", "count", "order", "page", "scan"}, goal \in Goals :
          Acquire(r, to, goal) /\ (to = "order" \/ goal = "order" => Sorted(job[r].want))
    BY <1>5 DEF QueryTable, Goals
  <2>3. /\ job'[r].want = job[r].want /\ job'[r].goal = goal
        /\ \A q \in Readers : q # r => job'[q] = job[q]
    BY <2>2 DEF Acquire, Job
  <2>4. Sorted(job[r].want) => job[r].want.view \in Views
    BY <1>5 DEF QueryTable, Acquire, Sorted, Request
  <2>5. \A q \in Readers : Shape(q)'
    BY <2>2, <2>3, <2>4 DEF Acquire
  <2> QED BY <1>5, <2>2, <2>1, <2>5 DEF Acquire
<1>6. CASE CountRows(r)
  <2>1. job' \in [Readers -> Job]
    BY <1>6, JobTyped
  <2>2. PICK to \in {"count", "page"} : Acquire(r, to, "answer")
    BY <1>6 DEF CountRows
  <2>3. /\ job'[r].want = job[r].want /\ job'[r].goal = "answer"
        /\ \A q \in Readers : q # r => job'[q] = job[q]
    BY <2>2 DEF Acquire, Job
  <2>4. \A q \in Readers : Shape(q)'
    BY <2>2, <2>3 DEF Acquire
  <2> QED BY <2>1, <2>2, <2>4 DEF Acquire
<1>7. CASE CountCached(r)
  <2>1. job' \in [Readers -> Job]
    BY <1>7, JobTyped
  <2>2. /\ job'[r].want = job[r].want /\ job'[r].goal = job[r].goal
        /\ \A q \in Readers : q # r => job'[q] = job[q]
    BY <1>7 DEF CountCached, Counted, Job
  <2>3. \A q \in Readers : Shape(q)'
    BY <1>7, <2>2 DEF CountCached, Counted
  <2> QED BY <1>7, <2>1, <2>3 DEF CountCached, Counted, LowerFlag
<1>8. CASE CountStart(r)
  BY <1>8 DEF CountStart, LowerFlag
<1>9. CASE CountEnd(r)
  <2>1. job' \in [Readers -> Job]
    BY <1>9, JobTyped
  <2>2. /\ job'[r].want = job[r].want /\ job'[r].goal = job[r].goal
        /\ \A q \in Readers : q # r => job'[q] = job[q]
    BY <1>9 DEF CountEnd, Counted, Job
  <2>3. \A q \in Readers : Shape(q)'
    BY <1>9, <2>2 DEF CountEnd, Counted
  <2>4. job[r].snap \in Nat
    BY DEF Job
  <2>5. counts' \in [Tables -> Nat]
    BY <1>9, <2>4 DEF CountEnd
  <2> QED BY <1>9, <2>1, <2>3, <2>5 DEF CountEnd, Counted, LowerFlag
<1>10. CASE CountFails(r)
  <2>1. job' \in [Readers -> Job]
    BY <1>10 DEF CountFails, IndexBuildFails, Failure, Finish, Job, Statuses, Goals
  <2>2. /\ job'[r].want = job[r].want
        /\ job'[r].goal \in {job[r].goal, "offset"}
        /\ \A q \in Readers : q # r => job'[q] = job[q]
    BY <1>10 DEF CountFails, IndexBuildFails, Finish, Job
  <2>3. \A q \in Readers : Shape(q)'
    BY <1>10, <2>2 DEF CountFails, IndexBuildFails, Finish
  <2> QED BY <1>10, <2>1, <2>3 DEF CountFails, IndexBuildFails, LowerFlag, Finish
<1>11. CASE LookupIndex(r)
  <2>1. job' \in [Readers -> Job]
    BY <1>11, JobTyped
  <2>2. /\ job'[r].want = job[r].want /\ (pc'[r] = "page" \/ job'[r].goal # "order")
        /\ \A q \in Readers : q # r => job'[q] = job[q]
    BY <1>11 DEF LookupIndex, UseIndex, Job
  <2>3. \A q \in Readers : Shape(q)'
    BY <1>11, <2>2 DEF LookupIndex, UseIndex
  <2>4. indexes' \in [Tables -> {NoEntry} \cup RowidIndex]
    BY <1>11 DEF LookupIndex
  <2> QED BY <1>11, <2>1, <2>3, <2>4 DEF LookupIndex, UseIndex, LowerFlag
<1>12. CASE LookupOrder(r)
  <2>1. job' \in [Readers -> Job]
    BY <1>12, JobTyped
  <2>2. /\ job'[r].want = job[r].want
        /\ \A q \in Readers : q # r => job'[q] = job[q]
    BY <1>12 DEF LookupOrder, Job
  <2> QED BY <1>12, <2>1, <2>2 DEF LookupOrder, LowerFlag
<1>13. CASE ScanRow(r)
  BY <1>13 DEF ScanRow, Job
<1>14. CASE ScanCancelled(r)
  BY <1>14 DEF ScanCancelled, Finish, LowerFlag, Job, Statuses
<1>15. CASE ScanFails(r)
  <2>1. job' \in [Readers -> Job]
    BY <1>15 DEF ScanFails, IndexBuildFails, Failure, Finish, Job, Statuses, Goals
  <2>2. /\ job'[r].want = job[r].want
        /\ pc'[r] = "done" \/ job'[r].goal = "offset"
        /\ \A q \in Readers : q # r => job'[q] = job[q]
    BY <1>15 DEF ScanFails, IndexBuildFails, Finish, Job
  <2>3. \A q \in Readers : Shape(q)'
    BY <1>15, <2>2 DEF ScanFails, IndexBuildFails, Finish
  <2> QED BY <1>15, <2>1, <2>3 DEF ScanFails, IndexBuildFails, LowerFlag, Finish
<1>16. CASE IndexBuilt(r)
  <2>1. job[r].want \in Request /\ job[r].goal = "index"
    BY <1>16 DEF IndexBuilt, UseIndex
  <2>2. IndexEntry(r) \in RowidIndex
    BY <2>1 DEF IndexEntry, RowidIndex, Job, Request
  <2>3. job' \in [Readers -> Job]
    BY <1>16, <2>2, JobTyped
  <2>4. /\ UseIndex(r, "scan", IndexEntry(r))
        /\ indexes' = [indexes EXCEPT ![job[r].want.table] = IndexEntry(r)]
    BY <1>16 DEF IndexBuilt, IndexEntry
  <2>5. /\ job'[r].want = job[r].want /\ job'[r].goal \in {"index", "offset"}
        /\ \A q \in Readers : q # r => job'[q] = job[q]
    BY <2>1, <2>4 DEF UseIndex, Job
  <2>6. \A q \in Readers : Shape(q)'
    BY <2>1, <2>4, <2>5 DEF UseIndex
  <2>7. indexes' \in [Tables -> {NoEntry} \cup RowidIndex]
    BY <2>2, <2>4
  <2> QED BY <1>16, <2>3, <2>4, <2>6, <2>7 DEF IndexBuilt, UseIndex, LowerFlag
<1>17. CASE OrderBuilt(r)
  <2> DEFINE entry == [snap |-> job[r].snap, rows |-> job[r].scanned,
       view |-> job[r].want.view]
  <2>1. job[r].want.view \in Views /\ entry \in OrderedRows
    BY <1>17 DEF OrderBuilt, OrderedRows, Job
  <2>2. job' \in [Readers -> Job]
    BY <1>17, <2>1, JobTyped
  <2>3. /\ job'[r].want = job[r].want
        /\ \A q \in Readers : q # r => job'[q] = job[q]
    BY <1>17 DEF OrderBuilt, Job
  <2>4. orders' \in [Tables -> {NoEntry} \cup OrderedRows]
    BY <1>17, <2>1 DEF OrderBuilt
  <2> QED BY <1>17, <2>2, <2>3, <2>4 DEF OrderBuilt, LowerFlag
<1>18. CASE RegexScanned(r)
  BY <1>18 DEF RegexScanned, ScanEnds, LowerFlag, Job, Finish, Statuses
<1>19. CASE PageRead(r)
  BY <1>19 DEF PageRead, LowerFlag, Job, Finish, Statuses
<1>20. CASE PageFails(r)
  BY <1>20 DEF PageFails, LowerFlag, Failure, Job, Finish, Statuses
<1>21. CASE Rejected(r)
  BY <1>21 DEF Rejected, Job, Statuses
<1>22. CASE Deliver(r)
  BY <1>22 DEF Deliver, NoJob, Job, NoRequest, Goals, Statuses, None
<1> QED BY <1>1, <1>2, <1>3, <1>4, <1>5, <1>6, <1>7, <1>8, <1>9, <1>10, <1>11, <1>12,
     <1>13, <1>14, <1>15, <1>16, <1>17, <1>18, <1>19, <1>20, <1>21, <1>22 DEF Answer

(* Every step on the second connection keeps it.                           *)
LEMMA SqlTypes ==
  ASSUME TypeInv, NEW s \in SqlThreads, SqlAsk(s) \/ SqlAnswer(s)
  PROVE  TypeInv'
<1> USE ThreadsAssumption DEF TypeInv, TypeOK, Shape, Threads, Goto, SqlPC, sessionVars,
     cacheVars, sqlRest
<1>1. CASE SqlAsk(s)
  <2>1. sql' \in [SqlThreads -> SqlJob]
    BY <1>1, SqlTyped
  <2> QED BY <1>1, <2>1 DEF SqlAsk
<1>2. CASE SqlToParquet(s)
  <2>1. sql' \in [SqlThreads -> SqlJob]
    BY <1>2, SqlTyped
  <2> QED BY <1>2, <2>1 DEF SqlToParquet
<1>3. CASE SqlToSqlite(s)
  BY <1>3 DEF SqlToSqlite
<1>4. CASE SqlNotOpen(s)
  BY <1>4 DEF SqlNotOpen, SqlJob, Statuses
<1>5. CASE ValidateBusy(s)
  BY <1>5 DEF ValidateBusy, SqlJob, Statuses
<1>6. CASE SqlAcquire(s)
  BY <1>6 DEF SqlAcquire, SqlJob, Statuses
<1>7. CASE PrepareFails(s)
  BY <1>7 DEF PrepareFails, SqlJob, Statuses, SqlFinish
<1>8. CASE PrepareOnly(s)
  BY <1>8 DEF PrepareOnly, SqlJob, Statuses, SqlFinish
<1>9. CASE Prepare(s)
  <2>1. sql' \in [SqlThreads -> SqlJob]
    BY <1>9, SqlTyped
  <2> QED BY <1>9, <2>1 DEF Prepare
<1>10. CASE SqlRow(s)
  BY <1>10 DEF SqlRow, SqlJob, Statuses
<1>11. CASE SqlCancelled(s)
  BY <1>11 DEF SqlCancelled, SqlJob, Statuses, SqlFinish
<1>12. CASE SqlFails(s)
  BY <1>12 DEF SqlFails, SqlJob, Statuses, SqlFinish
<1>13. CASE SqlEnd(s)
  BY <1>13 DEF SqlEnd, SqlJob, Statuses, SqlFinish
<1>14. CASE SqlDeliver(s)
  BY <1>14 DEF SqlDeliver, SqlJob, Statuses, NoSqlJob, None, AllSqlKinds
<1> QED BY <1>1, <1>2, <1>3, <1>4, <1>5, <1>6, <1>7, <1>8, <1>9, <1>10, <1>11, <1>12,
     <1>13, <1>14 DEF SqlAnswer

(* Every step of the backend, and a stutter, keeps the type invariant.     *)
LEMMA TypeStep == TypeInv /\ [Next]_vars => TypeInv'
<1> SUFFICES ASSUME TypeInv, [Next]_vars PROVE TypeInv'
  OBVIOUS
<1>1. CASE UNCHANGED vars
  BY <1>1 DEF TypeInv, TypeOK, Shape, vars, sessionVars, cacheVars, lockVars, stopVars
<1>2. CASE Next
  BY <1>2, OpenTypes, CloseTypes, CancelTypes, ReaderTypes, SqlTypes DEF Next
<1> QED BY <1>1, <1>2

(* Type correctness: the backend's state always has the shape of DbState.  *)
THEOREM TypeCorrect == Spec => []TypeOK
<1>1. TypeInv => TypeOK
  BY DEF TypeInv
<1> QED BY TypeInit, TypeStep, <1>1, PTL DEF Spec

-----------------------------------------------------------------------------
(* An opener in the critical section of open_database (schema.rs) owns     *)
(* the locks it has taken so far.                                          *)
OpenersHold ==
  \A o \in Openers : /\ pc[o] \in {"swap_aux", "swap_in"} => connLock = o
                     /\ pc[o] = "swap_in" => auxLock = o

LockInv == ConnectionHeld /\ OpenersHold

(* Nobody holds a lock before the first command.                           *)
LEMMA LockInit == Init => LockInv
  BY DEF Init, LockInv, ConnectionHeld, OpenersHold, HoldsConn, HoldsAux, HoldsConnPC,
       RunningPC, Threads

(* Opens and closes respect the locks: they publish and drop a connection  *)
(* only while they own its lock or nobody does.                            *)
LEMMA LifecycleLocks ==
  ASSUME TypeInv, LockInv, NEW o \in Openers, OpenSqlite(o) \/ CloseOrParquet(o)
  PROVE  LockInv'
<1> USE ThreadsAssumption DEF LockInv, OpenersHold, ConnectionHeld, HoldsConn, HoldsAux,
      HoldsConnPC, RunningPC, Threads, TypeInv, TypeOK, Goto, sessionVars, lockVars
<1>1. CASE OpenDatabase(o)
  BY <1>1 DEF OpenDatabase
<1>2. CASE OpenInterrupt(o)
  BY <1>2 DEF OpenInterrupt
<1>3. CASE OpenInterruptAux(o)
  BY <1>3 DEF OpenInterruptAux
<1>4. CASE Connect(o)
  BY <1>4 DEF Connect
<1>5. CASE ConnectFails(o)
  BY <1>5 DEF ConnectFails
<1>6. CASE PublishHandle(o)
  BY <1>6 DEF PublishHandle
<1>7. CASE PublishAuxHandle(o)
  BY <1>7 DEF PublishAuxHandle
<1>8. CASE Sweep(o)
  BY <1>8 DEF Sweep
<1>9. CASE SweepFails(o)
  BY <1>9 DEF SweepFails
<1>10. CASE RestoreHandle(o)
  BY <1>10 DEF RestoreHandle
<1>11. CASE RestoreAuxHandle(o)
  BY <1>11 DEF RestoreAuxHandle
<1>12. CASE LockConn(o)
  BY <1>12 DEF LockConn
<1>13. CASE LockAux(o)
  BY <1>13 DEF LockAux
<1>14. CASE Swap(o)
  BY <1>14 DEF Swap, None
<1>15. CASE TakeParquet(o)
  BY <1>15 DEF TakeParquet
<1>16. CASE NameFile(o)
  BY <1>16 DEF NameFile
<1>17. CASE CloseDatabase(o)
  BY <1>17 DEF CloseDatabase
<1>18. CASE OpenParquet(o)
  BY <1>18 DEF OpenParquet
<1>19. CASE CloseInterrupt(o)
  BY <1>19 DEF CloseInterrupt
<1>20. CASE CloseInterruptAux(o)
  BY <1>20 DEF CloseInterruptAux
<1>21. CASE DropConn(o)
  BY <1>21 DEF DropConn
<1>22. CASE DropAux(o)
  BY <1>22 DEF DropAux
<1>23. CASE DropPath(o)
  BY <1>23 DEF DropPath
<1>24. CASE DropHandle(o)
  BY <1>24 DEF DropHandle
<1>25. CASE DropAuxHandle(o)
  BY <1>25 DEF DropAuxHandle
<1>26. CASE DropParquet(o)
  BY <1>26 DEF DropParquet
<1>27. CASE ClearIndexes(o)
  BY <1>27 DEF ClearIndexes
<1>28. CASE ClearOrders(o)
  BY <1>28 DEF ClearOrders
<1>29. CASE ClearCounts(o)
  BY <1>29 DEF ClearCounts
<1>30. CASE SetParquet(o)
  BY <1>30 DEF SetParquet
<1> QED BY <1>1, <1>2, <1>3, <1>4, <1>5, <1>6, <1>7, <1>8, <1>9, <1>10, <1>11, <1>12,
     <1>13, <1>14, <1>15, <1>16, <1>17, <1>18, <1>19, <1>20, <1>21, <1>22, <1>23, <1>24,
     <1>25, <1>26, <1>27, <1>28, <1>29, <1>30 DEF OpenSqlite, CloseOrParquet

(* A cancel takes no lock and touches no connection.                       *)
LEMMA CancelLocks ==
  ASSUME TypeInv, LockInv, NEW c \in Cancellers, Cancel(c)
  PROVE  LockInv'
<1> USE ThreadsAssumption DEF LockInv, OpenersHold, ConnectionHeld, HoldsConn, HoldsAux,
      HoldsConnPC, RunningPC, Threads, TypeInv, TypeOK, Goto, sessionVars, lockVars
<1>1. CASE CancelQueries(c)
  BY <1>1 DEF CancelQueries
<1>2. CASE CancelInterrupt(c)
  BY <1>2 DEF CancelInterrupt
<1>3. CASE CancelInterruptAux(c)
  BY <1>3 DEF CancelInterruptAux
<1> QED BY <1>1, <1>2, <1>3 DEF Cancel

(* A reader takes the lock of `conn` with the connection it reads, and     *)
(* gives it back with its answer.                                          *)
LEMMA ReaderLocks ==
  ASSUME TypeInv, LockInv, NEW r \in Readers, Ask(r) \/ Answer(r)
  PROVE  LockInv'
<1> USE ThreadsAssumption DEF LockInv, OpenersHold, ConnectionHeld, HoldsConn, HoldsAux,
      HoldsConnPC, RunningPC, Threads, TypeInv, TypeOK, Goto, sessionVars, lockVars,
           browseRest, Job
<1>1. CASE Ask(r)
  BY <1>1 DEF Ask
<1>2. CASE ToParquet(r)
  BY <1>2 DEF ToParquet
<1>3. CASE ToSqlite(r)
  BY <1>3 DEF ToSqlite
<1>4. CASE NotOpen(r)
  BY <1>4 DEF NotOpen
<1>5. CASE Rejected(r)
  BY <1>5 DEF Rejected
<1>6. CASE QueryTable(r)
  BY <1>6 DEF QueryTable, Acquire
<1>7. CASE CountRows(r)
  BY <1>7 DEF CountRows, Acquire
<1>8. CASE CountCached(r)
  BY <1>8 DEF CountCached, Counted
<1>9. CASE CountStart(r)
  BY <1>9 DEF CountStart
<1>10. CASE CountEnd(r)
  BY <1>10 DEF CountEnd, Counted
<1>11. CASE CountFails(r)
  BY <1>11 DEF CountFails, IndexBuildFails, Finish
<1>12. CASE LookupIndex(r)
  BY <1>12 DEF LookupIndex, UseIndex
<1>13. CASE LookupOrder(r)
  BY <1>13 DEF LookupOrder
<1>14. CASE ScanRow(r)
  BY <1>14 DEF ScanRow
<1>15. CASE ScanCancelled(r)
  BY <1>15 DEF ScanCancelled, Finish
<1>16. CASE ScanFails(r)
  BY <1>16 DEF ScanFails, IndexBuildFails, Finish
<1>17. CASE IndexBuilt(r)
  BY <1>17 DEF IndexBuilt, UseIndex, ScanEnds
<1>18. CASE OrderBuilt(r)
  BY <1>18 DEF OrderBuilt, ScanEnds
<1>19. CASE RegexScanned(r)
  BY <1>19 DEF RegexScanned, ScanEnds, Finish
<1>20. CASE PageRead(r)
  BY <1>20 DEF PageRead, Finish
<1>21. CASE PageFails(r)
  BY <1>21 DEF PageFails, Finish
<1>22. CASE Deliver(r)
  BY <1>22 DEF Deliver, NoJob
<1> QED BY <1>1, <1>2, <1>3, <1>4, <1>5, <1>6, <1>7, <1>8, <1>9, <1>10, <1>11, <1>12,
     <1>13, <1>14, <1>15, <1>16, <1>17, <1>18, <1>19, <1>20, <1>21, <1>22 DEF Answer

(* The same of an SQL thread and `aux_conn`.                               *)
LEMMA SqlLocks ==
  ASSUME TypeInv, LockInv, NEW s \in SqlThreads, SqlAsk(s) \/ SqlAnswer(s)
  PROVE  LockInv'
<1> USE ThreadsAssumption DEF LockInv, OpenersHold, ConnectionHeld, HoldsConn, HoldsAux,
      HoldsConnPC, RunningPC, Threads, TypeInv, TypeOK, Goto, sessionVars, lockVars,
           sqlRest, SqlJob
<1>1. CASE SqlAsk(s)
  BY <1>1 DEF SqlAsk
<1>2. CASE SqlToParquet(s)
  BY <1>2 DEF SqlToParquet
<1>3. CASE SqlToSqlite(s)
  BY <1>3 DEF SqlToSqlite
<1>4. CASE SqlNotOpen(s)
  BY <1>4 DEF SqlNotOpen
<1>5. CASE ValidateBusy(s)
  BY <1>5 DEF ValidateBusy
<1>6. CASE SqlAcquire(s)
  BY <1>6 DEF SqlAcquire
<1>7. CASE PrepareFails(s)
  BY <1>7 DEF PrepareFails, SqlFinish
<1>8. CASE PrepareOnly(s)
  BY <1>8 DEF PrepareOnly, SqlFinish
<1>9. CASE Prepare(s)
  BY <1>9 DEF Prepare
<1>10. CASE SqlRow(s)
  BY <1>10 DEF SqlRow
<1>11. CASE SqlCancelled(s)
  BY <1>11 DEF SqlCancelled, SqlFinish
<1>12. CASE SqlFails(s)
  BY <1>12 DEF SqlFails, SqlFinish
<1>13. CASE SqlEnd(s)
  BY <1>13 DEF SqlEnd, SqlFinish
<1>14. CASE SqlDeliver(s)
  BY <1>14 DEF SqlDeliver, NoSqlJob
<1> QED BY <1>1, <1>2, <1>3, <1>4, <1>5, <1>6, <1>7, <1>8, <1>9, <1>10, <1>11, <1>12,
     <1>13, <1>14 DEF SqlAnswer

(* Every step of the backend keeps the lock invariant.                     *)
LEMMA LockStep == TypeInv /\ LockInv /\ [Next]_vars => LockInv'
<1> SUFFICES ASSUME TypeInv, LockInv, [Next]_vars PROVE LockInv'
  OBVIOUS
<1>1. CASE UNCHANGED vars
  BY <1>1 DEF LockInv, OpenersHold, ConnectionHeld, HoldsConn, HoldsAux, vars,
       sessionVars, lockVars
<1>2. CASE Next
  BY <1>2, LifecycleLocks, CancelLocks, ReaderLocks, SqlLocks DEF Next
<1> QED BY <1>1, <1>2

(* Both mutexes exclude, and the connection a request runs on is the       *)
(* published one until it lets go, however many threads there are.         *)
THEOREM ConnectionAlwaysHeld == Spec => []ConnectionHeld
<1>1. TypeInv /\ LockInv /\ [Next]_vars => (TypeInv /\ LockInv)'
  BY TypeStep, LockStep
<1>2. LockInv => ConnectionHeld
  BY DEF LockInv
<1> QED BY TypeInit, LockInit, <1>1, <1>2, PTL DEF Spec

-----------------------------------------------------------------------------
(* What is cached belongs to the published connection and is whole.        *)
CacheInv == CachesBelongToConnection /\ CachesComplete

(* Nothing is cached before the first command.                             *)
LEMMA CacheInit == Init => CacheInv
  BY DEF Init, CacheInv, CachesBelongToConnection, CachesComplete, None, NoEntry

(* An open clears the caches in the step that publishes the connection; a  *)
(* close publishes none, and clears them later.                            *)
LEMMA LifecycleCaches ==
  ASSUME TypeInv, LockInv, CacheInv, NEW o \in Openers, OpenSqlite(o) \/ CloseOrParquet(o)
  PROVE  CacheInv'
<1> USE ThreadsAssumption DEF LockInv, OpenersHold, ConnectionHeld, HoldsConn,
      HoldsConnPC, RunningPC, Threads, TypeInv, TypeOK, Goto, sessionVars, cacheVars,
      CacheInv, CachesBelongToConnection, CachesComplete, None, NoEntry
<1>1. CASE OpenDatabase(o)
  BY <1>1 DEF OpenDatabase
<1>2. CASE OpenInterrupt(o)
  BY <1>2 DEF OpenInterrupt
<1>3. CASE OpenInterruptAux(o)
  BY <1>3 DEF OpenInterruptAux
<1>4. CASE Connect(o)
  BY <1>4 DEF Connect
<1>5. CASE ConnectFails(o)
  BY <1>5 DEF ConnectFails
<1>6. CASE PublishHandle(o)
  BY <1>6 DEF PublishHandle
<1>7. CASE PublishAuxHandle(o)
  BY <1>7 DEF PublishAuxHandle
<1>8. CASE Sweep(o)
  BY <1>8 DEF Sweep
<1>9. CASE SweepFails(o)
  BY <1>9 DEF SweepFails
<1>10. CASE RestoreHandle(o)
  BY <1>10 DEF RestoreHandle
<1>11. CASE RestoreAuxHandle(o)
  BY <1>11 DEF RestoreAuxHandle
<1>12. CASE LockConn(o)
  BY <1>12 DEF LockConn
<1>13. CASE LockAux(o)
  BY <1>13 DEF LockAux
<1>14. CASE Swap(o)
  BY <1>14 DEF Swap, SeededCounts
<1>15. CASE TakeParquet(o)
  BY <1>15 DEF TakeParquet
<1>16. CASE NameFile(o)
  BY <1>16 DEF NameFile
<1>17. CASE CloseDatabase(o)
  BY <1>17 DEF CloseDatabase
<1>18. CASE OpenParquet(o)
  BY <1>18 DEF OpenParquet
<1>19. CASE CloseInterrupt(o)
  BY <1>19 DEF CloseInterrupt
<1>20. CASE CloseInterruptAux(o)
  BY <1>20 DEF CloseInterruptAux
<1>21. CASE DropConn(o)
  BY <1>21 DEF DropConn
<1>22. CASE DropAux(o)
  BY <1>22 DEF DropAux
<1>23. CASE DropPath(o)
  BY <1>23 DEF DropPath
<1>24. CASE DropHandle(o)
  BY <1>24 DEF DropHandle
<1>25. CASE DropAuxHandle(o)
  BY <1>25 DEF DropAuxHandle
<1>26. CASE DropParquet(o)
  BY <1>26 DEF DropParquet
<1>27. CASE ClearIndexes(o)
  BY <1>27 DEF ClearIndexes
<1>28. CASE ClearOrders(o)
  BY <1>28 DEF ClearOrders
<1>29. CASE ClearCounts(o)
  BY <1>29 DEF ClearCounts
<1>30. CASE SetParquet(o)
  BY <1>30 DEF SetParquet
<1> QED BY <1>1, <1>2, <1>3, <1>4, <1>5, <1>6, <1>7, <1>8, <1>9, <1>10, <1>11, <1>12,
     <1>13, <1>14, <1>15, <1>16, <1>17, <1>18, <1>19, <1>20, <1>21, <1>22, <1>23, <1>24,
     <1>25, <1>26, <1>27, <1>28, <1>29, <1>30 DEF OpenSqlite, CloseOrParquet

(* A cancel leaves the caches alone.                                       *)
LEMMA CancelCaches ==
  ASSUME CacheInv, NEW c \in Cancellers, Cancel(c)
  PROVE  CacheInv'
<1> USE ThreadsAssumption DEF LockInv, OpenersHold, ConnectionHeld, HoldsConn,
      HoldsConnPC, RunningPC, Threads, TypeInv, TypeOK, Goto, sessionVars, cacheVars,
      CacheInv, CachesBelongToConnection, CachesComplete, None, NoEntry
<1>1. CASE CancelQueries(c)
  BY <1>1 DEF CancelQueries
<1>2. CASE CancelInterrupt(c)
  BY <1>2 DEF CancelInterrupt
<1>3. CASE CancelInterruptAux(c)
  BY <1>3 DEF CancelInterruptAux
<1> QED BY <1>1, <1>2, <1>3 DEF Cancel

(* A reader caches what it read through the connection it holds, and only  *)
(* once its scan reached the last row.                                     *)
LEMMA ReaderCaches ==
  ASSUME TypeInv, LockInv, CacheInv, NEW r \in Readers, Ask(r) \/ Answer(r)
  PROVE  CacheInv'
<1> USE ThreadsAssumption DEF LockInv, OpenersHold, ConnectionHeld, HoldsConn,
      HoldsConnPC, RunningPC, Threads, TypeInv, TypeOK, Goto, sessionVars, cacheVars,
      CacheInv, CachesBelongToConnection, CachesComplete, None, NoEntry, browseRest
<1>1. CASE Ask(r)
  BY <1>1 DEF Ask
<1>2. CASE ToParquet(r)
  BY <1>2 DEF ToParquet
<1>3. CASE ToSqlite(r)
  BY <1>3 DEF ToSqlite
<1>4. CASE NotOpen(r)
  BY <1>4 DEF NotOpen
<1>5. CASE Rejected(r)
  BY <1>5 DEF Rejected
<1>6. CASE QueryTable(r)
  BY <1>6 DEF QueryTable, Acquire
<1>7. CASE CountRows(r)
  BY <1>7 DEF CountRows, Acquire
<1>8. CASE CountCached(r)
  BY <1>8 DEF CountCached, Counted
<1>9. CASE CountStart(r)
  BY <1>9 DEF CountStart
<1>10. CASE CountEnd(r)
  BY <1>10 DEF CountEnd, Counted
<1>11. CASE CountFails(r)
  BY <1>11 DEF CountFails, IndexBuildFails, Finish
<1>12. CASE LookupIndex(r)
  BY <1>12 DEF LookupIndex, UseIndex
<1>13. CASE LookupOrder(r)
  BY <1>13 DEF LookupOrder
<1>14. CASE ScanRow(r)
  BY <1>14 DEF ScanRow
<1>15. CASE ScanCancelled(r)
  BY <1>15 DEF ScanCancelled, Finish
<1>16. CASE ScanFails(r)
  BY <1>16 DEF ScanFails, IndexBuildFails, Finish
<1>17. CASE IndexBuilt(r)
  BY <1>17 DEF IndexBuilt, UseIndex, ScanEnds, Job
<1>18. CASE OrderBuilt(r)
  BY <1>18 DEF OrderBuilt, ScanEnds, Job
<1>19. CASE RegexScanned(r)
  BY <1>19 DEF RegexScanned, ScanEnds, Finish
<1>20. CASE PageRead(r)
  BY <1>20 DEF PageRead, Finish
<1>21. CASE PageFails(r)
  BY <1>21 DEF PageFails, Finish
<1>22. CASE Deliver(r)
  BY <1>22 DEF Deliver, NoJob
<1> QED BY <1>1, <1>2, <1>3, <1>4, <1>5, <1>6, <1>7, <1>8, <1>9, <1>10, <1>11, <1>12,
     <1>13, <1>14, <1>15, <1>16, <1>17, <1>18, <1>19, <1>20, <1>21, <1>22 DEF Answer

(* The second connection has no cache.                                     *)
LEMMA SqlCaches ==
  ASSUME CacheInv, NEW s \in SqlThreads, SqlAsk(s) \/ SqlAnswer(s)
  PROVE  CacheInv'
<1> USE ThreadsAssumption DEF LockInv, OpenersHold, ConnectionHeld, HoldsConn,
      HoldsConnPC, RunningPC, Threads, TypeInv, TypeOK, Goto, sessionVars, cacheVars,
      CacheInv, CachesBelongToConnection, CachesComplete, None, NoEntry, sqlRest
<1>1. CASE SqlAsk(s)
  BY <1>1 DEF SqlAsk
<1>2. CASE SqlToParquet(s)
  BY <1>2 DEF SqlToParquet
<1>3. CASE SqlToSqlite(s)
  BY <1>3 DEF SqlToSqlite
<1>4. CASE SqlNotOpen(s)
  BY <1>4 DEF SqlNotOpen
<1>5. CASE ValidateBusy(s)
  BY <1>5 DEF ValidateBusy
<1>6. CASE SqlAcquire(s)
  BY <1>6 DEF SqlAcquire
<1>7. CASE PrepareFails(s)
  BY <1>7 DEF PrepareFails, SqlFinish
<1>8. CASE PrepareOnly(s)
  BY <1>8 DEF PrepareOnly, SqlFinish
<1>9. CASE Prepare(s)
  BY <1>9 DEF Prepare
<1>10. CASE SqlRow(s)
  BY <1>10 DEF SqlRow
<1>11. CASE SqlCancelled(s)
  BY <1>11 DEF SqlCancelled, SqlFinish
<1>12. CASE SqlFails(s)
  BY <1>12 DEF SqlFails, SqlFinish
<1>13. CASE SqlEnd(s)
  BY <1>13 DEF SqlEnd, SqlFinish
<1>14. CASE SqlDeliver(s)
  BY <1>14 DEF SqlDeliver, NoSqlJob
<1> QED BY <1>1, <1>2, <1>3, <1>4, <1>5, <1>6, <1>7, <1>8, <1>9, <1>10, <1>11, <1>12,
     <1>13, <1>14 DEF SqlAnswer

(* Every step of the backend keeps the cache invariant.                    *)
LEMMA CacheStep == TypeInv /\ LockInv /\ CacheInv /\ [Next]_vars => CacheInv'
<1> SUFFICES ASSUME TypeInv, LockInv, CacheInv, [Next]_vars PROVE CacheInv'
  OBVIOUS
<1>1. CASE UNCHANGED vars
  BY <1>1 DEF CacheInv, CachesBelongToConnection, CachesComplete, vars, sessionVars,
       cacheVars
<1>2. CASE Next
  BY <1>2, LifecycleCaches, CancelCaches, ReaderCaches, SqlCaches DEF Next
<1> QED BY <1>1, <1>2

(* schema.rs: no query observes a connection alongside the rowids, views   *)
(* or counts cached through another one, however the opens, closes and     *)
(* queries interleave and even if several opens race.                      *)
THEOREM CachesAlwaysBelong == Spec => []CachesBelongToConnection
<1>1. TypeInv /\ LockInv /\ CacheInv /\ [Next]_vars => (TypeInv /\ LockInv /\ CacheInv)'
  BY TypeStep, LockStep, CacheStep
<1>2. CacheInv => CachesBelongToConnection
  BY DEF CacheInv
<1> QED BY TypeInit, LockInit, CacheInit, <1>1, <1>2, PTL DEF Spec

(* query.rs: no truncated scan is ever cached, whatever failed or was      *)
(* cancelled.                                                              *)
THEOREM CachesAlwaysComplete == Spec => []CachesComplete
<1>1. TypeInv /\ LockInv /\ CacheInv /\ [Next]_vars => (TypeInv /\ LockInv /\ CacheInv)'
  BY TypeStep, LockStep, CacheStep
<1>2. CacheInv => CachesComplete
  BY DEF CacheInv
<1> QED BY TypeInit, LockInit, CacheInit, <1>1, <1>2, PTL DEF Spec

-----------------------------------------------------------------------------
(* The session as a whole, where the openers run one at a time.  Whose     *)
(* connection, handle, path and session an opener sees depends on how far  *)
(* it is: until it swaps, the file it found is served; a close takes the   *)
(* session apart part by part.                                             *)

CachesEmpty == \A t \in Tables : indexes[t] = NoEntry /\ orders[t] = NoEntry /\ counts[t] = None

(* What is served, apart from the handles.                                 *)
SameSession ==
  /\ aux = conn /\ (parquet = None \/ conn = None)
  /\ path = (IF parquet # None THEN parquet ELSE conn)
  /\ conn = None => CachesEmpty

Whole == SameSession /\ handle = conn /\ auxHandle = conn

Untouched == {"idle", "open_interrupt", "open_interrupt_aux", "connect", "publish",
              "close_interrupt", "close_interrupt_aux", "drop_conn"}
Published == {"sweep", "restore", "swap", "swap_aux", "swap_in"}
NoConnection == {"drop_aux", "drop_path", "drop_handle", "drop_aux_handle", "drop_parquet",
                 "clear_indexes", "clear_orders", "clear_counts", "set_parquet"}

Opens(o) ==
  LET snap == opening[o].snap
  IN /\ pc[o] \in Untouched => Whole
     /\ pc[o] = "publish_aux" =>
          SameSession /\ handle = snap /\ auxHandle = conn /\ opening[o].prev = conn
     /\ pc[o] \in Published =>
          /\ SameSession /\ handle = snap /\ auxHandle = snap
          /\ opening[o].prev = conn /\ opening[o].prevAux = conn
     /\ pc[o] = "restore_aux" => SameSession /\ handle = conn /\ opening[o].prevAux = conn
     /\ pc[o] = "take_parquet" =>
          conn = snap /\ aux = snap /\ handle = snap /\ auxHandle = snap
     /\ pc[o] = "name" =>
          /\ aux = conn /\ handle = conn /\ auxHandle = conn
          /\ \/ conn = snap /\ parquet = None
             \/ conn = None /\ parquet = snap /\ CachesEmpty
     /\ pc[o] \in {"publish", "publish_aux", "take_parquet", "name", "set_parquet"} \cup Published =>
          snap # None

Closes(o) ==
  /\ pc[o] \in NoConnection => conn = None
  /\ pc[o] \in NoConnection \ {"drop_aux"} => aux = None
  /\ pc[o] \in NoConnection \ {"drop_aux", "drop_path"} => path = None
  /\ pc[o] \in NoConnection \ {"drop_aux", "drop_path", "drop_handle"} => handle = None
  /\ pc[o] \in {"drop_parquet", "clear_indexes", "clear_orders", "clear_counts", "set_parquet"} =>
       auxHandle = None
  /\ pc[o] \in {"clear_indexes", "clear_orders", "clear_counts", "set_parquet"} => parquet = None
  /\ pc[o] \in {"clear_orders", "clear_counts", "set_parquet"} => \A t \in Tables : indexes[t] = NoEntry
  /\ pc[o] \in {"clear_counts", "set_parquet"} => \A t \in Tables : orders[t] = NoEntry
  /\ pc[o] = "set_parquet" => \A t \in Tables : counts[t] = None
  /\ opening[o].mode = "parquet" => opening[o].snap # None

SessionInv ==
  /\ Idle => Whole
  /\ \A o \in Openers : Opens(o) /\ Closes(o)

LEMMA SessionInit == Init => SessionInv
  BY ThreadsAssumption
  DEF Init, SessionInv, Idle, Whole, SameSession, CachesEmpty, Opens, Closes, Threads, NoOpening,
      Started, None, Untouched, Published, NoConnection

(* A step of an opener keeps its own part.                                 *)
LEMMA OpenKeepsSession ==
  ASSUME TypeInv, SessionInv, NEW o \in Openers, OpenSqlite(o)
  PROVE  Opens(o)' /\ Closes(o)'
<1>0. /\ pc \in [Threads -> OpenerPC \cup CancellerPC \cup ReaderPC \cup SqlPC] /\ o \in Threads
      /\ opening \in [Openers -> Opening] /\ opened \in Nat
      /\ Opens(o) /\ Closes(o)
  BY DEF TypeInv, TypeOK, Threads, SessionInv
<1> USE <1>0 DEF Opens, Closes, Whole, SameSession, CachesEmpty, Untouched, Published, NoConnection, Goto,
      Opening, sessionVars, cacheVars, None
<1>1. CASE OpenDatabase(o)
  BY <1>1 DEF OpenDatabase, Started
<1>2. CASE OpenInterrupt(o)
  BY <1>2 DEF OpenInterrupt
<1>3. CASE OpenInterruptAux(o)
  BY <1>3 DEF OpenInterruptAux
<1>4. CASE Connect(o)
  BY <1>4 DEF Connect
<1>5. CASE ConnectFails(o)
  BY <1>5 DEF ConnectFails, NoOpening, Started
<1>6. CASE PublishHandle(o)
  BY <1>6 DEF PublishHandle
<1>7. CASE PublishAuxHandle(o)
  BY <1>7 DEF PublishAuxHandle
<1>8. CASE Sweep(o)
  BY <1>8 DEF Sweep
<1>9. CASE SweepFails(o)
  BY <1>9 DEF SweepFails
<1>10. CASE RestoreHandle(o)
  BY <1>10 DEF RestoreHandle
<1>11. CASE RestoreAuxHandle(o)
  BY <1>11 DEF RestoreAuxHandle, NoOpening, Started
<1>12. CASE LockConn(o)
  BY <1>12 DEF LockConn
<1>13. CASE LockAux(o)
  BY <1>13 DEF LockAux
<1>14. CASE Swap(o)
  BY <1>14 DEF Swap
<1>15. CASE TakeParquet(o)
  BY <1>15 DEF TakeParquet
<1>16. CASE NameFile(o)
  BY <1>16 DEF NameFile, NoOpening, Started
<1> QED BY <1>1, <1>2, <1>3, <1>4, <1>5, <1>6, <1>7, <1>8, <1>9, <1>10, <1>11, <1>12,
     <1>13, <1>14, <1>15, <1>16 DEF OpenSqlite

LEMMA CloseKeepsSession ==
  ASSUME TypeInv, SessionInv, NEW o \in Openers, CloseOrParquet(o)
  PROVE  Opens(o)' /\ Closes(o)'
<1>0. /\ pc \in [Threads -> OpenerPC \cup CancellerPC \cup ReaderPC \cup SqlPC] /\ o \in Threads
      /\ opening \in [Openers -> Opening] /\ opened \in Nat
      /\ Opens(o) /\ Closes(o)
  BY DEF TypeInv, TypeOK, Threads, SessionInv
<1> USE <1>0 DEF Opens, Closes, Whole, SameSession, CachesEmpty, Untouched, Published, NoConnection, Goto,
      Opening, sessionVars, cacheVars, None
<1>1. CASE CloseDatabase(o)
  BY <1>1 DEF CloseDatabase, NoOpening, Started
<1>2. CASE OpenParquet(o)
  BY <1>2 DEF OpenParquet, Started
<1>3. CASE CloseInterrupt(o)
  BY <1>3 DEF CloseInterrupt
<1>4. CASE CloseInterruptAux(o)
  BY <1>4 DEF CloseInterruptAux
<1>5. CASE DropConn(o)
  BY <1>5 DEF DropConn
<1>6. CASE DropAux(o)
  BY <1>6 DEF DropAux
<1>7. CASE DropPath(o)
  BY <1>7 DEF DropPath
<1>8. CASE DropHandle(o)
  BY <1>8 DEF DropHandle
<1>9. CASE DropAuxHandle(o)
  BY <1>9 DEF DropAuxHandle
<1>10. CASE DropParquet(o)
  BY <1>10 DEF DropParquet
<1>11. CASE ClearIndexes(o)
  BY <1>11 DEF ClearIndexes
<1>12. CASE ClearOrders(o)
  BY <1>12 DEF ClearOrders
<1>13. CASE ClearCounts(o)
  BY <1>13 DEF ClearCounts
<1>14. CASE SetParquet(o)
  BY <1>14 DEF SetParquet
<1> QED BY <1>1, <1>2, <1>3, <1>4, <1>5, <1>6, <1>7, <1>8, <1>9, <1>10, <1>11, <1>12,
     <1>13, <1>14 DEF CloseOrParquet

(* A step of any other thread leaves the session alone: it caches only     *)
(* while it holds the connection.                                          *)
LEMMA ReadersLeaveSession ==
  ASSUME TypeInv, LockInv, NEW r \in Readers, Ask(r) \/ Answer(r)
  PROVE  /\ UNCHANGED <<sessionVars, opening>> /\ (conn = None => UNCHANGED cacheVars)
         /\ \A o \in Openers : pc'[o] = pc[o]
<1>0. HoldsConn(r) => conn # None
  BY DEF LockInv, ConnectionHeld
<1> USE <1>0, ThreadsAssumption DEF HoldsConn, HoldsConnPC, RunningPC, Threads, TypeInv, TypeOK, Goto,
      browseRest, cacheVars
<1>1. CASE Ask(r)
  BY <1>1 DEF Ask
<1>2. CASE ToParquet(r) \/ ToSqlite(r) \/ NotOpen(r) \/ Rejected(r) \/ Deliver(r)
  BY <1>2 DEF ToParquet, ToSqlite, NotOpen, Rejected, Deliver
<1>3. CASE QueryTable(r) \/ CountRows(r)
  BY <1>3 DEF QueryTable, CountRows, Acquire
<1>4. CASE CountCached(r) \/ CountStart(r) \/ CountEnd(r)
  BY <1>4 DEF CountCached, CountStart, CountEnd, Counted
<1>5. CASE CountFails(r) \/ ScanFails(r)
  BY <1>5 DEF CountFails, ScanFails, IndexBuildFails, Finish
<1>6. CASE LookupIndex(r) \/ LookupOrder(r)
  BY <1>6 DEF LookupIndex, LookupOrder, UseIndex
<1>7. CASE ScanRow(r) \/ ScanCancelled(r) \/ RegexScanned(r) \/ PageRead(r) \/ PageFails(r)
  BY <1>7 DEF ScanRow, ScanCancelled, RegexScanned, PageRead, PageFails, Finish
<1>8. CASE IndexBuilt(r) \/ OrderBuilt(r)
  BY <1>8 DEF IndexBuilt, OrderBuilt, UseIndex
<1> QED BY <1>1, <1>2, <1>3, <1>4, <1>5, <1>6, <1>7, <1>8 DEF Answer

LEMMA OthersLeaveSession ==
  ASSUME TypeInv, \/ \E s \in SqlThreads : SqlAsk(s) \/ SqlAnswer(s)
                  \/ \E c \in Cancellers : Cancel(c)
  PROVE  UNCHANGED <<sessionVars, opening, cacheVars>> /\ \A o \in Openers : pc'[o] = pc[o]
<1> USE ThreadsAssumption DEF Threads, TypeInv, TypeOK, Goto, sqlRest, cacheVars
<1>1. ASSUME NEW s \in SqlThreads, SqlAsk(s) \/ SqlAnswer(s)
      PROVE  UNCHANGED <<sessionVars, opening, cacheVars>> /\ \A o \in Openers : pc'[o] = pc[o]
  BY <1>1 DEF SqlAsk, SqlAnswer, SqlToParquet, SqlToSqlite, SqlNotOpen, ValidateBusy, SqlAcquire,
     PrepareFails, PrepareOnly, Prepare, SqlRow, SqlCancelled, SqlFails, SqlEnd, SqlDeliver, SqlFinish
<1>2. ASSUME NEW c \in Cancellers, Cancel(c)
      PROVE  UNCHANGED <<sessionVars, opening, cacheVars>> /\ \A o \in Openers : pc'[o] = pc[o]
  BY <1>2 DEF Cancel, CancelQueries, CancelInterrupt, CancelInterruptAux
<1> QED BY <1>1, <1>2

(* The frontend runs one open or close at a time (store.svelte.ts:94).     *)
OneOpener == \A o, p \in Openers : o = p

LEMMA SessionStep ==
  ASSUME OneOpener, TypeInv, LockInv, SessionInv, [Next]_vars
  PROVE  SessionInv'
<1>1. ASSUME UNCHANGED <<sessionVars, opening>>, conn = None => UNCHANGED cacheVars,
             \A o \in Openers : pc'[o] = pc[o]
      PROVE  SessionInv'
  <2>1. Idle' <=> Idle
    BY <1>1 DEF Idle
  <2>2. /\ UNCHANGED <<conn, aux, parquet, path, handle, auxHandle, opening>>
        /\ conn = None => UNCHANGED <<indexes, orders, counts>>
    BY <1>1 DEF sessionVars, cacheVars
  <2>3. (SameSession => SameSession') /\ (Whole => Whole')
    BY <2>2 DEF SameSession, Whole, CachesEmpty
  <2>4. ASSUME NEW o \in Openers PROVE Opens(o)' /\ Closes(o)'
    <3>1. conn = None /\ CachesEmpty => CachesEmpty'
      BY <2>2 DEF CachesEmpty
    <3>2. Opens(o) /\ Closes(o)
      BY DEF SessionInv
    <3>3. Opens(o)'
      BY <1>1, <2>2, <2>3, <3>1, <3>2 DEF Opens
    <3>4. Closes(o)'
      BY <1>1, <2>2, <3>2 DEF Closes, NoConnection
    <3> QED BY <3>3, <3>4
  <2> QED BY <2>1, <2>3, <2>4 DEF SessionInv
<1>2. ASSUME NEW o \in Openers, OpenSqlite(o) \/ CloseOrParquet(o) PROVE SessionInv'
  <2>1. Opens(o)' /\ Closes(o)'
    BY <1>2, OpenKeepsSession, CloseKeepsSession
  <2>2. \A p \in Openers : p = o
    BY DEF OneOpener
  <2>3. Idle' => Whole'
    BY <2>1 DEF Idle, Opens, Untouched
  <2> QED BY <2>1, <2>2, <2>3 DEF SessionInv
<1>3. CASE UNCHANGED vars
  BY <1>1, <1>3 DEF vars
<1>4. CASE Next
  BY <1>1, <1>2, <1>4, ReadersLeaveSession, OthersLeaveSession DEF Next
<1> QED BY <1>3, <1>4

(* types.rs, schema.rs: while the openers run one at a time, as the queue  *)
(* of the frontend makes them, the session is whole between two of them,   *)
(* and the sweep of an open can be cancelled.                              *)
THEOREM SessionAlwaysUsable == ASSUME OneOpener PROVE Spec => []SessionUsable
<1>1. TypeInv /\ LockInv /\ SessionInv /\ [Next]_vars => (TypeInv /\ LockInv /\ SessionInv)'
  BY TypeStep, LockStep, SessionStep
<1>2. SessionInv => SessionUsable
  <2> SUFFICES ASSUME SessionInv PROVE SessionUsable
    OBVIOUS
  <2>1. SessionCoherent
    BY DEF SessionInv, SessionCoherent, Whole, SameSession, CachesEmpty
  <2>2. SweepCancellable
    BY DEF SessionInv, SweepCancellable, Opens, Published, BrowseStatement
  <2> QED BY <2>1, <2>2 DEF SessionUsable
<1> QED BY TypeInit, LockInit, SessionInit, <1>1, <1>2, PTL DEF Spec

(* schema.rs: an open that fails leaves the session as it was, and its     *)
(* connections cancellable.                                                *)
THEOREM FailedOpenAlwaysKeepsSession == ASSUME OneOpener PROVE Spec => FailedOpenKeepsSession
<1> DEFINE Kept(o) ==
      pc[o] \in {"connect", "restore_aux"} /\ pc'[o] = "idle"
        => /\ aux' = conn' /\ handle' = conn' /\ auxHandle' = conn'
           /\ path' = (IF parquet' # None THEN parquet' ELSE conn')
           /\ UNCHANGED <<conn, parquet, cacheVars>>
<1>1. TypeInv /\ LockInv /\ SessionInv /\ [Next]_vars => (TypeInv /\ LockInv /\ SessionInv)'
  BY TypeStep, LockStep, SessionStep
<1>2. TypeInv /\ LockInv /\ SessionInv /\ SessionInv' /\ [Next]_vars => [\A o \in Openers : Kept(o)]_vars
  <2> SUFFICES ASSUME TypeInv, LockInv, SessionInv, SessionInv', Next, NEW o \in Openers,
                      pc[o] \in {"connect", "restore_aux"}, pc'[o] = "idle"
               PROVE  Kept(o)
    OBVIOUS
  <2>1. OpenSqlite(o) \/ CloseOrParquet(o)
    BY ReadersLeaveSession, OthersLeaveSession DEF Next, OneOpener
  <2>2. UNCHANGED <<conn, parquet, cacheVars>>
    BY <2>1 DEF OpenSqlite, CloseOrParquet, OpenDatabase, OpenInterrupt, OpenInterruptAux, Connect,
       ConnectFails, PublishHandle, PublishAuxHandle, Sweep, SweepFails, RestoreHandle, RestoreAuxHandle,
       LockConn, LockAux, Swap, TakeParquet, NameFile, CloseDatabase, OpenParquet, CloseInterrupt,
       CloseInterruptAux, DropConn, DropAux, DropPath, DropHandle, DropAuxHandle, DropParquet,
       ClearIndexes, ClearOrders, ClearCounts, SetParquet, Goto, sessionVars
  <2>3. Whole'
    BY DEF SessionInv, Opens, Untouched
  <2> QED BY <2>2, <2>3 DEF Whole, SameSession
<1> QED BY TypeInit, LockInit, SessionInit, <1>1, <1>2, PTL DEF Spec, FailedOpenKeepsSession

---------------------------------------------------------------------------
(* Refinement.  Backend implements FileViewer (the mapping is in Backend): *)
(* with its caches, indexes, locks, cancels and failures it answers as if  *)
(* every request had been read straight from the one file that was open.   *)
(*                                                                         *)
(* CacheInv says the entries are right when they are stored and looked up. *)
(* AnswerInv carries that to the answer: what a request has located so far *)
(* came from the connection it holds.                                      *)

(* The total row count stored with a rowid index is the connection's.      *)
IndexTotals ==
  conn # None => \A t \in Tables :
                   indexes[t] # NoEntry => indexes[t].total \in {None, conn}

(* What a reader has located: nothing before its lookup; from then to its  *)
(* answer, only what was read from its own snapshot, for its own view and  *)
(* page size.  Only an unfiltered, unsorted request builds an index.       *)
Located(r) ==
  /\ pc[r] \in {"idle", "dispatch", "lock", "index",
       "order"} => job[r].via = NoEntry /\ job[r].total = None
  /\ HoldsConn(r) \/ Answered(r) =>
       /\ job[r].snap # None
       /\ job[r].total \in {None, job[r].snap}
       /\ job[r].via.snap \in {None, job[r].snap}
       /\ Exact(r)
  /\ \/ pc[r] = "index"
     \/ pc[r] \in {"count", "counting", "scan"} /\ job[r].goal = "index"
     => job[r].want.view = Plain
  /\ pc[r] = "order" => job[r].goal = "order"

AnswerInv == IndexTotals /\ \A r \in Readers : Located(r)

(* No request has located anything before the first command.               *)
LEMMA AnswerInit == Init => AnswerInv
  BY DEF Init, AnswerInv, IndexTotals, Located, None, NoEntry, NoJob, Threads, HoldsConn,
       HoldsConnPC, RunningPC, Answered

(* Opens and closes disturb no request that is being served.               *)
LEMMA LifecycleAnswers ==
  ASSUME TypeInv, LockInv, CacheInv, AnswerInv, NEW o \in Openers,
       OpenSqlite(o) \/ CloseOrParquet(o)
  PROVE  AnswerInv'
<1> USE ThreadsAssumption DEF AnswerInv, IndexTotals, Located, Answered, Exact, Entry,
     Threads, Goto, None, NoEntry,
      TypeInv, TypeOK, LockInv, OpenersHold, ConnectionHeld, HoldsConn, HoldsConnPC,
           RunningPC, sessionVars, cacheVars
<1>1. CASE OpenDatabase(o)
  BY <1>1 DEF OpenDatabase
<1>2. CASE OpenInterrupt(o)
  BY <1>2 DEF OpenInterrupt
<1>3. CASE OpenInterruptAux(o)
  BY <1>3 DEF OpenInterruptAux
<1>4. CASE Connect(o)
  BY <1>4 DEF Connect
<1>5. CASE ConnectFails(o)
  BY <1>5 DEF ConnectFails
<1>6. CASE PublishHandle(o)
  BY <1>6 DEF PublishHandle
<1>7. CASE PublishAuxHandle(o)
  BY <1>7 DEF PublishAuxHandle
<1>8. CASE Sweep(o)
  BY <1>8 DEF Sweep
<1>9. CASE SweepFails(o)
  BY <1>9 DEF SweepFails
<1>10. CASE RestoreHandle(o)
  BY <1>10 DEF RestoreHandle
<1>11. CASE RestoreAuxHandle(o)
  BY <1>11 DEF RestoreAuxHandle
<1>12. CASE LockConn(o)
  BY <1>12 DEF LockConn
<1>13. CASE LockAux(o)
  BY <1>13 DEF LockAux
<1>14. CASE Swap(o)
  BY <1>14 DEF Swap
<1>15. CASE TakeParquet(o)
  BY <1>15 DEF TakeParquet
<1>16. CASE NameFile(o)
  BY <1>16 DEF NameFile
<1>17. CASE CloseDatabase(o)
  BY <1>17 DEF CloseDatabase
<1>18. CASE OpenParquet(o)
  BY <1>18 DEF OpenParquet
<1>19. CASE CloseInterrupt(o)
  BY <1>19 DEF CloseInterrupt
<1>20. CASE CloseInterruptAux(o)
  BY <1>20 DEF CloseInterruptAux
<1>21. CASE DropConn(o)
  BY <1>21 DEF DropConn
<1>22. CASE DropAux(o)
  BY <1>22 DEF DropAux
<1>23. CASE DropPath(o)
  BY <1>23 DEF DropPath
<1>24. CASE DropHandle(o)
  BY <1>24 DEF DropHandle
<1>25. CASE DropAuxHandle(o)
  BY <1>25 DEF DropAuxHandle
<1>26. CASE DropParquet(o)
  BY <1>26 DEF DropParquet
<1>27. CASE ClearIndexes(o)
  BY <1>27 DEF ClearIndexes
<1>28. CASE ClearOrders(o)
  BY <1>28 DEF ClearOrders
<1>29. CASE ClearCounts(o)
  BY <1>29 DEF ClearCounts
<1>30. CASE SetParquet(o)
  BY <1>30 DEF SetParquet
<1> QED BY <1>1, <1>2, <1>3, <1>4, <1>5, <1>6, <1>7, <1>8, <1>9, <1>10, <1>11, <1>12,
     <1>13, <1>14, <1>15, <1>16, <1>17, <1>18, <1>19, <1>20, <1>21, <1>22, <1>23, <1>24,
     <1>25, <1>26, <1>27, <1>28, <1>29, <1>30 DEF OpenSqlite, CloseOrParquet

(* A cancel changes nothing a request has located.                         *)
LEMMA CancelAnswers ==
  ASSUME TypeInv, LockInv, CacheInv, AnswerInv, NEW c \in Cancellers, Cancel(c)
  PROVE  AnswerInv'
<1> USE ThreadsAssumption DEF AnswerInv, IndexTotals, Located, Answered, Exact, Entry,
     Threads, Goto, None, NoEntry,
      TypeInv, TypeOK, LockInv, OpenersHold, ConnectionHeld, HoldsConn, HoldsConnPC,
           RunningPC, sessionVars, cacheVars
<1>1. CASE CancelQueries(c)
  BY <1>1 DEF CancelQueries
<1>2. CASE CancelInterrupt(c)
  BY <1>2 DEF CancelInterrupt
<1>3. CASE CancelInterruptAux(c)
  BY <1>3 DEF CancelInterruptAux
<1> QED BY <1>1, <1>2, <1>3 DEF Cancel

(* Every step of query_table and count_rows keeps what it has located its  *)
(* own.                                                                    *)
LEMMA ReaderAnswers ==
  ASSUME TypeInv, LockInv, CacheInv, AnswerInv, NEW r \in Readers, Ask(r) \/ Answer(r)
  PROVE  AnswerInv'
<1> USE ThreadsAssumption DEF AnswerInv, IndexTotals, Located, Answered, Exact, Entry,
     Threads, Goto, None, NoEntry,
      TypeInv, TypeOK, LockInv, OpenersHold, ConnectionHeld, HoldsConn, HoldsConnPC,
           RunningPC, browseRest, sessionVars, cacheVars, Job
<1>1. CASE Ask(r)
  BY <1>1 DEF Ask
<1>2. CASE ToParquet(r)
  BY <1>2 DEF ToParquet
<1>3. CASE ToSqlite(r)
  BY <1>3 DEF ToSqlite
<1>4. CASE NotOpen(r)
  BY <1>4 DEF NotOpen
<1>5. CASE Rejected(r)
  BY <1>5 DEF Rejected
<1>6. CASE QueryTable(r)
  BY <1>6 DEF QueryTable, Acquire
<1>7. CASE CountRows(r)
  BY <1>7 DEF CountRows, Acquire
<1>8. CASE CountCached(r)
  <2>1. counts[job[r].want.table] = job[r].snap
    BY <1>8 DEF CountCached, CacheInv, CachesBelongToConnection, Shape, Request
  <2> QED BY <1>8, <2>1 DEF CountCached, Counted
<1>9. CASE CountStart(r)
  BY <1>9 DEF CountStart
<1>10. CASE CountEnd(r)
  BY <1>10 DEF CountEnd, Counted
<1>11. CASE CountFails(r)
  BY <1>11 DEF CountFails, IndexBuildFails, Finish
<1>12. CASE LookupIndex(r)
  <2>1. CASE Usable(indexes[job[r].want.table], job[r].want)
    <3>1. /\ job[r].want.table \in Tables
          /\ indexes[job[r].want.table] # NoEntry
          /\ indexes[job[r].want.table].limit = job[r].want.limit
      BY <1>12, <2>1 DEF LookupIndex, Usable, Shape, Request
    <3>2. /\ indexes[job[r].want.table].snap \in {None, job[r].snap}
          /\ indexes[job[r].want.table].rows = NRows
          /\ indexes[job[r].want.table].total \in {None, job[r].snap}
      BY <1>12, <3>1 DEF LookupIndex, CacheInv, CachesBelongToConnection, CachesComplete
    <3> QED BY <1>12, <2>1, <3>1, <3>2 DEF LookupIndex, UseIndex, Job
  <2>2. CASE ~Usable(indexes[job[r].want.table], job[r].want)
    BY <1>12, <2>2 DEF LookupIndex, Job
  <2> QED BY <2>1, <2>2
<1>13. CASE LookupOrder(r)
  <2>1. CASE Fresh(orders[job[r].want.table], job[r].want)
    <3>1. /\ job[r].want.table \in Tables /\ job[r].want.view # Plain
          /\ orders[job[r].want.table] # NoEntry
          /\ orders[job[r].want.table].view = job[r].want.view
      BY <1>13, <2>1, DataAssumption DEF LookupOrder, Fresh, Shape, Request
    <3>2. /\ orders[job[r].want.table].snap \in {None, job[r].snap}
          /\ orders[job[r].want.table].rows = NRows
      BY <1>13, <3>1 DEF LookupOrder, CacheInv, CachesBelongToConnection, CachesComplete
    <3> QED BY <1>13, <2>1, <3>1, <3>2 DEF LookupOrder, Job
  <2>2. CASE ~Fresh(orders[job[r].want.table], job[r].want)
    <3>1. job' = job /\ conn' = conn /\ indexes' = indexes
      BY <1>13, <2>2 DEF LookupOrder
    <3>2. pc[r] = "order" /\ pc'[r] \in {"count", "scan"}
      BY <1>13, <2>2 DEF LookupOrder
    <3>3. \A q \in Readers : q # r => pc'[q] = pc[q]
      BY <1>13, <2>2 DEF LookupOrder
    <3>4. job[r].goal = "order"
      BY <3>2
    <3> QED BY <3>1, <3>2, <3>3, <3>4
  <2> QED BY <2>1, <2>2
<1>14. CASE ScanRow(r)
  BY <1>14 DEF ScanRow
<1>15. CASE ScanCancelled(r)
  BY <1>15 DEF ScanCancelled, Finish
<1>16. CASE ScanFails(r)
  BY <1>16 DEF ScanFails, IndexBuildFails, Finish
<1>17. CASE IndexBuilt(r)
  BY <1>17 DEF IndexBuilt, UseIndex, ScanEnds
<1>18. CASE OrderBuilt(r)
  <2> DEFINE entry == [snap |-> job[r].snap, rows |-> job[r].scanned,
       view |-> job[r].want.view]
  <2>1. job[r].want.view # Plain
    BY <1>18, DataAssumption DEF OrderBuilt, Shape
  <2>2. entry.snap = job[r].snap /\ entry.rows = NRows /\ entry.view = job[r].want.view
    BY <1>18 DEF OrderBuilt, ScanEnds
  <2>3. /\ pc'[r] = "page" /\ job'[r].via = entry
        /\ job'[r].total = job[r].snap /\ job'[r].snap = job[r].snap
        /\ job'[r].want = job[r].want /\ job'[r].goal = job[r].goal
        /\ \A q \in Readers : q # r => pc'[q] = pc[q] /\ job'[q] = job[q]
    BY <1>18 DEF OrderBuilt, Job
  <2>4. conn' = conn /\ indexes' = indexes
    BY <1>18 DEF OrderBuilt
  <2>5. pc[r] = "scan" /\ job[r].goal = "order"
    BY <1>18 DEF OrderBuilt
  <2> HIDE DEF entry
  <2>6. IndexTotals'
    BY <2>4
  <2>7. Located(r)'
    BY <2>1, <2>2, <2>3, <2>4, <2>5
  <2>8. ASSUME NEW q \in Readers, q # r
        PROVE  Located(q)'
    BY <2>3, <2>4, <2>8
  <2> QED BY <2>6, <2>7, <2>8
<1>19. CASE RegexScanned(r)
  BY <1>19 DEF RegexScanned, ScanEnds, Finish
<1>20. CASE PageRead(r)
  BY <1>20 DEF PageRead, Finish
<1>21. CASE PageFails(r)
  BY <1>21 DEF PageFails, Finish
<1>22. CASE Deliver(r)
  BY <1>22 DEF Deliver, NoJob
<1> QED BY <1>1, <1>2, <1>3, <1>4, <1>5, <1>6, <1>7, <1>8, <1>9, <1>10, <1>11, <1>12,
     <1>13, <1>14, <1>15, <1>16, <1>17, <1>18, <1>19, <1>20, <1>21, <1>22 DEF Answer

(* The second connection takes no part in it.                              *)
LEMMA SqlAnswers ==
  ASSUME TypeInv, LockInv, CacheInv, AnswerInv, NEW s \in SqlThreads,
       SqlAsk(s) \/ SqlAnswer(s)
  PROVE  AnswerInv'
<1> USE ThreadsAssumption DEF AnswerInv, IndexTotals, Located, Answered, Exact, Entry,
     Threads, Goto, None, NoEntry,
      TypeInv, TypeOK, LockInv, OpenersHold, ConnectionHeld, HoldsConn, HoldsConnPC,
           RunningPC, sqlRest, sessionVars, cacheVars
<1>1. CASE SqlAsk(s)
  BY <1>1 DEF SqlAsk
<1>2. CASE SqlToParquet(s)
  BY <1>2 DEF SqlToParquet
<1>3. CASE SqlToSqlite(s)
  BY <1>3 DEF SqlToSqlite
<1>4. CASE SqlNotOpen(s)
  BY <1>4 DEF SqlNotOpen
<1>5. CASE ValidateBusy(s)
  BY <1>5 DEF ValidateBusy
<1>6. CASE SqlAcquire(s)
  BY <1>6 DEF SqlAcquire
<1>7. CASE PrepareFails(s)
  BY <1>7 DEF PrepareFails, SqlFinish
<1>8. CASE PrepareOnly(s)
  BY <1>8 DEF PrepareOnly, SqlFinish
<1>9. CASE Prepare(s)
  BY <1>9 DEF Prepare
<1>10. CASE SqlRow(s)
  BY <1>10 DEF SqlRow
<1>11. CASE SqlCancelled(s)
  BY <1>11 DEF SqlCancelled, SqlFinish
<1>12. CASE SqlFails(s)
  BY <1>12 DEF SqlFails, SqlFinish
<1>13. CASE SqlEnd(s)
  BY <1>13 DEF SqlEnd, SqlFinish
<1>14. CASE SqlDeliver(s)
  BY <1>14 DEF SqlDeliver, NoSqlJob
<1> QED BY <1>1, <1>2, <1>3, <1>4, <1>5, <1>6, <1>7, <1>8, <1>9, <1>10, <1>11, <1>12,
     <1>13, <1>14 DEF SqlAnswer
(* Every step of the backend keeps the answer invariant.                   *)
LEMMA AnswerStep == TypeInv /\ LockInv /\ CacheInv /\ AnswerInv /\ [Next]_vars => AnswerInv'
<1> SUFFICES ASSUME TypeInv, LockInv, CacheInv, AnswerInv, [Next]_vars PROVE AnswerInv'
  OBVIOUS
<1>1. CASE UNCHANGED vars
  BY <1>1 DEF AnswerInv, IndexTotals, Located, Answered, Exact, Entry, HoldsConn, vars,
       sessionVars, cacheVars
<1>2. CASE Next
  BY <1>2, LifecycleAnswers, CancelAnswers, ReaderAnswers, SqlAnswers DEF Next
<1> QED BY <1>1, <1>2

-----------------------------------------------------------------------------
(* The simulation.  A step that moves no reader maps to a stutter, or to   *)
(* Change when it publishes or drops the connection.                       *)

Phases == [r \in Readers |-> Phase(r)]
Served == [r \in Readers |-> Source(r)]
Answers == [r \in Readers |-> Given(r)]

(* A step that keeps the connection and every reader's abstract place is   *)
(* a stutter of the viewer.                                                *)
LEMMA Still ==
  ASSUME conn' = conn,
         \A r \in Readers : Phase(r)' = Phase(r) /\ Source(r)' = Source(r) /\ Given(r)' = Given(r)
  PROVE  UNCHANGED Abstract!vars
  BY DEF Abstract!vars

(* A reader that did not move keeps its abstract place.                    *)
LEMMA Unmoved ==
  ASSUME NEW r \in Readers, pc'[r] = pc[r], job'[r] = job[r]
  PROVE  Phase(r)' = Phase(r) /\ Source(r)' = Source(r) /\ Given(r)' = Given(r)
  BY DEF Phase, Source, Given, HoldsConn, Answered, Sources, Exact, Entry

(* Every step of an open or a close is a stutter, or a Change while no     *)
(* request is being served.                                                *)
LEMMA LifecycleSimulates ==
  ASSUME TypeInv, LockInv, NEW o \in Openers, OpenSqlite(o) \/ CloseOrParquet(o)
  PROVE  [Abstract!Next]_(Abstract!vars)
<1>1. \A r \in Readers : pc'[r] = pc[r] /\ job'[r] = job[r]
  BY ThreadsAssumption DEF OpenSqlite, CloseOrParquet, Goto, TypeInv, TypeOK, Threads,
     OpenDatabase, OpenInterrupt, OpenInterruptAux, Connect, ConnectFails, PublishHandle,
     PublishAuxHandle, Sweep, SweepFails, RestoreHandle, RestoreAuxHandle, LockConn,
          LockAux,
     Swap, TakeParquet, NameFile, CloseDatabase, OpenParquet, CloseInterrupt,
          CloseInterruptAux,
     DropConn, DropAux, DropPath, DropHandle, DropAuxHandle, DropParquet, ClearIndexes,
     ClearOrders, ClearCounts, SetParquet
<1>2. \A r \in Readers : Phase(r)' = Phase(r) /\ Source(r)' = Source(r) /\ Given(r)' = Given(r)
  BY <1>1, Unmoved
<1>3. CASE conn' = conn
  BY <1>2, <1>3, Still
<1>4. CASE conn' # conn
  <2>1. Swap(o) \/ DropConn(o)
    BY <1>4 DEF OpenSqlite, CloseOrParquet, sessionVars,
       OpenDatabase, OpenInterrupt, OpenInterruptAux, Connect, ConnectFails, PublishHandle,
       PublishAuxHandle, Sweep, SweepFails, RestoreHandle, RestoreAuxHandle, LockConn,
            LockAux,
       TakeParquet, NameFile, CloseDatabase, OpenParquet, CloseInterrupt, CloseInterruptAux,
       DropAux, DropPath, DropHandle, DropAuxHandle, DropParquet, ClearIndexes, ClearOrders,
       ClearCounts, SetParquet
  <2>2. conn' \in Nat
    BY <2>1 DEF Swap, DropConn, TypeInv, TypeOK, Opening, None
  <2>3. \A r \in Readers : ~HoldsConn(r)
    BY <2>1, ThreadsAssumption DEF Swap, DropConn, Goto, LockInv, OpenersHold,
         ConnectionHeld, Threads
  <2>4. \A r \in Readers : Phase(r) # "serving"
    BY <2>3 DEF Phase, TypeInv, TypeOK, ReaderPC, HoldsConn, HoldsConnPC, RunningPC
  <2>5. Phases' = Phases /\ Served' = Served /\ Answers' = Answers
    BY <1>2 DEF Phases, Served, Answers
  <2>6. Abstract!Change
    BY <2>2, <2>4, <2>5 DEF Abstract!Change, Phases, Served, Answers
  <2> QED BY <2>6 DEF Abstract!Next
<1> QED BY <1>3, <1>4

(* A cancel is a stutter: it is visible only in the requests it ends.      *)
LEMMA CancelSimulates ==
  ASSUME TypeInv, NEW c \in Cancellers, Cancel(c)
  PROVE  UNCHANGED Abstract!vars
<1>1. conn' = conn /\ \A r \in Readers : pc'[r] = pc[r] /\ job'[r] = job[r]
  BY ThreadsAssumption DEF Cancel, CancelQueries, CancelInterrupt, CancelInterruptAux,
       Goto, TypeInv, TypeOK,
     Threads, sessionVars
<1> QED BY <1>1, Unmoved, Still

(* The second connection is not the grid's: every step of it is a          *)
(* stutter.                                                                *)
LEMMA SqlSimulates ==
  ASSUME TypeInv, NEW s \in SqlThreads, SqlAsk(s) \/ SqlAnswer(s)
  PROVE  UNCHANGED Abstract!vars
<1>1. conn' = conn /\ \A r \in Readers : pc'[r] = pc[r] /\ job'[r] = job[r]
  BY ThreadsAssumption DEF SqlAnswer, SqlFinish, Goto, TypeInv, TypeOK, Threads, sqlRest,
       sessionVars,
     SqlAsk, SqlToParquet, SqlToSqlite, SqlNotOpen, ValidateBusy, SqlAcquire, PrepareFails,
     PrepareOnly, Prepare, SqlRow, SqlCancelled, SqlFails, SqlEnd, SqlDeliver
<1> QED BY <1>1, Unmoved, Still

-----------------------------------------------------------------------------
(* What a step of a reader does to its place in the abstract viewer.       *)

Moved(r) ==
  \/ pc[r] = "idle" /\ pc'[r] = "dispatch"
  \/ pc[r] = "dispatch" /\ pc'[r] = "lock"
  \/ pc[r] \in {"dispatch", "lock"} /\ pc'[r] = "done" /\ job'[r].status # "rows"
  \/ pc[r] = "lock" /\ HoldsConn(r)' /\ conn # None /\ job'[r].snap = conn
  \/ HoldsConn(r) /\ HoldsConn(r)' /\ job'[r].snap = job[r].snap
  \/ HoldsConn(r) /\ pc'[r] = "done" /\ job'[r].status # "rows"
  \/ HoldsConn(r) /\ pc'[r] = "done" /\ job'[r].status = "rows" /\ job'[r].snap = job[r].snap
  \/ pc[r] = "done" /\ pc'[r] = "idle"

(* Every step of a reader is one of these moves and touches no other       *)
(* reader.                                                                 *)
LEMMA ReaderMoves ==
  ASSUME TypeInv, NEW r \in Readers, Ask(r) \/ Answer(r)
  PROVE  /\ conn' = conn
         /\ \A q \in Readers : q # r => pc'[q] = pc[q] /\ job'[q] = job[q]
         /\ Moved(r)
<1> USE ThreadsAssumption DEF Moved, HoldsConn, HoldsConnPC, RunningPC, Goto, Threads,
     TypeInv, TypeOK, Job,
      browseRest, sessionVars
<1>1. CASE Ask(r)
  BY <1>1 DEF Ask
<1>2. CASE ToParquet(r)
  BY <1>2 DEF ToParquet
<1>3. CASE ToSqlite(r)
  BY <1>3 DEF ToSqlite
<1>4. CASE NotOpen(r)
  BY <1>4 DEF NotOpen
<1>5. CASE Rejected(r)
  BY <1>5 DEF Rejected
<1>6. CASE QueryTable(r)
  BY <1>6 DEF QueryTable, Acquire
<1>7. CASE CountRows(r)
  BY <1>7 DEF CountRows, Acquire
<1>8. CASE CountCached(r)
  BY <1>8 DEF CountCached, Counted
<1>9. CASE CountStart(r)
  BY <1>9 DEF CountStart
<1>10. CASE CountEnd(r)
  BY <1>10 DEF CountEnd, Counted
<1>11. CASE CountFails(r)
  BY <1>11 DEF CountFails, IndexBuildFails, Finish, Failure
<1>12. CASE LookupIndex(r)
  BY <1>12 DEF LookupIndex, UseIndex
<1>13. CASE LookupOrder(r)
  BY <1>13 DEF LookupOrder
<1>14. CASE ScanRow(r)
  BY <1>14 DEF ScanRow
<1>15. CASE ScanCancelled(r)
  BY <1>15 DEF ScanCancelled, Finish
<1>16. CASE ScanFails(r)
  BY <1>16 DEF ScanFails, IndexBuildFails, Finish, Failure
<1>17. CASE IndexBuilt(r)
  BY <1>17 DEF IndexBuilt, UseIndex
<1>18. CASE OrderBuilt(r)
  BY <1>18 DEF OrderBuilt
<1>19. CASE RegexScanned(r)
  BY <1>19 DEF RegexScanned, Finish
<1>20. CASE PageRead(r)
  BY <1>20 DEF PageRead, Finish
<1>21. CASE PageFails(r)
  BY <1>21 DEF PageFails, Finish, Failure
<1>22. CASE Deliver(r)
  BY <1>22 DEF Deliver
<1> QED BY <1>1, <1>2, <1>3, <1>4, <1>5, <1>6, <1>7, <1>8, <1>9, <1>10, <1>11, <1>12,
     <1>13, <1>14, <1>15, <1>16, <1>17, <1>18, <1>19, <1>20, <1>21, <1>22 DEF Answer

(* The abstract functions after a step that moved only reader `r`.         *)
LEMMA OnlyOne ==
  ASSUME NEW r \in Readers,
         \A q \in Readers : q # r => pc'[q] = pc[q] /\ job'[q] = job[q]
  PROVE  /\ Phases' = [Phases EXCEPT ![r] = Phase(r)']
         /\ Served' = [Served EXCEPT ![r] = Source(r)']
         /\ Answers' = [Answers EXCEPT ![r] = Given(r)']
<1>1. \A q \in Readers : q # r => Phase(q)' = Phase(q) /\ Source(q)' = Source(q) /\ Given(q)' = Given(q)
  BY Unmoved
<1> QED BY <1>1 DEF Phases, Served, Answers

(* Every move of a reader is a step of the viewer or a stutter.            *)
LEMMA ReaderSimulates ==
  ASSUME TypeInv, LockInv, AnswerInv', NEW r \in Readers, Ask(r) \/ Answer(r)
  PROVE  [Abstract!Next]_(Abstract!vars)
<1> DEFINE none == [from |-> {}, exact |-> TRUE]
<1>1. conn' = conn /\ Moved(r)
  BY ReaderMoves
<1>2. /\ Phases' = [Phases EXCEPT ![r] = Phase(r)']
      /\ Served' = [Served EXCEPT ![r] = Source(r)']
      /\ Answers' = [Answers EXCEPT ![r] = Given(r)']
  BY ReaderMoves, OnlyOne
<1>3. Phases[r] = Phase(r) /\ Served[r] = Source(r) /\ Answers[r] = Given(r)
  BY DEF Phases, Served, Answers
<1>4. /\ Phases = [Phases EXCEPT ![r] = Phase(r)]
      /\ Served = [Served EXCEPT ![r] = Source(r)]
      /\ Answers = [Answers EXCEPT ![r] = Given(r)]
  BY DEF Phases, Served, Answers
<1> USE DEF HoldsConn, HoldsConnPC, RunningPC, Phase, Source, Given, Answered, None
<1>5. CASE pc[r] = "idle" /\ pc'[r] = "dispatch"
  <2>1. Phase(r) = "idle" /\ Phase(r)' = "asked" /\ Source(r)' = Source(r) /\ Given(r)' = Given(r)
    BY <1>5
  <2> HIDE DEF Phase, Source, Given
  <2>2. Abstract!Ask(r)
    BY <1>1, <1>2, <1>3, <1>4, <2>1 DEF Abstract!Ask, Phases, Served, Answers
  <2> QED BY <2>2 DEF Abstract!Next
<1>6. CASE pc[r] = "dispatch" /\ pc'[r] = "lock"
  <2>1. Phase(r)' = Phase(r) /\ Source(r)' = Source(r) /\ Given(r)' = Given(r)
    BY <1>6
  <2> QED BY <1>1, <2>1, ReaderMoves, Unmoved, Still
<1>7. CASE /\ pc[r] \in {"dispatch", "lock"} \/ HoldsConn(r)
           /\ pc'[r] = "done" /\ job'[r].status # "rows"
  <2>1. /\ Phase(r) \in {"asked", "serving"} /\ Phase(r)' = "done"
        /\ Source(r)' = 0 /\ Given(r)' = Given(r)
    BY <1>7
  <2> HIDE DEF Phase, Source, Given
  <2>2. Abstract!Decline(r)
    BY <1>1, <1>2, <1>3, <1>4, <2>1 DEF Abstract!Decline, Phases, Served, Answers
  <2> QED BY <2>2 DEF Abstract!Next
<1>8. CASE pc[r] = "lock" /\ HoldsConn(r)' /\ conn # None /\ job'[r].snap = conn
  <2>1. /\ Phase(r) = "asked" /\ Phase(r)' = "serving"
        /\ Source(r)' = conn /\ Given(r)' = Given(r)
    BY <1>8
  <2> HIDE DEF Phase, Source, Given
  <2>2. Abstract!Serve(r)
    BY <1>1, <1>2, <1>3, <1>4, <1>8, <2>1 DEF Abstract!Serve, Phases, Served, Answers
  <2> QED BY <2>2 DEF Abstract!Next
<1>9. CASE HoldsConn(r) /\ HoldsConn(r)' /\ job'[r].snap = job[r].snap
  <2>1. Phase(r)' = Phase(r) /\ Source(r)' = Source(r) /\ Given(r)' = Given(r)
    BY <1>9
  <2> QED BY <1>1, <2>1, ReaderMoves, Unmoved, Still
<1>10. CASE HoldsConn(r) /\ pc'[r] = "done" /\ job'[r].status = "rows" /\ job'[r].snap = job[r].snap
  <2>1. Phase(r) = "serving" /\ Phase(r)' = "done" /\ Source(r) = job[r].snap /\ Source(r)' = 0
    BY <1>10
  <2>2. Located(r)' /\ Answered(r)'
    BY <1>10 DEF AnswerInv
  <2>3. Sources(r)' = {job[r].snap}
    BY <1>10, <2>2 DEF Located, Sources, Entry
  <2>4. Exact(r)' = TRUE
    BY <2>2 DEF Located, Exact
  <2>5. Given(r)' = [from |-> {Source(r)}, exact |-> TRUE]
    BY <2>1, <2>2, <2>3, <2>4
  <2> HIDE DEF Phase, Source, Given
  <2>6. Abstract!Give(r)
    BY <1>1, <1>2, <1>3, <1>4, <2>1, <2>5 DEF Abstract!Give, Phases, Served, Answers
  <2> QED BY <2>6 DEF Abstract!Next
<1>11. CASE pc[r] = "done" /\ pc'[r] = "idle"
  <2>1. /\ Phase(r) = "done" /\ Phase(r)' = "idle"
        /\ Source(r)' = Source(r) /\ Given(r)' = none
    BY <1>11
  <2> HIDE DEF Phase, Source, Given
  <2>2. Abstract!Forget(r)
    BY <1>1, <1>2, <1>3, <1>4, <2>1 DEF Abstract!Forget, Abstract!NoAnswer, Phases,
         Served, Answers
  <2> QED BY <2>2 DEF Abstract!Next
<1> QED BY <1>1, <1>5, <1>6, <1>7, <1>8, <1>9, <1>10, <1>11 DEF Moved

(* The initial states correspond.                                          *)
LEMMA InitSimulates == Init => Abstract!Init
  BY DEF Init, Abstract!Init, Abstract!NoAnswer, Phase, Source, Given, HoldsConn,
       HoldsConnPC, RunningPC,
     Answered, None, Threads

(* Every step of the backend is a step of the viewer or a stutter.         *)
LEMMA StepSimulates ==
  TypeInv /\ LockInv /\ AnswerInv' /\ [Next]_vars => [Abstract!Next]_(Abstract!vars)
<1> SUFFICES ASSUME TypeInv, LockInv, AnswerInv',
     [Next]_vars PROVE [Abstract!Next]_(Abstract!vars)
  OBVIOUS
<1>1. CASE UNCHANGED vars
  <2>1. conn' = conn /\ \A r \in Readers : pc'[r] = pc[r] /\ job'[r] = job[r]
    BY <1>1 DEF vars, sessionVars
  <2> QED BY <2>1, Unmoved, Still
<1>2. CASE Next
  BY <1>2, LifecycleSimulates, CancelSimulates, ReaderSimulates, SqlSimulates DEF Next
<1> QED BY <1>1, <1>2

(* Every behaviour of the backend, with its caches, its indexes, its       *)
(* locks and its interrupts, is one of the cacheless FileViewer: a page or *)
(* a count is made of one snapshot only, the one open while it was served, *)
(* and the open file never changes under it.                               *)
THEOREM BackendImplementsViewer == Spec => CachingInvisible
<1> DEFINE Inv == TypeInv /\ LockInv /\ CacheInv /\ AnswerInv
<1>1. Init => Inv
  BY TypeInit, LockInit, CacheInit, AnswerInit
<1>2. Inv /\ [Next]_vars => Inv'
  BY TypeStep, LockStep, CacheStep, AnswerStep
<1>3. Inv /\ Inv' /\ [Next]_vars => [Abstract!Next]_(Abstract!vars)
  BY StepSimulates
<1> QED BY InitSimulates, <1>1, <1>2, <1>3, PTL DEF Spec, CachingInvisible, Abstract!Spec
=============================================================================
