------------------------------ MODULE Backend ------------------------------
(***************************************************************************)
(* The backend as a whole: the lifecycle commands, the Browse Data         *)
(* requests and the SQL requests, every one on a thread of Tauri's pool,   *)
(* sharing one DbState.                                                    *)
(*                                                                         *)
(* The properties about the caches hold for any number of openers.  Those  *)
(* about a session as a whole hold because the frontend runs one open or   *)
(* close at a time (databaseRequestQueue in store.svelte.ts): their runs   *)
(* have one opener.                                                        *)
(***************************************************************************)
EXTENDS Lifecycle, BrowseQuery, SqlConnection

Next ==
  \/ \E o \in Openers : OpenSqlite(o) \/ CloseOrParquet(o)
  \/ \E c \in Cancellers : Cancel(c)
  \/ \E r \in Readers : Ask(r) \/ Answer(r)
  \/ \E s \in SqlThreads : SqlAsk(s) \/ SqlAnswer(s)

Spec == Init /\ [][Next]_vars

-----------------------------------------------------------------------------
(* Fairness.  A command that has started runs to its end: its thread is    *)
(* scheduled (weak fairness of its steps), and a thread waiting for a      *)
(* parking_lot mutex that is released again and again gets it in the end,  *)
(* which that mutex guarantees (strong fairness of the steps that lock).   *)
(* No command is ever obliged to start.                                    *)

Opening_(o) == pc[o] # "idle" /\ (OpenSqlite(o) \/ CloseOrParquet(o))
OpenerFairness ==
  \A o \in Openers : /\ WF_vars(Opening_(o))
                     /\ SF_vars(LockConn(o)) /\ SF_vars(LockAux(o))
                     /\ SF_vars(DropConn(o)) /\ SF_vars(DropAux(o))
CancellerFairness ==
  \A c \in Cancellers : WF_vars(CancelInterrupt(c) \/ CancelInterruptAux(c))
ReaderFairness ==
  \A r \in Readers : /\ WF_vars(Answer(r))
                     /\ SF_vars(NotOpen(r) \/ Rejected(r) \/ QueryTable(r) \/ CountRows(r))
SqlFairness ==
  \A s \in SqlThreads : /\ WF_vars(SqlAnswer(s))
                        /\ SF_vars(SqlNotOpen(s) \/ SqlAcquire(s))

FairSpec ==
  Spec /\ OpenerFairness /\ CancellerFairness /\ ReaderFairness /\ SqlFairness

(* Every statement may grind for ever unless it is interrupted; what is    *)
(* not a statement goes on.                                                *)
GrindingSpec ==
  /\ Spec /\ OpenerFairness /\ CancellerFairness
  /\ \A r \in Readers : WF_vars(ReaderInterrupted(r))
  /\ \A s \in SqlThreads : /\ WF_vars(SqlInterrupted(s))
                          /\ WF_vars(pc[s] # "rows" /\ SqlAnswer(s))
                          /\ SF_vars(SqlNotOpen(s) \/ SqlAcquire(s))

-----------------------------------------------------------------------------
(* Safety.                                                                 *)

HoldsConn(r) == pc[r] \in HoldsConnPC
HoldsAux(s) == pc[s] \in {"prepare", "rows"}
Idle == \A o \in Openers : pc[o] = "idle"

(* schema.rs, "no query can observe the new connection alongside the old   *)
(* file's cached rowids": while a connection is published, whatever is     *)
(* cached was read through that connection.                                *)
CachesBelongToConnection ==
  conn # None => \A t \in Tables : /\ indexes[t].snap \in {None, conn}
                                   /\ orders[t].snap \in {None, conn}
                                   /\ counts[t] \in {None, conn}

(* query.rs, build_rowid_index: a truncated scan "poisons the per-table    *)
(* cache".  Every cached index and every cached view comes from a scan     *)
(* that reached the last row.                                              *)
CachesComplete ==
  \A t \in Tables : /\ indexes[t] # NoEntry => indexes[t].rows = NRows
                    /\ orders[t] # NoEntry => orders[t].rows = NRows

(* Both mutexes exclude: the lock's owner is the only thread in a section  *)
(* that uses the connection, and a reader's connection is the one that is  *)
(* published until it lets go (an open or a close waits for it).           *)
ConnectionHeld ==
  /\ \A r \in Readers : HoldsConn(r) => /\ connLock = r
                                        /\ job[r].snap = conn /\ conn # None
  /\ \A s \in SqlThreads : HoldsAux(s) => /\ auxLock = s
                                          /\ sql[s].snap = aux /\ aux # None

(* types.rs, "every SQLite field above is then None, and vice versa": with *)
(* no open or close in progress, one engine serves the file, both          *)
(* connections, both handles and the path belong to the same open, and a   *)
(* closed backend keeps nothing.                                           *)
SessionCoherent ==
  Idle => /\ aux = conn /\ handle = conn /\ auxHandle = conn
          /\ parquet = None \/ conn = None
          /\ path = (IF parquet # None THEN parquet ELSE conn)
          /\ conn = None => \A t \in Tables : /\ indexes[t] = NoEntry
                                              /\ orders[t] = NoEntry
                                              /\ counts[t] = None

(* schema.rs, "Publish the new interrupt handles BEFORE the open-time      *)
(* sweep": the longest statement of an open can always be cancelled.       *)
SweepCancellable ==
  \A o \in Openers : pc[o] = "sweep" => /\ handle = opening[o].snap
                                        /\ BrowseStatement(handle)

(* What an open promises of the session: it is whole when no open runs, and *)
(* what it runs itself can be cancelled (types.rs, schema.rs).             *)
SessionUsable == SessionCoherent /\ SweepCancellable

(* schema.rs, "a failure of either one leaves the previously open database *)
(* entirely intact" and "a failed open leaves the still-current            *)
(* connections cancellable": an open that ends in failure leaves the       *)
(* session as it would be had it never run.                                *)
FailedOpenKeepsSession ==
  [][\A o \in Openers :
       pc[o] \in {"connect", "restore_aux"} /\ pc'[o] = "idle"
         => /\ aux' = conn' /\ handle' = conn' /\ auxHandle' = conn'
            /\ path' = (IF parquet' # None THEN parquet' ELSE conn')
            /\ UNCHANGED <<conn, parquet, cacheVars>>]_vars

-----------------------------------------------------------------------------
(* Liveness.                                                               *)

(* Every page and count request is answered, whatever is opened, closed or *)
(* cancelled meanwhile.                                                    *)
RequestsAnswered == \A r \in Readers : pc[r] = "dispatch" ~> pc[r] = "done"

(* Every open and close ends: none waits for ever behind a query, and the  *)
(* locks the two kinds of thread take cannot block one another.            *)
OpensFinish == \A o \in Openers : pc[o] # "idle" ~> pc[o] = "idle"

(* No thread of the backend waits for ever.                                *)
EverythingEnds == RequestsAnswered /\ OpensFinish

(* types.rs, "so the SQL tab and the Structure tab do not queue behind a   *)
(* grinding Browse Data page": a SQL request runs its statement or is      *)
(* answered even if every Browse Data statement grinds for ever.           *)
SqlNotBehindBrowse ==
  \A s \in SqlThreads : pc[s] = "dispatch" ~> pc[s] \in {"rows", "done"}

(* db.rs, "BOTH connections are interrupted": with no open in progress, a  *)
(* cancel stops the statement that runs on either connection, even one     *)
(* that would never end by itself.                                         *)
CancelStopsBrowse ==
  \A c \in Cancellers, r \in Readers, statement \in RunningPC :
    Idle /\ pc[c] = "interrupt" /\ pc[r] = statement ~> pc[r] # statement
CancelStopsSql ==
  \A c \in Cancellers, s \in SqlThreads :
    Idle /\ pc[c] = "interrupt_aux" /\ pc[s] = "rows" ~> pc[s] # "rows"

(* One Cancel button for both tabs: it stops what either of them runs.     *)
CancelStops == CancelStopsBrowse /\ CancelStopsSql

-----------------------------------------------------------------------------
(* Refinement: caching, indexing, locking and cancelling are invisible.    *)

Phase(r) ==
  CASE pc[r] = "idle" -> "idle"
    [] pc[r] \in {"dispatch", "lock"} -> "asked"
    [] HoldsConn(r) -> "serving"
    [] pc[r] = "done" -> "done"

(* The snapshots an answer is made of, and whether the cache entry it was  *)
(* located with is one of that view, whole, and cut in pages of that size. *)
Entry(r) == job[r].via
Sources(r) ==
  ({job[r].snap, job[r].total} \cup {Entry(r).snap}) \ {None}
Exact(r) ==
  Entry(r) # NoEntry =>
    /\ Entry(r).rows = NRows
    /\ IF job[r].want.view = Plain THEN Entry(r).limit = job[r].want.limit
                                   ELSE Entry(r).view = job[r].want.view
Answered(r) == pc[r] = "done" /\ job[r].status = "rows"

Source(r) == IF HoldsConn(r) THEN job[r].snap ELSE None
Given(r) == IF Answered(r) THEN [from |-> Sources(r), exact |-> Exact(r)]
                           ELSE [from |-> {}, exact |-> TRUE]

Abstract == INSTANCE FileViewer WITH
  current <- conn,
  phase <- [r \in Readers |-> Phase(r)],
  source <- [r \in Readers |-> Source(r)],
  answer <- [r \in Readers |-> Given(r)]

(* Every behaviour of the backend is one of the cacheless FileViewer.      *)
CachingInvisible == Abstract!Spec

-----------------------------------------------------------------------------
(* A sentence of the documentation that the code does not keep.            *)

(* types.rs:103, "Handle to interrupt whatever statement is currently      *)
(* executing on `conn`" (and the same of the second one).                  *)
HandlesReachStatements ==
  /\ \A r \in Readers : pc[r] \in RunningPC => handle = job[r].snap
  /\ \A s \in SqlThreads : pc[s] = "rows" => auxHandle = sql[s].snap
=============================================================================
