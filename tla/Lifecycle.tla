----------------------------- MODULE Lifecycle -----------------------------
(***************************************************************************)
(* The commands that change which file is open: open_database              *)
(* (db/schema.rs), open_parquet and close_database (db.rs), and            *)
(* cancel_queries (db.rs), one action per lock they take.  The short locks *)
(* (handles, path, caches) are held for one step; the connection locks are *)
(* held across steps and are variables.                                    *)
(*                                                                         *)
(* Bounds: `MaxGeneration` limits how often a command may start and        *)
(* `MaxOpens` how many connections a run creates; the code has neither.    *)
(***************************************************************************)
EXTENDS DbState

-----------------------------------------------------------------------------
(* open_database, up to the sweep: bump the generation, interrupt what     *)
(* runs on the old connections, open both new ones, publish their handles. *)

OpenDatabase(o) ==
  /\ Goto(o, "idle", "open_interrupt")
  /\ opened < MaxOpens
  /\ Bump
  /\ opening' = [opening EXCEPT ![o] = Started("open", None)]
  /\ UNCHANGED <<sessionVars, cacheVars, lockVars, stopVars, opened, job, sql>>

OpenInterrupt(o) ==
  /\ Goto(o, "open_interrupt", "open_interrupt_aux")
  /\ InterruptBrowse
  /\ UNCHANGED <<sessionVars, generation, cacheVars, lockVars, auxStop, opened,
                 opening, job, sql>>

OpenInterruptAux(o) ==
  /\ Goto(o, "open_interrupt_aux", "connect")
  /\ InterruptAux
  /\ UNCHANGED <<sessionVars, generation, cacheVars, lockVars, stop, opened,
                 opening, job, sql>>

(* Both connections open, or the command fails with nothing touched.       *)
Connect(o) ==
  /\ Goto(o, "connect", "publish")
  /\ opened' = opened + 1
  /\ opening' = [opening EXCEPT ![o].snap = opened + 1]
  /\ UNCHANGED <<sessionVars, generation, cacheVars, lockVars, stopVars, job, sql>>

ConnectFails(o) ==
  /\ Goto(o, "connect", "idle")
  /\ opening' = [opening EXCEPT ![o] = NoOpening]
  /\ UNCHANGED <<sessionVars, generation, cacheVars, lockVars, stopVars, opened,
                 job, sql>>

PublishLater(o) ==   \* mutant: the handle is not published before the sweep
  /\ Goto(o, "publish", "publish_aux")
  /\ opening' = [opening EXCEPT ![o].prev = handle]
  /\ UNCHANGED <<sessionVars, generation, cacheVars, lockVars, stopVars, opened, job, sql>>

PublishHandle(o) ==
  /\ Goto(o, "publish", "publish_aux")
  /\ opening' = [opening EXCEPT ![o].prev = handle]
  /\ handle' = opening[o].snap
  /\ UNCHANGED <<conn, aux, parquet, path, auxHandle, generation, cacheVars,
                 lockVars, stopVars, opened, job, sql>>

PublishAuxHandle(o) ==
  /\ Goto(o, "publish_aux", "sweep")
  /\ opening' = [opening EXCEPT ![o].prevAux = auxHandle]
  /\ auxHandle' = opening[o].snap
  /\ UNCHANGED <<conn, aux, parquet, path, handle, generation, cacheVars,
                 lockVars, stopVars, opened, job, sql>>

-----------------------------------------------------------------------------
(* The open-time sweep: list the tables, then count the rows of each.  A   *)
(* count that fails or is interrupted is -1 and its table is not seeded;   *)
(* a listing that fails or is interrupted fails the open and restores the  *)
(* handles.                                                                *)

Sweep(o) ==
  /\ Goto(o, "sweep", "swap")
  /\ \E measured \in SUBSET Tables :
       opening' = [opening EXCEPT ![o].counted = measured]
  /\ stop' = stop \ {opening[o].snap}
  /\ UNCHANGED <<sessionVars, generation, cacheVars, lockVars, auxStop, opened,
                 job, sql>>

SweepFails(o) ==
  /\ Goto(o, "sweep", "restore")
  /\ stop' = stop \ {opening[o].snap}
  /\ UNCHANGED <<sessionVars, generation, cacheVars, lockVars, auxStop, opened,
                 opening, job, sql>>

RestoreNothing(o) ==   \* mutant: a failed open leaves its own handle behind
  /\ Goto(o, "restore", "restore_aux")
  /\ UNCHANGED <<sessionVars, generation, cacheVars, lockVars, stopVars, opened,
                 opening, job, sql>>

RestoreHandle(o) ==
  /\ Goto(o, "restore", "restore_aux")
  /\ handle' = opening[o].prev
  /\ UNCHANGED <<conn, aux, parquet, path, auxHandle, generation, cacheVars,
                 lockVars, stopVars, opened, opening, job, sql>>

RestoreAuxHandle(o) ==
  /\ Goto(o, "restore_aux", "idle")
  /\ auxHandle' = opening[o].prevAux
  /\ opening' = [opening EXCEPT ![o] = NoOpening]
  /\ UNCHANGED <<conn, aux, parquet, path, handle, generation, cacheVars,
                 lockVars, stopVars, opened, job, sql>>

-----------------------------------------------------------------------------
(* The critical section: `conn`, then `aux_conn`, then the caches.         *)

LockConn(o) ==
  /\ Goto(o, "swap", "swap_aux")
  /\ connLock = Free
  /\ connLock' = o
  /\ UNCHANGED <<sessionVars, generation, cacheVars, auxLock, stopVars, opened,
                 opening, job, sql>>

LockAux(o) ==
  /\ Goto(o, "swap_aux", "swap_in")
  /\ auxLock = Free
  /\ auxLock' = o
  /\ UNCHANGED <<sessionVars, generation, cacheVars, connLock, stopVars, opened,
                 opening, job, sql>>

(* mutant: the counts of the tables the sweep did not measure are kept     *)
SeededCountsOnly(o) ==
  [t \in Tables |-> IF t \in opening[o].counted THEN opening[o].snap ELSE counts[t]]
SeededCounts(o) ==
  [t \in Tables |-> IF t \in opening[o].counted THEN opening[o].snap ELSE None]

(* Clear the old file's caches, seed the counts the sweep took, publish    *)
(* both connections, release both locks.                                   *)
Swap(o) ==
  /\ Goto(o, "swap_in", "take_parquet")
  /\ indexes' = [t \in Tables |-> NoEntry]
  /\ orders' = [t \in Tables |-> NoEntry]
  /\ counts' = SeededCounts(o)
  /\ conn' = opening[o].snap
  /\ aux' = opening[o].snap
  /\ connLock' = Free /\ auxLock' = Free
  /\ UNCHANGED <<parquet, path, handle, auxHandle, generation, stopVars, opened,
                 opening, job, sql>>

LeaveParquet(o) ==   \* mutant: the Parquet session outlives the switch to SQLite
  /\ Goto(o, "take_parquet", "name")
  /\ UNCHANGED <<sessionVars, generation, cacheVars, lockVars, stopVars, opened,
                 opening, job, sql>>

TakeParquet(o) ==
  /\ Goto(o, "take_parquet", "name")
  /\ parquet' = None
  /\ UNCHANGED <<conn, aux, path, handle, auxHandle, generation, cacheVars,
                 lockVars, stopVars, opened, opening, job, sql>>

NameFile(o) ==
  /\ Goto(o, "name", "idle")
  /\ path' = opening[o].snap
  /\ opening' = [opening EXCEPT ![o] = NoOpening]
  /\ UNCHANGED <<conn, aux, parquet, handle, auxHandle, generation, cacheVars,
                 lockVars, stopVars, opened, job, sql>>
-----------------------------------------------------------------------------
(* close_database, and open_parquet: the session is built first, so a      *)
(* failure touches nothing; then the whole of close_database runs; then    *)
(* the session and the path are published.                                 *)

CloseDatabase(o) ==
  /\ Goto(o, "idle", "close_interrupt")
  /\ Bump
  /\ opening' = [opening EXCEPT ![o] = NoOpening]
  /\ UNCHANGED <<sessionVars, cacheVars, lockVars, stopVars, opened, job, sql>>

OpenParquet(o) ==
  /\ Goto(o, "idle", "close_interrupt")
  /\ opened < MaxOpens
  /\ opened' = opened + 1
  /\ Bump
  /\ opening' = [opening EXCEPT ![o] = Started("parquet", opened + 1)]
  /\ UNCHANGED <<sessionVars, cacheVars, lockVars, stopVars, job, sql>>

CloseInterrupt(o) ==
  /\ Goto(o, "close_interrupt", "close_interrupt_aux")
  /\ InterruptBrowse
  /\ UNCHANGED <<sessionVars, generation, cacheVars, lockVars, auxStop, opened,
                 opening, job, sql>>

CloseInterruptAux(o) ==
  /\ Goto(o, "close_interrupt_aux", "drop_conn")
  /\ InterruptAux
  /\ UNCHANGED <<sessionVars, generation, cacheVars, lockVars, stop, opened,
                 opening, job, sql>>

DropConn(o) ==
  /\ Goto(o, "drop_conn", "drop_aux")
  /\ connLock = Free
  /\ conn' = None
  /\ UNCHANGED <<aux, parquet, path, handle, auxHandle, generation, cacheVars,
                 lockVars, stopVars, opened, opening, job, sql>>

DropAux(o) ==
  /\ Goto(o, "drop_aux", "drop_path")
  /\ auxLock = Free
  /\ aux' = None
  /\ UNCHANGED <<conn, parquet, path, handle, auxHandle, generation, cacheVars,
                 lockVars, stopVars, opened, opening, job, sql>>

DropPath(o) ==
  /\ Goto(o, "drop_path", "drop_handle")
  /\ path' = None
  /\ UNCHANGED <<conn, aux, parquet, handle, auxHandle, generation, cacheVars,
                 lockVars, stopVars, opened, opening, job, sql>>

DropHandle(o) ==
  /\ Goto(o, "drop_handle", "drop_aux_handle")
  /\ handle' = None
  /\ UNCHANGED <<conn, aux, parquet, path, auxHandle, generation, cacheVars,
                 lockVars, stopVars, opened, opening, job, sql>>

DropAuxHandle(o) ==
  /\ Goto(o, "drop_aux_handle", "drop_parquet")
  /\ auxHandle' = None
  /\ UNCHANGED <<conn, aux, parquet, path, handle, generation, cacheVars,
                 lockVars, stopVars, opened, opening, job, sql>>

DropParquet(o) ==
  /\ Goto(o, "drop_parquet", "clear_indexes")
  /\ parquet' = None
  /\ UNCHANGED <<conn, aux, path, handle, auxHandle, generation, cacheVars,
                 lockVars, stopVars, opened, opening, job, sql>>

(* clear_caches runs last and outside the connection lock: no connection   *)
(* is published, so no reader can be using what it clears.                 *)
ClearIndexes(o) ==
  /\ Goto(o, "clear_indexes", "clear_orders")
  /\ \A r \in Readers : ~HoldsCache(r, "index")
  /\ indexes' = [t \in Tables |-> NoEntry]
  /\ UNCHANGED <<sessionVars, generation, orders, counts, lockVars, stopVars,
                 opened, opening, job, sql>>

ClearOrders(o) ==
  /\ Goto(o, "clear_orders", "clear_counts")
  /\ \A r \in Readers : ~HoldsCache(r, "order")
  /\ orders' = [t \in Tables |-> NoEntry]
  /\ UNCHANGED <<sessionVars, generation, indexes, counts, lockVars, stopVars,
                 opened, opening, job, sql>>

ClearCounts(o) ==
  /\ Goto(o, "clear_counts", IF opening[o].mode = "parquet" THEN "set_parquet" ELSE "idle")
  /\ counts' = [t \in Tables |-> None]
  /\ UNCHANGED <<sessionVars, generation, indexes, orders, lockVars, stopVars,
                 opened, opening, job, sql>>

SetParquet(o) ==
  /\ Goto(o, "set_parquet", "name")
  /\ parquet' = opening[o].snap
  /\ UNCHANGED <<conn, aux, path, handle, auxHandle, generation, cacheVars,
                 lockVars, stopVars, opened, opening, job, sql>>

-----------------------------------------------------------------------------
(* cancel_queries: the generation first, then both connections.            *)

CancelQueries(c) ==
  /\ Goto(c, "idle", "interrupt")
  /\ Bump
  /\ UNCHANGED <<sessionVars, cacheVars, lockVars, stopVars, opened, opening, job, sql>>

CancelByGeneration(c) ==   \* mutant: the running statement is not interrupted
  /\ Goto(c, "interrupt", "interrupt_aux")
  /\ UNCHANGED <<sessionVars, generation, cacheVars, lockVars, stopVars, opened,
                 opening, job, sql>>

CancelInterrupt(c) ==
  /\ Goto(c, "interrupt", "interrupt_aux")
  /\ InterruptBrowse
  /\ UNCHANGED <<sessionVars, generation, cacheVars, lockVars, auxStop, opened,
                 opening, job, sql>>

CancelBrowseOnly(c) ==   \* mutant: only the Browse Data connection is interrupted
  /\ Goto(c, "interrupt_aux", "idle")
  /\ UNCHANGED <<sessionVars, generation, cacheVars, lockVars, stopVars, opened,
                 opening, job, sql>>

CancelInterruptAux(c) ==
  /\ Goto(c, "interrupt_aux", "idle")
  /\ InterruptAux
  /\ UNCHANGED <<sessionVars, generation, cacheVars, lockVars, stop, opened,
                 opening, job, sql>>

-----------------------------------------------------------------------------
OpenSqlite(o) ==
  \/ OpenDatabase(o) \/ OpenInterrupt(o) \/ OpenInterruptAux(o)
  \/ Connect(o) \/ ConnectFails(o) \/ PublishHandle(o) \/ PublishAuxHandle(o)
  \/ Sweep(o) \/ SweepFails(o) \/ RestoreHandle(o) \/ RestoreAuxHandle(o)
  \/ LockConn(o) \/ LockAux(o) \/ Swap(o) \/ TakeParquet(o) \/ NameFile(o)

CloseOrParquet(o) ==
  \/ CloseDatabase(o) \/ OpenParquet(o) \/ CloseInterrupt(o) \/ CloseInterruptAux(o)
  \/ DropConn(o) \/ DropAux(o) \/ DropPath(o) \/ DropHandle(o) \/ DropAuxHandle(o)
  \/ DropParquet(o) \/ ClearIndexes(o) \/ ClearOrders(o) \/ ClearCounts(o)
  \/ SetParquet(o)

Cancel(c) == CancelQueries(c) \/ CancelInterrupt(c) \/ CancelInterruptAux(c)
=============================================================================
