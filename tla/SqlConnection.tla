--------------------------- MODULE SqlConnection ---------------------------
(***************************************************************************)
(* The commands on the second connection: execute_sql and validate_sql     *)
(* (db/sql.rs), get_columns and get_schema (db/schema.rs).  A thread       *)
(* holds `aux_conn` for its whole command and never reaches for `conn`.    *)
(***************************************************************************)
EXTENDS DbState

sqlRest == <<sessionVars, generation, cacheVars, connLock, stop, opened, opening, job>>

SqlFinish(s, from, status) ==
  /\ Goto(s, from, "done")
  /\ auxLock' = Free
  /\ sql' = [sql EXCEPT ![s].status = status]

SqlAsk(s) ==
  /\ Goto(s, "idle", "dispatch")
  /\ \E kind \in SqlKinds : sql' = [sql EXCEPT ![s].kind = kind]
  /\ UNCHANGED <<sqlRest, auxLock, auxStop>>

SqlToParquet(s) ==
  /\ Goto(s, "dispatch", "done")
  /\ parquet # None
  /\ sql' = [sql EXCEPT ![s].snap = parquet, ![s].status = "parquet"]
  /\ UNCHANGED <<sqlRest, auxLock, auxStop>>

SqlToSqlite(s) ==
  /\ Goto(s, "dispatch", "lock")
  /\ parquet = None
  /\ UNCHANGED <<sqlRest, sql, auxLock, auxStop>>

SqlNotOpen(s) ==
  /\ Goto(s, "lock", "done")
  /\ auxLock = Free /\ aux = None
  /\ sql' = [sql EXCEPT ![s].status = "closed"]
  /\ UNCHANGED <<sqlRest, auxLock, auxStop>>

(* validate_sql takes the lock with try_lock: while the connection is busy *)
(* it has no verdict and does not wait.                                    *)
ValidateBusy(s) ==
  /\ Goto(s, "lock", "done")
  /\ sql[s].kind = "validate" /\ auxLock # Free
  /\ sql' = [sql EXCEPT ![s].status = "closed"]
  /\ UNCHANGED <<sqlRest, auxLock, auxStop>>

SqlBehindBrowse(s) ==   \* mutant: SQL waits for the Browse Data connection too
  /\ Goto(s, "lock", "prepare")
  /\ auxLock = Free /\ connLock = Free /\ aux # None
  /\ auxLock' = s
  /\ sql' = [sql EXCEPT ![s].snap = aux]
  /\ UNCHANGED <<sqlRest, auxStop>>

SqlAcquire(s) ==
  /\ Goto(s, "lock", "prepare")
  /\ auxLock = Free /\ aux # None
  /\ auxLock' = s
  /\ sql' = [sql EXCEPT ![s].snap = aux]
  /\ UNCHANGED <<sqlRest, auxStop>>

(* prepare_checked rejects the statement, or it is ready to step; the      *)
(* generation is read after it was prepared.                               *)
PrepareFails(s) ==
  /\ SqlFinish(s, "prepare", "error")
  /\ UNCHANGED <<sqlRest, auxStop>>

PrepareOnly(s) ==
  /\ sql[s].kind = "validate"
  /\ SqlFinish(s, "prepare", "rows")
  /\ UNCHANGED <<sqlRest, auxStop>>

Prepare(s) ==
  /\ sql[s].kind # "validate"
  /\ Goto(s, "prepare", "rows")
  /\ auxStop' = auxStop \ {aux}
  /\ sql' = [sql EXCEPT ![s].gen = generation, ![s].scanned = 0]
  /\ UNCHANGED <<sqlRest, auxLock>>

(* Only execute_sql checks the generation, at every row.                   *)
SqlRow(s) ==
  /\ pc[s] = "rows"
  /\ sql[s].scanned < NRows
  /\ sql[s].kind = "execute" => sql[s].gen = generation
  /\ sql' = [sql EXCEPT ![s].scanned = @ + 1]
  /\ UNCHANGED <<sqlRest, auxLock, auxStop, pc>>

SqlCancelled(s) ==
  /\ sql[s].kind = "execute"
  /\ sql[s].scanned < NRows /\ sql[s].gen # generation
  /\ SqlFinish(s, "rows", "cancelled")
  /\ auxStop' = auxStop \ {sql[s].snap}
  /\ UNCHANGED sqlRest

SqlFails(s) ==
  /\ SqlFinish(s, "rows", IF sql[s].snap \in auxStop THEN "interrupted" ELSE "error")
  /\ auxStop' = auxStop \ {sql[s].snap}
  /\ UNCHANGED sqlRest

(* The statement has no more rows; or execute_sql has all it returns and   *)
(* the row just fetched is one more (SQL_RESULT_LIMIT, anywhere).          *)
OneTooMany(s) ==
  sql[s].kind = "execute" /\ sql[s].scanned < NRows /\ sql[s].gen = generation

SqlEnd(s) ==
  /\ sql[s].scanned = NRows \/ OneTooMany(s)
  /\ SqlFinish(s, "rows", "rows")
  /\ auxStop' = auxStop \ {sql[s].snap}
  /\ UNCHANGED sqlRest

SqlDeliver(s) ==
  /\ Goto(s, "done", "idle")
  /\ sql' = [sql EXCEPT ![s] = NoSqlJob]
  /\ UNCHANGED <<sqlRest, auxLock, auxStop>>

SqlInterrupted(s) == sql[s].snap \in auxStop /\ SqlFails(s)

SqlAnswer(s) ==
  \/ SqlToParquet(s) \/ SqlToSqlite(s) \/ SqlNotOpen(s) \/ ValidateBusy(s)
  \/ SqlAcquire(s) \/ PrepareFails(s) \/ PrepareOnly(s) \/ Prepare(s)
  \/ SqlRow(s) \/ SqlCancelled(s) \/ SqlFails(s) \/ SqlEnd(s) \/ SqlDeliver(s)
=============================================================================
