--------------------------- MODULE EngineHandles ---------------------------
(***************************************************************************)
(* The DuckDB handles dblitz creates and releases by hand (pq/raw.rs,      *)
(* pq/lockdown.rs): the database and its two connections of each of the    *)
(* two instances of a session, and what one call on a side connection      *)
(* creates.  Each call of the C API may fail.  Threads share the session   *)
(* by counting its holders; two calls are made on the side connection of   *)
(* the browse instance while another thread runs a statement there.        *)
(***************************************************************************)
EXTENDS Naturals, Sequences, FiniteSets

CONSTANT Users      \* threads of commands

ASSUME UsersAssumption == "slot" \notin Users

Instances == {"browse", "sql"}
OwnKinds == {"db", "side", "conn"}
CallKinds == {"statement", "result", "extracted"}
Handles == Instances \X (OwnKinds \cup CallKinds)

VARIABLES
  status,     \* [Handles -> what has become of it]
  opening,    \* the next step of ParquetSession::open, or how it ended
  closing,    \* handles about to be released, in order
  holders,    \* who keeps the session: the slot of DbState and commands
  call        \* [Users -> what its command is doing]

handleVars == <<status, opening, closing, holders, call>>

NoCall == [on |-> "none", step |-> "none"]
Doing(on, step) == [on |-> on, step |-> step]

FreshHandles ==
  /\ status = [h \in Handles |-> "none"]
  /\ opening = Doing("browse", "open")
  /\ closing = <<>> /\ holders = {}
  /\ call = [u \in Users |-> NoCall]

Created(h) == status' = [status EXCEPT ![h] = "live"]

(* The C API takes a pointer to the handle: one that was never created is  *)
(* null, and releasing it does nothing.                                    *)
Release(h) ==
  status' = [status EXCEPT ![h] = CASE @ = "live" -> "released" [] @ = "none" -> "none"
                                    [] OTHER -> "released twice"]

---------------------------------------------------------------------------
(* ParquetSession::open: RawDb::open_in_memory and the settings of both    *)
(* instances, the one of the SQL tab last.  What was created is released   *)
(* when a step fails.                                                      *)

DropOrder(i) == <<<<i, "conn">>, <<i, "side">>, <<i, "db">>>>

Rest(i) == IF i = "sql" THEN DropOrder("browse") ELSE <<>>
LeakDatabase(i) == <<>> \o Rest(i)   \* mutant: a failed connection leaves the database open
AfterConnect(i) == <<<<i, "db">>>> \o Rest(i)

Fails(releasing) ==
  /\ opening' = Doing("none", "failed")
  /\ closing' = releasing
  /\ UNCHANGED status

Goes(i, step) == opening' = Doing(i, step) /\ UNCHANGED closing

Attempt(i, kind, next, releasing) ==
  \/ Created(<<i, kind>>) /\ Goes(i, next)
  \/ Fails(releasing)

open_in_memory ==
  /\ \E i \in Instances :
       \/ opening = Doing(i, "open") /\ Attempt(i, "db", "connect", Rest(i))
       \/ opening = Doing(i, "connect") /\ Attempt(i, "side", "wrap", AfterConnect(i))
       \/ opening = Doing(i, "wrap")
            /\ Attempt(i, "conn", "configure", <<<<i, "side">>, <<i, "db">>>> \o Rest(i))
  /\ UNCHANGED <<holders, call>>

(* The settings, the views, and for the SQL tab the lock of its settings.  *)
Configure ==
  /\ \/ opening = Doing("browse", "configure") /\ Goes("sql", "open") /\ UNCHANGED status
     \/ \E i \in Instances :
          opening = Doing(i, "configure") /\ Fails(DropOrder(i) \o Rest(i))
     \/ /\ opening = Doing("sql", "configure")
        /\ Goes("none", "ready") /\ UNCHANGED status
  /\ holders' = IF opening' = Doing("none", "ready") THEN {"slot"} ELSE holders
  /\ UNCHANGED call

ReleaseNext ==
  /\ closing # <<>>
  /\ Release(Head(closing))
  /\ closing' = Tail(closing)
  /\ UNCHANGED <<opening, holders, call>>

---------------------------------------------------------------------------
(* Commands.  One holds the session from its start to its end; whoever     *)
(* lets it go last drops it, the browse instance first.                    *)

LetGoOf(holder) ==
  /\ holders' = holders \ {holder}
  /\ closing' = IF holders' = {} THEN DropOrder("browse") \o DropOrder("sql") ELSE closing

Step(u, step) == call' = [call EXCEPT ![u].step = step]
At(u, on, step) == call[u] = Doing(on, step)
Locked(i) == \E u \in Users : call[u].on = i /\ call[u].step # "aside"

Begin == \E u \in Users :
  /\ call[u] = NoCall /\ "slot" \in holders
  /\ holders' = holders \cup {u}
  /\ call' = [call EXCEPT ![u] = Doing("none", "begun")]
  /\ UNCHANGED <<status, opening, closing>>

End == \E u \in Users :
  /\ At(u, "none", "begun")
  /\ call' = [call EXCEPT ![u] = NoCall]
  /\ LetGoOf(u)
  /\ UNCHANGED <<status, opening>>

close_database ==
  /\ "slot" \in holders
  /\ LetGoOf("slot")
  /\ UNCHANGED <<status, opening, call>>

(* progress and interrupt: no lock is taken.                               *)
OnceSeen(u) == call[u] = NoCall /\ opening.step = "ready"   \* mutant: a copy of the side handle is enough
Owned(u) == At(u, "none", "begun")

SideHandleCall == \E u \in Users :
  /\ \/ Owned(u) /\ call' = [call EXCEPT ![u] = Doing("browse", "aside")]
     \/ /\ At(u, "browse", "aside")
        /\ call' = [call EXCEPT ![u] = IF u \in holders THEN Doing("none", "begun") ELSE NoCall]
  /\ UNCHANGED <<status, opening, closing, holders>>

Enter(u, i, step) ==
  /\ At(u, "none", "begun") /\ ~Locked(i)
  /\ call' = [call EXCEPT ![u] = Doing(i, step)]

(* execute_side: the statement exists even when preparing it failed, and a *)
(* parameter that cannot be bound keeps it from running.                   *)
Prepared(u, i, h, next) ==
  /\ Created(<<i, h>>)
  /\ \E step \in next : Step(u, step)

AfterPrepare == {"bound", "destroy statement"}

execute_side == \E u \in Users :
  /\ \/ Enter(u, "browse", "prepare") /\ UNCHANGED status
     \/ At(u, "browse", "prepare") /\ Prepared(u, "browse", "statement", AfterPrepare)
     \/ At(u, "browse", "bound") /\ Created(<<"browse", "result">>) /\ Step(u, "destroy result")
     \/ /\ At(u, "browse", "destroy result")
        /\ Release(<<"browse", "result">>) /\ Step(u, "destroy statement")
     \/ /\ At(u, "browse", "destroy statement")
        /\ Release(<<"browse", "statement">>) /\ Step(u, "leave")
     \/ /\ At(u, "browse", "leave")
        /\ call' = [call EXCEPT ![u] = Doing("none", "begun")] /\ UNCHANGED status
  /\ UNCHANGED <<opening, closing, holders>>

(* classify: the extracted statements exist even when there is none; only  *)
(* a single one is prepared, and what is a SELECT may then run.            *)
classify == \E u \in Users :
  /\ \/ Enter(u, "sql", "extract") /\ UNCHANGED status
     \/ /\ At(u, "sql", "extract")
        /\ Prepared(u, "sql", "extracted", {"prepare", "destroy extracted"})
     \/ At(u, "sql", "prepare") /\ Prepared(u, "sql", "statement", {"destroy select", "destroy other"})
     \/ /\ At(u, "sql", "destroy select")
        /\ Release(<<"sql", "statement">>) /\ Step(u, "accept")
     \/ /\ At(u, "sql", "destroy other")
        /\ Release(<<"sql", "statement">>) /\ Step(u, "destroy extracted")
     \/ /\ At(u, "sql", "accept")
        /\ Release(<<"sql", "extracted">>) /\ \E step \in {"run", "leave"} : Step(u, step)
     \/ /\ At(u, "sql", "destroy extracted")
        /\ Release(<<"sql", "extracted">>) /\ Step(u, "leave")
     \/ At(u, "sql", "run") /\ Step(u, "leave") /\ UNCHANGED status
     \/ /\ At(u, "sql", "leave")
        /\ call' = [call EXCEPT ![u] = Doing("none", "begun")] /\ UNCHANGED status
  /\ UNCHANGED <<opening, closing, holders>>

HandlesNext == open_in_memory \/ Configure \/ ReleaseNext \/ Begin \/ End \/ close_database
               \/ SideHandleCall \/ execute_side \/ classify

---------------------------------------------------------------------------
(* Every handle is released exactly once on every path: never twice, and   *)
(* none is left when an open has failed or the session has ended, or       *)
(* between two calls (raw.rs:34, :88, :133, lockdown.rs:111).              *)
ReleasedOnce ==
  /\ \A h \in Handles : status[h] # "released twice"
  /\ closing = <<>> /\ (opening.step = "failed" \/ (opening.step = "ready" /\ holders = {})) =>
       \A h \in Handles : status[h] # "live"
  /\ \A i \in Instances : ~Locked(i) => \A k \in CallKinds : status[<<i, k>>] # "live"

(* No call is made on a handle that has been released, also by a thread    *)
(* that holds no lock, and no connection outlives its database             *)
(* (raw.rs:24, :131, :150).                                                *)
NothingUsedAfterRelease ==
  /\ \A u \in Users : call[u].on \in Instances =>
       \A k \in OwnKinds : status[<<call[u].on, k>>] = "live"
  /\ \A i \in Instances : \A k \in {"side", "conn"} \cup CallKinds :
       status[<<i, k>>] = "live" => status[<<i, "db">>] = "live"

(* The raw handles of a DuckDB session are released once and not used after. *)
HandlesSound == ReleasedOnce /\ NothingUsedAfterRelease
=============================================================================
