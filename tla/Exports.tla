------------------------------ MODULE Exports -------------------------------
(***************************************************************************)
(* "Open in Excel" (db/export.rs): a workbook is built in memory, the      *)
(* export directory is swept of old ones, and the new one is written under *)
(* the time of day and opened.  Exports of several windows run beside each *)
(* other, the clock may be set, and the chosen directory may disappear.    *)
(***************************************************************************)
EXTENDS Naturals

CONSTANTS Exporters, EXPORT_RETENTION, LastMoment

Nobody == "nobody"

ASSUME ExportsAssumption ==
  EXPORT_RETENTION \in Nat /\ LastMoment \in Nat /\ Nobody \notin Exporters

VARIABLES
  clock, reachable,    \* the time, and whether the chosen directory exists
  folder,              \* the files: [dir, prefixed, name, of, modified]
  step, dest, stamp,   \* of every export: how far, where to, and the time it took its name from
  opened               \* whose workbook it opened

exportVars == <<clock, reachable, folder, step, dest, stamp, opened>>

Moments == 0 .. LastMoment
ExportDirs == {"chosen", "temp"}

(* Each directory holds a workbook of an earlier day and a file that is    *)
(* none of ours.                                                           *)
EarlierFiles == [dir : ExportDirs, prefixed : BOOLEAN, name : {0}, of : {Nobody}, modified : {0}]

FreshExports ==
  /\ clock = LastMoment /\ reachable = TRUE /\ folder = EarlierFiles
  /\ step = [e \in Exporters |-> "idle"] /\ dest = [e \in Exporters |-> "temp"]
  /\ stamp = [e \in Exporters |-> 0] /\ opened = [e \in Exporters |-> Nobody]

Advance(e, from, to) == step[e] = from /\ step' = [step EXCEPT ![e] = to]

resolve_export_dir == IF reachable THEN "chosen" ELSE "temp"

(* Without columns, or with a row wider than the header, there is none.    *)
export_to_xlsx(e) ==
  /\ \/ Advance(e, "idle", "sweep")
     \/ Advance(e, "idle", "done")
  /\ dest' = [dest EXCEPT ![e] = resolve_export_dir]
  /\ UNCHANGED <<clock, reachable, folder, stamp, opened>>

StaleByDistance(f) ==   \* mutant: a file of the future is as old as one of the past
  f.prefixed /\ (clock > f.modified + EXPORT_RETENTION \/ f.modified > clock + EXPORT_RETENTION)
Stale(f) == f.prefixed /\ clock > f.modified + EXPORT_RETENTION

(* A stale file that is still open in Excel may resist.                    *)
sweep_stale_exports(e) ==
  /\ Advance(e, "sweep", "name")
  /\ \E gone \in SUBSET {f \in folder : f.dir = dest[e] /\ Stale(f)} : folder' = folder \ gone
  /\ UNCHANGED <<clock, reachable, dest, stamp, opened>>

NamedBySecond(time) == time \div 2   \* mutant: a coarser time
NamedBy(time) == time

TakeName(e) ==
  /\ Advance(e, "name", "save")
  /\ stamp' = [stamp EXCEPT ![e] = clock]
  /\ UNCHANGED <<clock, reachable, folder, dest, opened>>

Exported(e) == [dir |-> dest[e], prefixed |-> TRUE, name |-> NamedBy(stamp[e]), of |-> e,
                modified |-> clock]
SamePath(f, g) == f.dir = g.dir /\ f.prefixed = g.prefixed /\ f.name = g.name

(* Saving over a workbook that is open in Excel may fail, and so may       *)
(* saving into a directory that is gone.                                   *)
Save(e) ==
  /\ \/ /\ Advance(e, "save", "open")
        /\ dest[e] = "chosen" => reachable
        /\ folder' = {f \in folder : ~SamePath(f, Exported(e))} \cup {Exported(e)}
     \/ /\ Advance(e, "save", "done")
        /\ UNCHANGED folder
  /\ UNCHANGED <<clock, reachable, dest, stamp, opened>>

Open(e) ==
  /\ Advance(e, "open", "done")
  /\ \/ \E f \in folder : /\ SamePath(f, Exported(e))
                          /\ opened' = [opened EXCEPT ![e] = f.of]
     \/ UNCHANGED opened
  /\ UNCHANGED <<clock, reachable, folder, dest, stamp>>

Exporting == \E e \in Exporters : step[e] # "done"
Surroundings ==
  /\ Exporting
  /\ \/ clock' \in Moments \ {clock} /\ UNCHANGED reachable
     \/ reachable' = ~reachable /\ UNCHANGED clock
  /\ UNCHANGED <<folder, step, dest, stamp, opened>>

ExportsNext ==
  \/ \E e \in Exporters : export_to_xlsx(e) \/ sweep_stale_exports(e) \/ TakeName(e) \/ Save(e) \/ Open(e)
  \/ Surroundings

---------------------------------------------------------------------------
(* No file is deleted but a workbook of dblitz that is past its retention, *)
(* by whatever the clock says then; the only other way to lose one is to   *)
(* be written over (export.rs:16-18).                                      *)
OnlyOldWorkbooksGo ==
  \A f \in folder \ folder' :
    f.prefixed /\ \/ clock > f.modified + EXPORT_RETENTION
                  \/ \E g \in folder' : SamePath(f, g)

(* An export opens its own rows, unless another one of the same            *)
(* millisecond took its name (export.rs:16).                               *)
OwnRowsOpened ==
  \A e, other \in Exporters :
    opened[e] = other /\ other # e => stamp[e] = stamp[other] /\ dest[e] = dest[other]

(* Exports beside each other open their own workbooks and delete only old  *)
(* ones.                                                                   *)
WorkbooksKept == [][OnlyOldWorkbooksGo /\ OwnRowsOpened']_exportVars
=============================================================================
