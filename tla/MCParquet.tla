----------------------------- MODULE MCParquet -----------------------------
(* Three rows, two of them equal in the sort column, the third NULL.       *)
EXTENDS ParquetSession, TLC

CONSTANTS r1, r2, s1, f

Cast(threads, offsets, cancels, errors, deaths) ==
  [threads |-> threads, offsets |-> offsets, MaxGeneration |-> cancels,
   MaxFaults |-> errors, MaxCrashes |-> deaths]
MCCasts ==
  {Cast({r1, r2}, {0}, 1, 1, 0), Cast({s1}, {0}, 2, 1, 0)}
    \cup {Cast({r}, {0, 2}, 1, 1, 1) : r \in Readers}
    \cup {Cast({r, s1}, {0}, 1, 0, 0) : r \in Readers}
MCValue == [n \in 0 .. 2 |-> IF n = 1 THEN Null ELSE 1]
MCMatches == NoFilter :> (0 .. 2) @@ f :> {0, 2}
Symmetry == Permutations({r1, r2})
MCFiles ==
  {[format |-> "parquet", columns |-> {"a"}, small |-> FALSE, sample |-> TRUE, scan |-> TRUE],
   [format |-> "json", columns |-> {"a"}, small |-> TRUE, sample |-> FALSE, scan |-> TRUE],
   [format |-> "csv", columns |-> {"a", "rowid"}, small |-> FALSE, sample |-> TRUE, scan |-> TRUE],
   [format |-> "csv", columns |-> {"a"}, small |-> FALSE, sample |-> FALSE, scan |-> FALSE]}
=============================================================================
