------------------------------ MODULE Listings ------------------------------
(***************************************************************************)
(* Sequences that list a set in an order, or keep part of another          *)
(* sequence, defined by how many elements come before each.  SetToSortSeq  *)
(* of the community modules and the standard SelectSeq say the same, but   *)
(* tlapm has no definition of the operators they are built from.           *)
(***************************************************************************)
EXTENDS Naturals, FiniteSets

(* The elements of S in an order of them, a set of pairs.                  *)
Preceding(a, S, order) == {b \in S : <<b, a>> \in order}
InOrder(S, order) ==
  [i \in 1 .. Cardinality(S) |->
     CHOOSE a \in S : Cardinality(Preceding(a, S, order)) = i - 1]

(* Numbers, least first.                                                   *)
Below(a, S) == {b \in S : b < a}
Ascending(S) ==
  [i \in 1 .. Cardinality(S) |-> CHOOSE a \in S : Cardinality(Below(a, S)) = i - 1]

(* What a sequence has of a set, in the order it has it.  (The first case  *)
(* is one of the second, and spares TLC most of the work.)                 *)
Places(s, S) == {i \in DOMAIN s : s[i] \in S}
Kept(s, S) ==
  IF Places(s, S) = DOMAIN s THEN s
  ELSE LET nth == Ascending(Places(s, S)) IN [k \in DOMAIN nth |-> s[nth[k]]]
=============================================================================
