---------------------------- MODULE ListingProofs ----------------------------
(***************************************************************************)
(* What sequences made by InOrder, Ascending and Kept hold: every element  *)
(* of a finite set, once.  And what proofs about data rest on: induction   *)
(* over numbers and sequences, and that a recursive definition defines the *)
(* function it describes.                                                  *)
(***************************************************************************)
EXTENDS Listings, SequenceTheorems, FiniteSetTheorems, WellFoundedInduction, TLAPS

StrictOrder(order, S) ==
  /\ \A a \in S : <<a, a>> \notin order
  /\ \A a, b, c \in S : <<a, b>> \in order /\ <<b, c>> \in order => <<a, c>> \in order
  /\ \A a, b \in S : a # b => <<a, b>> \in order \/ <<b, a>> \in order

(* A function that lists a set: every element, once.                       *)
Lists(s, S) ==
  /\ s \in [1 .. Cardinality(S) -> S]
  /\ \A i, j \in 1 .. Cardinality(S) : s[i] = s[j] => i = j
  /\ \A a \in S : \E i \in 1 .. Cardinality(S) : s[i] = a

(* As many elements of a finite set as it has are before the i-th, for     *)
(* every i: the number of predecessors is a bijection.                     *)
LEMMA SomeElementHasPlace ==
  ASSUME NEW S, IsFiniteSet(S), NEW order, StrictOrder(order, S),
         NEW i \in 1 .. Cardinality(S)
  PROVE  \E a \in S : Cardinality(Preceding(a, S, order)) = i - 1
  <1> DEFINE n == Cardinality(S)
             before(a) == Preceding(a, S, order)
             f == [a \in S |-> Cardinality(before(a)) + 1]
  <1>1. n \in Nat
    BY FS_CardinalityType
  <1>2. ASSUME NEW a \in S
        PROVE  IsFiniteSet(before(a)) /\ Cardinality(before(a)) \in Nat /\ Cardinality(before(a)) < n
    <2>1. before(a) \in SUBSET S /\ before(a) # S
      BY DEF StrictOrder, Preceding
    <2>2. /\ IsFiniteSet(before(a)) /\ Cardinality(before(a)) <= n
          /\ n = Cardinality(before(a)) => S = before(a)
      BY <2>1, FS_Subset
    <2>3. Cardinality(before(a)) \in Nat
      BY <2>2, FS_CardinalityType
    <2> QED
      BY <1>1, <2>1, <2>2, <2>3
  <1>3. ASSUME NEW a \in S, NEW b \in S, <<a, b>> \in order
        PROVE  Cardinality(before(a)) < Cardinality(before(b))
    <2>1. before(a) \in SUBSET before(b) /\ a \in before(b) /\ a \notin before(a)
      BY <1>3 DEF StrictOrder, Preceding
    <2>2. IsFiniteSet(before(b))
      BY <1>2
    <2>3. /\ Cardinality(before(a)) <= Cardinality(before(b))
          /\ Cardinality(before(b)) = Cardinality(before(a)) => before(b) = before(a)
      BY <2>1, <2>2, FS_Subset
    <2> QED
      BY <1>2, <2>1, <2>3
  <1>4. f \in Injection(S, 1 .. n)
    <2>1. f \in [S -> 1 .. n]
      BY <1>1, <1>2
    <2>2. ASSUME NEW a \in S, NEW b \in S, a # b
          PROVE  f[a] # f[b]
      <3>1. Cardinality(before(a)) \in Nat /\ Cardinality(before(b)) \in Nat
        BY <1>2
      <3>2. CASE <<a, b>> \in order
        BY <1>3, <3>1, <3>2
      <3>3. CASE <<b, a>> \in order
        BY <1>3, <3>1, <3>3
      <3> QED
        BY <2>2, <3>2, <3>3 DEF StrictOrder
    <2> QED
      BY <2>1, <2>2 DEF Injection, IsInjective
  <1>5. IsFiniteSet(1 .. n) /\ Cardinality(1 .. n) = n
    BY <1>1, FS_Interval
  <1>6. f \in Surjection(S, 1 .. n)
    BY <1>4, <1>5, FS_Injection
  <1>7. PICK a \in S : f[a] = i
    BY <1>6 DEF Surjection
  <1>8. Cardinality(before(a)) + 1 = i /\ Cardinality(before(a)) \in Nat
    BY <1>2, <1>7
  <1>9. Cardinality(before(a)) = i - 1
    BY <1>1, <1>8
  <1> QED
    BY <1>9

(* InOrder lists the set, whatever the strict order.                       *)
LEMMA InOrderLists ==
  ASSUME NEW S, IsFiniteSet(S), NEW order, StrictOrder(order, S)
  PROVE  Lists(InOrder(S, order), S)
  <1> DEFINE n == Cardinality(S)
             before(a) == Preceding(a, S, order)
             s == InOrder(S, order)
  <1>1. n \in Nat
    BY FS_CardinalityType
  <1>2. ASSUME NEW i \in 1 .. n
        PROVE  s[i] \in S /\ Cardinality(before(s[i])) = i - 1
    <2>1. s[i] = CHOOSE a \in S : Cardinality(before(a)) = i - 1
      BY DEF InOrder
    <2>2. \E a \in S : Cardinality(before(a)) = i - 1
      BY SomeElementHasPlace
    <2> QED
      BY <2>1, <2>2
  <1>3. s \in [1 .. n -> S]
    BY <1>2 DEF InOrder
  <1>4. \A i, j \in 1 .. n : s[i] = s[j] => i = j
    <2>1. ASSUME NEW i \in 1 .. n, NEW j \in 1 .. n, s[i] = s[j]
          PROVE  i = j
      <3>1. Cardinality(before(s[i])) = i - 1 /\ Cardinality(before(s[j])) = j - 1
        BY <1>2
      <3>2. i - 1 = j - 1
        BY <2>1, <3>1
      <3> HIDE DEF n
      <3> QED
        BY <1>1, <3>2
    <2> QED
      BY <2>1
  <1>5. s \in Injection(1 .. n, S)
    BY <1>3, <1>4 DEF Injection, IsInjective
  <1>6. IsFiniteSet(1 .. n) /\ Cardinality(1 .. n) = n
    BY <1>1, FS_Interval
  <1>7. s \in Surjection(1 .. n, S)
    BY <1>5, <1>6, FS_Injection
  <1> QED
    BY <1>3, <1>4, <1>7 DEF Lists, Surjection

(* Numbers are listed by Ascending.                                        *)
Less(S) == {ab \in S \X S : ab[1] < ab[2]}

LEMMA AscendingLists ==
  ASSUME NEW S \in SUBSET Nat, IsFiniteSet(S)
  PROVE  Lists(Ascending(S), S)
<1>1. \A a, b \in S : <<a, b>> \in Less(S) <=> a < b
  BY DEF Less
<1>2. StrictOrder(Less(S), S)
  BY <1>1 DEF StrictOrder
<1>3. \A a \in S : Below(a, S) = Preceding(a, S, Less(S))
  BY <1>1 DEF Below, Preceding
<1>4. \A i \in 1 .. Cardinality(S) :
        (CHOOSE a \in S : Cardinality(Below(a, S)) = i - 1)
          = (CHOOSE a \in S : Cardinality(Preceding(a, S, Less(S))) = i - 1)
  BY <1>3
<1>5. Ascending(S) = InOrder(S, Less(S))
  BY <1>4 DEF Ascending, InOrder
<1> QED BY <1>2, <1>5, InOrderLists

(* What is kept of a list is what it has of the set, once.                 *)
LEMMA KeptLists ==
  ASSUME NEW T, IsFiniteSet(T), NEW s, Lists(s, T), NEW S
  PROVE  Lists(Kept(s, S), T \cap S)
<1> DEFINE at == Places(s, S)
           nth == Ascending(at)
           both == T \cap S
           n == Cardinality(at)
<1>1. Cardinality(T) \in Nat
  BY FS_CardinalityType
<1>2. s \in [1 .. Cardinality(T) -> T]
  BY DEF Lists
<1>3. at = {i \in 1 .. Cardinality(T) : s[i] \in S}
  BY <1>2 DEF Places
<1>4. at \in SUBSET Nat /\ IsFiniteSet(at)
  <2>1. at \in SUBSET (1 .. Cardinality(T)) /\ IsFiniteSet(1 .. Cardinality(T))
    BY <1>1, <1>3, FS_Interval
  <2>2. IsFiniteSet(at)
    BY <2>1, FS_Subset
  <2> QED BY <2>1, <2>2
<1>5. Lists(nth, at)
  BY <1>4, AscendingLists
<1>6. IsFiniteSet(both)
  BY FS_Subset
<1>7. Cardinality(both) = n
  <2> DEFINE f == [i \in at |-> s[i]]
  <2>1. f \in [at -> both]
    BY <1>2, <1>3
  <2>2. \A i, j \in at : f[i] = f[j] => i = j
    BY <1>3 DEF Lists
  <2>3. \A a \in both : \E i \in at : f[i] = a
    BY <1>3 DEF Lists
  <2>4. f \in Bijection(at, both)
    BY <2>1, <2>2, <2>3 DEF Bijection, Injection, IsInjective, Surjection
  <2>5. ExistsBijection(at, both)
    BY <2>4 DEF ExistsBijection
  <2> QED BY <1>4, <2>5, FS_Bijection
<1>8. CASE at = DOMAIN s
  <2>1. Kept(s, S) = s
    BY <1>8 DEF Kept
  <2>2. both = T
    BY <1>2, <1>3, <1>8 DEF Lists
  <2> QED BY <2>1, <2>2
<1> SUFFICES ASSUME at # DOMAIN s PROVE Lists(Kept(s, S), both)
  BY <1>8
<1>9. nth \in [1 .. n -> at]
  BY <1>5 DEF Lists
<1>10. Kept(s, S) = [k \in 1 .. n |-> s[nth[k]]]
  BY <1>9 DEF Kept
<1> HIDE DEF nth
<1>11. Kept(s, S) \in [1 .. Cardinality(both) -> both]
  BY <1>2, <1>3, <1>7, <1>9, <1>10
<1>12. ASSUME NEW i \in 1 .. n, NEW j \in 1 .. n, s[nth[i]] = s[nth[j]] PROVE i = j
  <2>1. nth[i] = nth[j]
    BY <1>3, <1>9, <1>12 DEF Lists
  <2> QED BY <1>5, <2>1 DEF Lists
<1>13. ASSUME NEW a \in both PROVE \E i \in 1 .. n : s[nth[i]] = a
  <2>1. PICK k \in at : s[k] = a
    BY <1>3 DEF Lists
  <2>2. PICK i \in 1 .. n : nth[i] = k
    BY <1>5 DEF Lists
  <2> QED BY <2>1, <2>2
<1> HIDE DEF n, both, at
<1>14. \A i \in 1 .. n : Kept(s, S)[i] = s[nth[i]]
  BY <1>10
<1>15. \A i, j \in 1 .. n : Kept(s, S)[i] = Kept(s, S)[j] => i = j
  BY <1>12, <1>14
<1>16. \A a \in both : \E i \in 1 .. n : Kept(s, S)[i] = a
  BY <1>13, <1>14
<1>17. Lists(Kept(s, S), both)
  BY <1>7, <1>11, <1>15, <1>16 DEF Lists
<1> QED BY <1>17 DEF both

(* A list is a sequence as long as its set.                                *)
LEMMA ListIsSeq ==
  ASSUME NEW S, IsFiniteSet(S), NEW s, Lists(s, S)
  PROVE  s \in Seq(S) /\ Len(s) = Cardinality(S) /\ DOMAIN s = 1 .. Len(s)
<1>1. Cardinality(S) \in Nat
  BY FS_CardinalityType
<1>2. s \in [1 .. Cardinality(S) -> S]
  BY DEF Lists
<1> QED BY <1>1, <1>2

(* One list after another, of sets that share nothing.                     *)
LEMMA ListsJoined ==
  ASSUME NEW S, IsFiniteSet(S), NEW T, IsFiniteSet(T), S \cap T = {},
         NEW s, Lists(s, S), NEW t, Lists(t, T)
  PROVE  Lists(s \o t, S \cup T)
<1> DEFINE m == Len(s)
           n == Len(t)
           all == S \cup T
           both == s \o t
<1>1. /\ s \in Seq(S) /\ t \in Seq(T)
      /\ m \in Nat /\ n \in Nat
      /\ m = Cardinality(S) /\ n = Cardinality(T)
  BY ListIsSeq
<1>2. Cardinality(all) = m + n
  <2>1. Cardinality(S \cap T) = 0
    BY FS_EmptySet
  <2>2. Cardinality(all) = Cardinality(S) + Cardinality(T) - Cardinality(S \cap T)
    BY FS_Union
  <2> QED BY <1>1, <2>1, <2>2
<1>3. /\ \A i \in 1 .. m : s[i] \in S
      /\ \A i, j \in 1 .. m : s[i] = s[j] => i = j
      /\ \A a \in S : \E i \in 1 .. m : s[i] = a
  BY <1>1 DEF Lists
<1>4. /\ \A i \in 1 .. n : t[i] \in T
      /\ \A i, j \in 1 .. n : t[i] = t[j] => i = j
      /\ \A a \in T : \E i \in 1 .. n : t[i] = a
  BY <1>1 DEF Lists
<1>5. /\ both \in Seq(all) /\ Len(both) = m + n
      /\ \A i \in 1 .. m : both[i] = s[i]
      /\ \A i \in 1 .. m + n : i > m => both[i] = t[i - m]
  <2>1. s \in Seq(all) /\ t \in Seq(all)
    BY <1>1
  <2>2. both \in Seq(all) /\ Len(both) = m + n
    BY <2>1
  <2>3. \A i \in 1 .. m : both[i] = s[i]
    BY <2>1
  <2>4. \A i \in 1 .. m + n : i > m => both[i] = t[i - m]
    BY <2>1
  <2> QED BY <2>2, <2>3, <2>4
<1> HIDE DEF m, n, both
<1>6. both \in [1 .. m + n -> all]
  BY <1>5
<1>7. \A i, j \in 1 .. m + n : both[i] = both[j] => i = j
  <2> SUFFICES ASSUME NEW i \in 1 .. m + n, NEW j \in 1 .. m + n, both[i] = both[j]
               PROVE  i = j
    OBVIOUS
  <2>1. CASE i <= m /\ j <= m
    <3>1. i \in 1 .. m /\ j \in 1 .. m
      BY <1>1, <2>1
    <3> QED BY <1>3, <1>5, <3>1
  <2>2. CASE i > m /\ j > m
    <3>1. i - m \in 1 .. n /\ j - m \in 1 .. n
      BY <1>1, <2>2
    <3>2. t[i - m] = t[j - m]
      BY <1>5, <2>2
    <3>3. i - m = j - m
      BY <1>4, <3>1, <3>2
    <3> QED BY <1>1, <3>3
  <2>3. CASE i <= m /\ j > m
    <3>1. i \in 1 .. m /\ j - m \in 1 .. n
      BY <1>1, <2>3
    <3> QED BY <1>3, <1>4, <1>5, <2>3, <3>1
  <2>4. CASE i > m /\ j <= m
    <3>1. j \in 1 .. m /\ i - m \in 1 .. n
      BY <1>1, <2>4
    <3> QED BY <1>3, <1>4, <1>5, <2>4, <3>1
  <2> QED BY <1>1, <2>1, <2>2, <2>3, <2>4
<1>8. ASSUME NEW a \in all PROVE \E i \in 1 .. m + n : both[i] = a
  <2>1. CASE a \in S
    <3>1. PICK i \in 1 .. m : s[i] = a
      BY <1>3, <2>1
    <3>2. i \in 1 .. m + n
      BY <1>1
    <3> QED BY <1>5, <3>1, <3>2
  <2>2. CASE a \in T
    <3>1. PICK i \in 1 .. n : t[i] = a
      BY <1>4, <2>2
    <3>2. i + m \in 1 .. m + n /\ i + m > m /\ (i + m) - m = i
      BY <1>1
    <3> QED BY <1>5, <3>1, <3>2
  <2> QED BY <2>1, <2>2
<1> QED BY <1>2, <1>6, <1>7, <1>8 DEF Lists, both

---------------------------------------------------------------------------
(* Induction and recursion.  The induction theorems of the library take    *)
(* the predicate as an operator, which no prover instantiates; here it is  *)
(* a set.  All of it rests on the well-foundedness of < on the numbers.    *)

(* A set of numbers that is not empty has a least one.                     *)
LEMMA LeastNumber ==
  ASSUME NEW T, T \subseteq Nat, T # {}
  PROVE  \E x \in T : \A y \in T : x <= y
<1> DEFINE R == {p \in Nat \X Nat : p[1] < p[2]}
<1>1. IsWellFoundedOn(R, Nat)
  <2>1. R \cap (Nat \X Nat) \subseteq OpToRel(<, Nat)
    BY DEF OpToRel
  <2> QED BY <2>1, NatLessThanWellFounded, IsWellFoundedOnSubrelation
<1>2. PICK x \in T : \A y \in T : ~(<<y, x>> \in R)
  <2> HIDE DEF R
  <2> QED BY <1>1, WFMin
<1>3. \A y \in T : x <= y
  <2> SUFFICES ASSUME NEW y \in T PROVE x <= y
    OBVIOUS
  <2>1. x \in Nat /\ y \in Nat
    OBVIOUS
  <2>2. ~(<<y, x>> \in R)
    BY <1>2
  <2>3. ~(y < x)
    BY <2>1, <2>2
  <2> QED BY <2>1, <2>3
<1> QED BY <1>3

(* Course-of-values induction over a set.  *)
LEMMA Induction ==
  ASSUME NEW S, \A n \in Nat : (\A m \in Nat : m < n => m \in S) => n \in S
  PROVE  Nat \subseteq S
<1> SUFFICES ASSUME ~(Nat \subseteq S) PROVE FALSE
  OBVIOUS
<1> DEFINE T == {n \in Nat : n \notin S}
<1>1. PICK x \in T : \A y \in T : x <= y
  <2>1. T \subseteq Nat /\ T # {}
    OBVIOUS
  <2> HIDE DEF T
  <2> QED BY <2>1, LeastNumber
<1>2. \A m \in Nat : m < x => m \in S
  BY <1>1
<1> QED BY <1>2

(* F, which makes a function on D of another one, looks only at places of  *)
(* lower rank.                                                             *)
LooksBelow(F, D, V, rank) ==
  /\ V # {} /\ rank \in [D -> Nat] /\ F \in [[D -> V] -> [D -> V]]
  /\ \A g, h \in [D -> V] : \A d \in D :
       (\A e \in D : rank[e] < rank[d] => g[e] = h[e]) => F[g][d] = F[h][d]

LEMMA Recursion ==
  ASSUME NEW D, NEW V, NEW rank, NEW F, LooksBelow(F, D, V, rank)
  PROVE  \E f \in [D -> V] : f = F[f]
<1>0. /\ V # {} /\ rank \in [D -> Nat] /\ F \in [[D -> V] -> [D -> V]]
      /\ \A g, h \in [D -> V] : \A d \in D :
           (\A e \in D : rank[e] < rank[d] => g[e] = h[e]) => F[g][d] = F[h][d]
  BY DEF LooksBelow
<1> USE <1>0
<1> DEFINE Good(g, n) == \A d \in D : rank[d] < n => g[d] = F[g][d]
<1>1. \A n \in Nat : \A g, h \in [D -> V] : Good(g, n) /\ Good(h, n) =>
        \A d \in D : rank[d] < n => g[d] = h[d]
  <2> DEFINE S == {n \in Nat : \A g, h \in [D -> V] : Good(g, n) /\ Good(h, n) =>
                     \A d \in D : rank[d] < n => g[d] = h[d]}
  <2>1. ASSUME NEW n \in Nat, \A m \in Nat : m < n => m \in S
        PROVE  n \in S
    <3> SUFFICES ASSUME NEW g \in [D -> V], NEW h \in [D -> V], Good(g, n), Good(h, n),
                        NEW d \in D, rank[d] < n
                 PROVE  g[d] = h[d]
      OBVIOUS
    <3>1. rank[d] \in Nat /\ rank[d] \in S
      BY <2>1
    <3>2. Good(g, rank[d]) /\ Good(h, rank[d])
      BY <3>1
    <3>3. \A e \in D : rank[e] < rank[d] => g[e] = h[e]
      BY <3>1, <3>2
    <3>4. F[g][d] = F[h][d]
      BY <3>3
    <3> QED BY <3>4
  <2>2. Nat \subseteq S
    <3> HIDE DEF S
    <3> QED BY <2>1, Induction
  <2> QED BY <2>2
<1>2. \A n \in Nat : \E g \in [D -> V] : Good(g, n)
  <2> DEFINE S == {n \in Nat : \E g \in [D -> V] : Good(g, n)}
  <2>1. ASSUME NEW n \in Nat, \A m \in Nat : m < n => m \in S
        PROVE  n \in S
    <3>1. CASE n = 0
      <4>1. PICK v \in V : TRUE
        OBVIOUS
      <4>2. [d \in D |-> v] \in [D -> V] /\ Good([d \in D |-> v], 0)
        OBVIOUS
      <4> QED BY <3>1, <4>2
    <3>2. CASE n # 0
      <4>1. n - 1 \in S
        BY <2>1, <3>2
      <4>2. PICK g \in [D -> V] : Good(g, n - 1)
        BY <4>1
      <4> DEFINE h == F[g]
      <4>3. h \in [D -> V]
        OBVIOUS
      <4>4. \A d \in D : rank[d] < n - 1 => h[d] = g[d]
        BY <4>2
      <4>5. ASSUME NEW d \in D, rank[d] < n PROVE h[d] = F[h][d]
        <5>1. \A e \in D : rank[e] < rank[d] => g[e] = h[e]
          <6> SUFFICES ASSUME NEW e \in D, rank[e] < rank[d] PROVE g[e] = h[e]
            OBVIOUS
          <6>1. rank[e] \in Nat /\ rank[d] \in Nat
            OBVIOUS
          <6>2. rank[e] < n - 1
            BY <4>5, <6>1
          <6> QED BY <4>4, <6>2
        <5> HIDE DEF h
        <5>2. F[g][d] = F[h][d]
          BY <4>3, <5>1
        <5> USE DEF h
        <5> QED BY <5>2
      <4>6. Good(h, n)
        BY <4>5
      <4> QED BY <4>3, <4>6
    <3> QED BY <3>1, <3>2
  <2>2. Nat \subseteq S
    <3> HIDE DEF S
    <3> QED BY <2>1, Induction
  <2> QED BY <2>2
<1> DEFINE upto(n) == CHOOSE g \in [D -> V] : Good(g, n)
<1>3. \A n \in Nat : upto(n) \in [D -> V] /\ Good(upto(n), n)
  BY <1>2
<1> HIDE DEF upto
<1> DEFINE f == [d \in D |-> upto(rank[d] + 1)[d]]
<1>4. f \in [D -> V]
  BY <1>3
<1>5. ASSUME NEW d \in D PROVE f[d] = F[f][d]
  <2> DEFINE n == rank[d] + 1
             g == upto(n)
  <2>1. n \in Nat /\ g \in [D -> V] /\ Good(g, n) /\ rank[d] < n
    <3>1. n \in Nat /\ rank[d] < n
      OBVIOUS
    <3> HIDE DEF n
    <3> QED BY <1>3, <3>1
  <2>2. ASSUME NEW e \in D, rank[e] < rank[d] PROVE g[e] = f[e]
    <3> DEFINE m == rank[e] + 1
               h == upto(m)
    <3>1. m \in Nat /\ h \in [D -> V] /\ Good(h, m) /\ rank[e] < m /\ m < n
      <4>1. rank[e] \in Nat /\ rank[d] \in Nat /\ m \in Nat
        OBVIOUS
      <4>2. rank[e] < m /\ m < n
        BY <2>2, <4>1
      <4> HIDE DEF m
      <4> QED BY <1>3, <4>1, <4>2
    <3>2. Good(g, m)
      <4> SUFFICES ASSUME NEW c \in D, rank[c] < m PROVE g[c] = F[g][c]
        OBVIOUS
      <4>1. rank[c] < n
        BY <2>1, <3>1
      <4> QED BY <2>1, <4>1
    <3>3. g[e] = h[e]
      <4> HIDE DEF g, h, n, m, Good
      <4> QED BY <1>1, <2>1, <3>1, <3>2
    <3> QED BY <3>3
  <2>3. F[g][d] = F[f][d]
    <3> HIDE DEF f, g
    <3> QED BY <1>4, <2>1, <2>2
  <2>4. g[d] = F[g][d]
    BY <2>1
  <2> QED BY <2>3, <2>4
<1> HIDE DEF f
<1>6. f = F[f]
  BY <1>4, <1>5
<1> QED BY <1>4, <1>6

(* A sequence and its first element, and its last.                         *)
LEMMA FirstRest ==
  ASSUME NEW X, NEW s \in Seq(X), s # <<>>
  PROVE  /\ s[1] \in X /\ Tail(s) \in Seq(X) /\ Len(Tail(s)) = Len(s) - 1
         /\ s = <<s[1]>> \o Tail(s)
         /\ \A i \in 1 .. Len(s) - 1 : Tail(s)[i] = s[i + 1]
<1>1. Len(s) \in Nat /\ Len(s) # 0
  OBVIOUS
<1>2. s[1] \in X
  BY <1>1
<1>3. /\ Tail(s) \in Seq(X) /\ Len(Tail(s)) = Len(s) - 1
      /\ \A i \in 1 .. Len(s) - 1 : Tail(s)[i] = s[i + 1]
  BY HeadTailProperties
<1>4. s = <<s[1]>> \o Tail(s)
  BY <1>1, <1>2, <1>3
<1> QED BY <1>2, <1>3, <1>4

LEMMA FrontLast ==
  ASSUME NEW X, NEW s \in Seq(X), s # <<>>
  PROVE  /\ s[Len(s)] \in X /\ SubSeq(s, 1, Len(s) - 1) \in Seq(X)
         /\ Len(SubSeq(s, 1, Len(s) - 1)) = Len(s) - 1
         /\ s = Append(SubSeq(s, 1, Len(s) - 1), s[Len(s)])
<1>1. Len(s) \in Nat /\ Len(s) # 0
  OBVIOUS
<1>2. s[Len(s)] \in X
  BY <1>1
<1>3. /\ SubSeq(s, 1, Len(s) - 1) \in Seq(X)
      /\ Len(SubSeq(s, 1, Len(s) - 1)) = Len(s) - 1
      /\ \A i \in 1 .. Len(s) - 1 : SubSeq(s, 1, Len(s) - 1)[i] = s[i]
  <2>1. \A i \in 1 .. Len(s) - 1 : s[i] \in X
    BY <1>1
  <2>2. /\ SubSeq(s, 1, Len(s) - 1) \in Seq(X)
        /\ Len(SubSeq(s, 1, Len(s) - 1)) = IF 1 <= Len(s) - 1 THEN Len(s) - 1 - 1 + 1 ELSE 0
        /\ \A i \in 1 .. Len(s) - 1 - 1 + 1 : SubSeq(s, 1, Len(s) - 1)[i] = s[1 + i - 1]
    BY <1>1, <2>1, SubSeqProperties
  <2>3. (IF 1 <= Len(s) - 1 THEN Len(s) - 1 - 1 + 1 ELSE 0) = Len(s) - 1
    <3>1. \A n \in Nat : n # 0 => (IF 1 <= n - 1 THEN n - 1 - 1 + 1 ELSE 0) = n - 1
      OBVIOUS
    <3> QED BY <1>1, <3>1
  <2>4. \A i \in 1 .. Len(s) - 1 : i \in 1 .. Len(s) - 1 - 1 + 1 /\ 1 + i - 1 = i
    BY <1>1
  <2> QED BY <2>2, <2>3, <2>4
<1>4. s = Append(SubSeq(s, 1, Len(s) - 1), s[Len(s)])
  BY <1>1, <1>2, <1>3
<1> QED BY <1>2, <1>3, <1>4

(* Induction over sequences, from the front and from the back.             *)
LEMMA FrontInduction ==
  ASSUME NEW X, NEW S, <<>> \in S, \A s \in Seq(X), x \in X : s \in S => <<x>> \o s \in S
  PROVE  Seq(X) \subseteq S
<1> DEFINE T == {n \in Nat : \A s \in Seq(X) : Len(s) = n => s \in S}
<1>1. ASSUME NEW n \in Nat, \A m \in Nat : m < n => m \in T
      PROVE  n \in T
  <2> SUFFICES ASSUME NEW s \in Seq(X), Len(s) = n PROVE s \in S
    OBVIOUS
  <2>1. CASE n = 0
    BY <2>1
  <2>2. CASE n # 0
    <3>1. s # <<>> /\ n - 1 \in Nat /\ n - 1 < n
      BY <2>2
    <3>2. /\ s[1] \in X /\ Tail(s) \in Seq(X) /\ Len(Tail(s)) = n - 1
          /\ s = <<s[1]>> \o Tail(s)
      BY <3>1, FirstRest
    <3>3. Tail(s) \in S
      BY <1>1, <3>1, <3>2
    <3> QED BY <3>2, <3>3
  <2> QED BY <2>1, <2>2
<1>2. Nat \subseteq T
  <2> HIDE DEF T
  <2> QED BY <1>1, Induction
<1> QED BY <1>2

LEMMA BackInduction ==
  ASSUME NEW X, NEW S, <<>> \in S, \A s \in Seq(X), x \in X : s \in S => Append(s, x) \in S
  PROVE  Seq(X) \subseteq S
<1> DEFINE T == {n \in Nat : \A s \in Seq(X) : Len(s) = n => s \in S}
<1>1. ASSUME NEW n \in Nat, \A m \in Nat : m < n => m \in T
      PROVE  n \in T
  <2> SUFFICES ASSUME NEW s \in Seq(X), Len(s) = n PROVE s \in S
    OBVIOUS
  <2>1. CASE n = 0
    BY <2>1
  <2>2. CASE n # 0
    <3>1. s # <<>> /\ n - 1 \in Nat /\ n - 1 < n
      BY <2>2
    <3> DEFINE front == SubSeq(s, 1, Len(s) - 1)
    <3>2. /\ s[Len(s)] \in X /\ front \in Seq(X) /\ Len(front) = n - 1
          /\ s = Append(front, s[Len(s)])
      BY <3>1, FrontLast
    <3> HIDE DEF front
    <3>3. front \in S
      BY <1>1, <3>1, <3>2
    <3> QED BY <3>2, <3>3
  <2> QED BY <2>1, <2>2
<1>2. Nat \subseteq T
  <2> HIDE DEF T
  <2> QED BY <1>1, Induction
<1> QED BY <1>2

(* Induction over an interval of places.                                   *)
LEMMA UpInduction ==
  ASSUME NEW S, NEW n \in Nat, 1 \in S, \A i \in 1 .. n - 1 : i \in S => i + 1 \in S
  PROVE  1 .. n \subseteq S
<1> DEFINE T == {m \in Nat : m \in 1 .. n => m \in S}
<1>1. ASSUME NEW m \in Nat, \A k \in Nat : k < m => k \in T
      PROVE  m \in T
  <2> SUFFICES ASSUME m \in 1 .. n PROVE m \in S
    OBVIOUS
  <2>1. CASE m = 1
    BY <2>1
  <2>2. CASE m # 1
    <3>1. m - 1 \in Nat /\ m - 1 < m /\ m - 1 \in 1 .. n - 1 /\ m - 1 \in 1 .. n
      BY <2>2
    <3>2. m - 1 \in S
      BY <1>1, <3>1
    <3>3. (m - 1) + 1 \in S /\ (m - 1) + 1 = m
      BY <3>1, <3>2
    <3> QED BY <3>3
  <2> QED BY <2>1, <2>2
<1>2. Nat \subseteq T
  <2> HIDE DEF T
  <2> QED BY <1>1, Induction
<1> QED BY <1>2
=============================================================================
