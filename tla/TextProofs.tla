----------------------------- MODULE TextProofs ------------------------------
(***************************************************************************)
(* What holds of the conversions of Texts for every text: paths in URIs    *)
(* and URLs, launch arguments, numbers and headers of a workbook, the      *)
(* check for ATTACH, the place of an error, and a REAL.  A text is a       *)
(* sequence of characters of some set; the proofs go by induction over it. *)
(***************************************************************************)
EXTENDS Texts, ListingProofs

---------------------------------------------------------------------------
(* FlattenSeq is defined by recursion.                                     *)

Flattens(f, seqs) == f = [i \in 1 .. Len(seqs) |-> IF i = 1 THEN seqs[i] ELSE f[i - 1] \o seqs[i]]

LEMMA FlattenExists ==
  ASSUME NEW X, NEW seqs \in Seq(Seq(X))
  PROVE  \E f \in [1 .. Len(seqs) -> Seq(X)] : Flattens(f, seqs)
<1> DEFINE D == 1 .. Len(seqs)
           V == Seq(X)
           rank == [i \in D |-> i]
           F == [g \in [D -> V] |-> [i \in D |-> IF i = 1 THEN seqs[i] ELSE g[i - 1] \o seqs[i]]]
<1>1. V # {} /\ rank \in [D -> Nat]
  OBVIOUS
<1>2. F \in [[D -> V] -> [D -> V]]
  <2> SUFFICES ASSUME NEW g \in [D -> V], NEW i \in D
               PROVE  (IF i = 1 THEN seqs[i] ELSE g[i - 1] \o seqs[i]) \in V
    OBVIOUS
  <2>1. seqs[i] \in Seq(X)
    OBVIOUS
  <2>2. CASE i # 1
    <3>1. i - 1 \in D
      BY <2>2
    <3>2. g[i - 1] \in Seq(X)
      BY <3>1
    <3> QED BY <2>1, <2>2, <3>2
  <2> QED BY <2>1, <2>2
<1>3. \A g, h \in [D -> V] : \A d \in D :
           (\A e \in D : rank[e] < rank[d] => g[e] = h[e]) => F[g][d] = F[h][d]
  <2> SUFFICES ASSUME NEW g \in [D -> V], NEW h \in [D -> V], NEW d \in D,
                      \A e \in D : rank[e] < rank[d] => g[e] = h[e]
               PROVE  F[g][d] = F[h][d]
    OBVIOUS
  <2>1. d # 1 => g[d - 1] = h[d - 1]
    OBVIOUS
  <2> QED BY <2>1
<1>4. LooksBelow(F, D, V, rank)
  BY <1>1, <1>2, <1>3 DEF LooksBelow
<1>5. \E f \in [D -> V] : f = F[f]
  <2> HIDE DEF D, V, rank, F
  <2> QED BY <1>4, Recursion
<1> QED BY <1>5 DEF Flattens

LEMMA FlattenSeqIs ==
  ASSUME NEW X, NEW seqs \in Seq(Seq(X)), seqs # <<>>
  PROVE  \E f : Flattens(f, seqs) /\ FlattenSeq(seqs) = f[Len(seqs)]
<1>1. \E f : Flattens(f, seqs)
  BY FlattenExists
<1>2. Flattens(CHOOSE f : Flattens(f, seqs), seqs)
  BY <1>1
<1>3. FlattenSeq(seqs) = (CHOOSE f : Flattens(f, seqs))[Len(seqs)]
  <2>1. Len(seqs) # 0
    OBVIOUS
  <2> QED BY <2>1 DEF FlattenSeq, Flattens
<1> QED BY <1>2, <1>3

LEMMA FlattenEmpty == FlattenSeq(<<>>) = <<>>
  BY DEF FlattenSeq

LEMMA FlattensType ==
  ASSUME NEW X, NEW seqs \in Seq(Seq(X)), NEW f, Flattens(f, seqs)
  PROVE  f \in [1 .. Len(seqs) -> Seq(X)]
<1> DEFINE S == {i \in 1 .. Len(seqs) : f[i] \in Seq(X)}
           n == Len(seqs)
<1>0. n \in Nat /\ \A i \in 1 .. n : seqs[i] \in Seq(X)
  BY LenProperties
<1>1. \A i \in 1 .. n : f[i] = IF i = 1 THEN seqs[i] ELSE f[i - 1] \o seqs[i]
  BY <1>0 DEF Flattens
<1>2. CASE n # 0
  <2>1. 1 \in S
    BY <1>0, <1>1, <1>2
  <2>2. ASSUME NEW i \in 1 .. n - 1, i \in S PROVE i + 1 \in S
    <3>1. i + 1 \in 1 .. n /\ i + 1 # 1 /\ (i + 1) - 1 = i /\ f[i] \in Seq(X)
      BY <1>0, <2>2
    <3>2. f[i + 1] = f[i] \o seqs[i + 1] /\ seqs[i + 1] \in Seq(X)
      BY <1>0, <1>1, <3>1
    <3>3. f[i] \o seqs[i + 1] \in Seq(X)
      BY <3>1, <3>2
    <3> QED BY <3>1, <3>2, <3>3
  <2>3. 1 .. n \subseteq S
    <3> HIDE DEF S, n
    <3> QED BY <1>0, <2>1, <2>2, UpInduction
  <2> QED BY <2>3 DEF Flattens
<1>3. CASE n = 0
  BY <1>3 DEF Flattens
<1> QED BY <1>2, <1>3

LEMMA FlattenType ==
  ASSUME NEW X, NEW seqs \in Seq(Seq(X)) PROVE FlattenSeq(seqs) \in Seq(X)
<1>1. CASE seqs = <<>>
  <2>1. FlattenSeq(seqs) = <<>>
    BY <1>1, FlattenEmpty DEF FlattenSeq
  <2>2. <<>> \in Seq(X)
    BY EmptySeq
  <2> QED BY <2>1, <2>2
<1>2. CASE seqs # <<>>
  <2>1. PICK f : Flattens(f, seqs) /\ FlattenSeq(seqs) = f[Len(seqs)]
    BY <1>2, FlattenSeqIs
  <2>2. f \in [1 .. Len(seqs) -> Seq(X)]
    BY <2>1, FlattensType
  <2>3. Len(seqs) \in 1 .. Len(seqs)
    BY <1>2, EmptySeq
  <2>4. f[Len(seqs)] \in Seq(X)
    BY <2>2, <2>3
  <2>5. FlattenSeq(seqs) = f[Len(seqs)]
    BY <2>1
  <2> QED BY <2>4, <2>5
<1> QED BY <1>1, <1>2

LEMMA FlattenAppend ==
  ASSUME NEW X, NEW seqs \in Seq(Seq(X)), NEW s \in Seq(X)
  PROVE  FlattenSeq(Append(seqs, s)) = FlattenSeq(seqs) \o s
<1> DEFINE n == Len(seqs)  more == Append(seqs, s)
<1>1. /\ n \in Nat /\ more \in Seq(Seq(X)) /\ Len(more) = n + 1 /\ more # <<>>
      /\ more[n + 1] = s /\ \A i \in 1 .. n : more[i] = seqs[i]
  BY AppendProperties, LenProperties
<1>2. PICK f : Flattens(f, more) /\ FlattenSeq(more) = f[n + 1]
  <2> HIDE DEF more, n
  <2> QED BY <1>1, FlattenSeqIs
<1>3. \A i \in 1 .. n + 1 : f[i] = IF i = 1 THEN more[i] ELSE f[i - 1] \o more[i]
  BY <1>1, <1>2 DEF Flattens
<1> HIDE DEF more, n
<1>4. CASE n = 0
  <2>1. seqs = <<>> /\ FlattenSeq(more) = s
    BY <1>1, <1>2, <1>3, <1>4 DEF n
  <2> QED BY <2>1, FlattenEmpty DEF more
<1>5. CASE n # 0
  <2>1. PICK g : Flattens(g, seqs) /\ FlattenSeq(seqs) = g[n]
    BY <1>1, <1>5, FlattenSeqIs DEF n
  <2>2. \A i \in 1 .. n : g[i] = IF i = 1 THEN seqs[i] ELSE g[i - 1] \o seqs[i]
    BY <2>1 DEF Flattens, n
  <2> DEFINE S == {i \in 1 .. n : f[i] = g[i]}
  <2>3. 1 \in S
    BY <1>1, <1>3, <1>5, <2>2
  <2>4. ASSUME NEW i \in 1 .. n - 1, i \in S PROVE i + 1 \in S
    <3>1. i + 1 \in 1 .. n /\ i + 1 \in 1 .. n + 1 /\ i + 1 # 1 /\ (i + 1) - 1 = i /\ f[i] = g[i]
      BY <1>1, <2>4
    <3>2. f[i + 1] = f[i] \o more[i + 1] /\ g[i + 1] = g[i] \o seqs[i + 1]
      BY <1>3, <2>2, <3>1
    <3> QED BY <1>1, <3>1, <3>2
  <2>5. 1 .. n \subseteq S
    <3> HIDE DEF S
    <3> QED BY <1>1, <2>3, <2>4, UpInduction
  <2>6. f[n + 1] = f[n] \o s /\ f[n] = g[n]
    <3>1. n + 1 \in 1 .. n + 1 /\ n + 1 # 1 /\ (n + 1) - 1 = n /\ n \in 1 .. n
      BY <1>1, <1>5
    <3>2. f[n + 1] = f[n] \o more[n + 1]
      BY <1>3, <3>1
    <3> QED BY <1>1, <2>5, <3>1, <3>2
  <2> QED BY <1>2, <2>1, <2>6 DEF more
<1> QED BY <1>1, <1>4, <1>5

LEMMA FlattenCat ==
  ASSUME NEW X, NEW seqs \in Seq(Seq(X)), NEW more \in Seq(Seq(X))
  PROVE  FlattenSeq(seqs \o more) = FlattenSeq(seqs) \o FlattenSeq(more)
<1> DEFINE S == {t \in Seq(Seq(X)) : FlattenSeq(seqs \o t) = FlattenSeq(seqs) \o FlattenSeq(t)}
<1>1. <<>> \in S
  <2>1. FlattenSeq(seqs) \in Seq(X)
    BY FlattenType
  <2>2. seqs \o <<>> = seqs /\ FlattenSeq(seqs) \o <<>> = FlattenSeq(seqs)
    BY <2>1, ConcatEmptySeq
  <2>3. <<>> \in Seq(Seq(X))
    BY EmptySeq
  <2> QED BY <2>2, <2>3, FlattenEmpty
<1>2. ASSUME NEW t \in Seq(Seq(X)), NEW x \in Seq(X), t \in S
      PROVE  Append(t, x) \in S
  <2>1. seqs \o Append(t, x) = Append(seqs \o t, x) /\ seqs \o t \in Seq(Seq(X))
        /\ Append(t, x) \in Seq(Seq(X))
    OBVIOUS
  <2>2. /\ FlattenSeq(Append(seqs \o t, x)) = FlattenSeq(seqs \o t) \o x
        /\ FlattenSeq(Append(t, x)) = FlattenSeq(t) \o x
    BY <2>1, FlattenAppend
  <2>3. (FlattenSeq(seqs) \o FlattenSeq(t)) \o x = FlattenSeq(seqs) \o (FlattenSeq(t) \o x)
    <3>1. FlattenSeq(seqs) \in Seq(X) /\ FlattenSeq(t) \in Seq(X)
      BY FlattenType
    <3> QED BY <3>1
  <2> QED BY <1>2, <2>1, <2>2, <2>3
<1>3. Seq(Seq(X)) \subseteq S
  <2> HIDE DEF S
  <2> QED BY <1>1, <1>2, BackInduction
<1> QED BY <1>3

---------------------------------------------------------------------------
(* Replacing characters.                                                   *)
LEMMA SubTyped ==
  ASSUME NEW X, NEW Y, NEW s \in Seq(X), NEW c, X \ {c} \subseteq Y, NEW by \in Seq(Y)
  PROVE  Substituted(s, c, by) \in Seq(Y)
<1> DEFINE parts == [i \in DOMAIN s |-> IF s[i] = c THEN by ELSE <<s[i]>>]
<1>1. DOMAIN s = 1 .. Len(s) /\ Len(s) \in Nat
  BY LenProperties
<1>2. \A i \in 1 .. Len(s) : parts[i] \in Seq(Y)
  <2> SUFFICES ASSUME NEW i \in 1 .. Len(s) PROVE (IF s[i] = c THEN by ELSE <<s[i]>>) \in Seq(Y)
    BY <1>1
  <2>1. s[i] \in X
    BY ElementOfSeq
  <2>2. s[i] # c => <<s[i]>> \in Seq(Y)
    BY <2>1
  <2> QED BY <2>2
<1>3. parts \in Seq(Seq(Y))
  BY <1>1, <1>2
<1>4. FlattenSeq(parts) \in Seq(Y)
  <2> HIDE DEF parts
  <2> QED BY <1>3, FlattenType
<1> QED BY <1>4 DEF Substituted

LEMMA SubEmpty == ASSUME NEW c, NEW by PROVE Substituted(<<>>, c, by) = <<>>
<1>1. [i \in DOMAIN <<>> |-> IF <<>>[i] = c THEN by ELSE <<<<>>[i]>>] = <<>>
  OBVIOUS
<1> QED BY <1>1, FlattenEmpty DEF Substituted

LEMMA FlattenOne ==
  ASSUME NEW X, NEW s \in Seq(X) PROVE FlattenSeq(<<s>>) = s
<1>1. <<>> \in Seq(Seq(X)) /\ Append(<<>>, s) = <<s>> /\ <<>> \o s = s
  BY ConcatEmptySeq
<1>2. FlattenSeq(Append(<<>>, s)) = FlattenSeq(<<>>) \o s
  BY <1>1, FlattenAppend
<1> QED BY <1>1, <1>2, FlattenEmpty

LEMMA SubOne ==
  ASSUME NEW x, NEW c, NEW X, NEW by \in Seq(X)
  PROVE  Substituted(<<x>>, c, by) = IF x = c THEN by ELSE <<x>>
<1> DEFINE part == IF x = c THEN by ELSE <<x>>
<1>1. [i \in DOMAIN <<x>> |-> IF <<x>>[i] = c THEN by ELSE <<(<<x>>)[i]>>] = <<part>>
  <2>1. DOMAIN <<x>> = 1 .. 1 /\ DOMAIN <<part>> = 1 .. 1
    OBVIOUS
  <2> QED BY <2>1
<1>2. part \in Seq(X \cup {x})
  <2>1. by \in Seq(X \cup {x})
    <3>1. X \subseteq X \cup {x}
      OBVIOUS
    <3> QED BY <3>1, SeqMonotonic
  <2>2. <<x>> \in Seq(X \cup {x})
    OBVIOUS
  <2>3. CASE x = c
    BY <2>1, <2>3
  <2>4. CASE x # c
    BY <2>2, <2>4
  <2> QED BY <2>3, <2>4
<1>3. FlattenSeq(<<part>>) = part
  <2> HIDE DEF part
  <2> QED BY <1>2, FlattenOne
<1> QED BY <1>1, <1>3 DEF Substituted

LEMMA SubCat ==
  ASSUME NEW X, NEW s \in Seq(X), NEW t \in Seq(X), NEW c, NEW by \in Seq(X)
  PROVE  Substituted(s \o t, c, by) = Substituted(s, c, by) \o Substituted(t, c, by)
<1> DEFINE P(w) == [i \in DOMAIN w |-> IF w[i] = c THEN by ELSE <<w[i]>>]
<1>1. \A w \in Seq(X) : P(w) \in Seq(Seq(X)) /\ Len(P(w)) = Len(w)
  <2> SUFFICES ASSUME NEW w \in Seq(X) PROVE P(w) \in Seq(Seq(X)) /\ Len(P(w)) = Len(w)
    OBVIOUS
  <2>1. DOMAIN w = 1 .. Len(w) /\ Len(w) \in Nat
    BY LenProperties
  <2>2. \A i \in 1 .. Len(w) : P(w)[i] \in Seq(X)
    <3> SUFFICES ASSUME NEW i \in 1 .. Len(w) PROVE (IF w[i] = c THEN by ELSE <<w[i]>>) \in Seq(X)
      BY <2>1
    <3>1. w[i] \in X
      BY ElementOfSeq
    <3> QED BY <3>1
  <2> QED BY <2>1, <2>2
<1>2. P(s \o t) = P(s) \o P(t)
  <2>0. s \o t \in Seq(X) /\ Len(s \o t) = Len(s) + Len(t) /\ Len(s) \in Nat /\ Len(t) \in Nat
        /\ \A i \in 1 .. Len(s) + Len(t) :
             (s \o t)[i] = IF i <= Len(s) THEN s[i] ELSE t[i - Len(s)]
    BY ConcatProperties, LenProperties
  <2>1. Len(P(s \o t)) = Len(P(s) \o P(t)) /\ P(s) \o P(t) \in Seq(Seq(X)) /\ P(s \o t) \in Seq(Seq(X))
    <3>1. /\ P(s) \in Seq(Seq(X)) /\ Len(P(s)) = Len(s)
          /\ P(t) \in Seq(Seq(X)) /\ Len(P(t)) = Len(t)
          /\ P(s \o t) \in Seq(Seq(X)) /\ Len(P(s \o t)) = Len(s \o t)
      BY <2>0, <1>1
    <3> HIDE DEF P
    <3>2. P(s) \o P(t) \in Seq(Seq(X)) /\ Len(P(s) \o P(t)) = Len(P(s)) + Len(P(t))
      BY <3>1, ConcatProperties
    <3> QED BY <2>0, <3>1, <3>2
  <2>2. ASSUME NEW i \in 1 .. Len(s) + Len(t) PROVE P(s \o t)[i] = (P(s) \o P(t))[i]
    <3>1. (P(s) \o P(t))[i] = IF i <= Len(P(s)) THEN P(s)[i] ELSE P(t)[i - Len(P(s))]
      <4> HIDE DEF P
      <4> QED BY <1>1, <2>0, <2>2, ConcatProperties
    <3>2. CASE i <= Len(s)
      <4>1. i \in DOMAIN s /\ i \in DOMAIN (s \o t) /\ (s \o t)[i] = s[i]
        BY <2>0, <2>2, <3>2, LenProperties
      <4>2. P(s \o t)[i] = P(s)[i]
        BY <4>1
      <4> QED BY <1>1, <3>1, <3>2, <4>2
    <3>3. CASE ~(i <= Len(s))
      <4>1. i - Len(s) \in DOMAIN t /\ i \in DOMAIN (s \o t) /\ (s \o t)[i] = t[i - Len(s)]
        BY <2>0, <2>2, <3>3, LenProperties
      <4>2. P(s \o t)[i] = P(t)[i - Len(s)]
        BY <4>1
      <4> QED BY <1>1, <3>1, <3>3, <4>2
    <3> QED BY <3>2, <3>3
  <2> HIDE DEF P
  <2>3. Len(P(s \o t)) = Len(s) + Len(t)
    BY <1>1, <2>0
  <2> QED BY <2>1, <2>2, <2>3, SeqEqual
<1>3. FlattenSeq(P(s) \o P(t)) = FlattenSeq(P(s)) \o FlattenSeq(P(t))
  <2> HIDE DEF P
  <2> QED BY <1>1, FlattenCat
<1> QED BY <1>2, <1>3 DEF Substituted

LEMMA SubSame ==
  ASSUME NEW X, NEW c, NEW by \in Seq(X), NEW s \in Seq(X)
  PROVE  Substituted(s, c, by) \in Seq(X)
<1>1. X \ {c} \subseteq X
  OBVIOUS
<1> QED BY <1>1, SubTyped

LEMMA SubUntouched ==
  ASSUME NEW X, NEW c, c \notin X, NEW by \in Seq(X), NEW s \in Seq(X)
  PROVE  Substituted(s, c, by) = s
<1> DEFINE S == {w \in Seq(X) : Substituted(w, c, by) = w}
<1>1. <<>> \in S
  BY SubEmpty, EmptySeq
<1>2. ASSUME NEW w \in Seq(X), NEW x \in X, w \in S PROVE <<x>> \o w \in S
  <2>1. <<x>> \in Seq(X) /\ <<x>> \o w \in Seq(X)
    OBVIOUS
  <2>2. Substituted(<<x>> \o w, c, by) = Substituted(<<x>>, c, by) \o Substituted(w, c, by)
    <3> DEFINE h == <<x>>
    <3>1. h \in Seq(X)
      BY <2>1
    <3> HIDE DEF h
    <3>2. Substituted(h \o w, c, by) = Substituted(h, c, by) \o Substituted(w, c, by)
      BY <3>1, SubCat
    <3> QED BY <3>2 DEF h
  <2>3. Substituted(<<x>>, c, by) = <<x>>
    <3>1. x # c
      OBVIOUS
    <3>2. Substituted(<<x>>, c, by) = IF x = c THEN by ELSE <<x>>
      BY SubOne
    <3> QED BY <3>1, <3>2
  <2> QED BY <1>2, <2>1, <2>2, <2>3
<1>3. Seq(X) \subseteq S
  <2> HIDE DEF S
  <2> QED BY <1>1, <1>2, FrontInduction
<1> QED BY <1>3

(* The characters an escape is written with, and the escapes.              *)
EscapeChars == {"%", "2", "0", "5", "3", "F"}
EscapeOf(x) ==
  CASE x = "%" -> <<"%", "2", "5">> [] x = Space -> <<"%", "2", "0">>
    [] x = "?" -> <<"%", "3", "F">> [] x = "#" -> <<"%", "2", "3">> [] OTHER -> <<x>>

LEMMA SpaceApart == Space \notin EscapeChars /\ Space \notin {"?", "#", "/", "\\"}
  BY Zenon DEF Space, EscapeChars

LEMMA EscapesTyped ==
  ASSUME NEW X, EscapeChars \subseteq X
  PROVE  /\ <<"%", "2", "5">> \in Seq(X) /\ <<"%", "2", "0">> \in Seq(X)
         /\ <<"%", "3", "F">> \in Seq(X) /\ <<"%", "2", "3">> \in Seq(X)
<1>1. "%" \in X /\ "2" \in X /\ "5" \in X /\ "0" \in X /\ "3" \in X /\ "F" \in X
  BY DEF EscapeChars
<1> QED BY <1>1

LEMMA EscapedTyped ==
  ASSUME NEW X, EscapeChars \subseteq X, NEW p \in Seq(X)
  PROVE  Escaped(p) \in Seq(X \ {Space, "?", "#"})
<1> DEFINE Y == X \ {Space}  Z == Y \ {"?"}  W == Z \ {"#"}
           one == Substituted(p, "%", <<"%", "2", "5">>)
           two == Substituted(one, Space, <<"%", "2", "0">>)
           three == Substituted(two, "?", <<"%", "3", "F">>)
<1>0. EscapeChars \subseteq Y /\ EscapeChars \subseteq Z /\ EscapeChars \subseteq W
  BY SpaceApart DEF EscapeChars
<1>1. one \in Seq(X)
  BY EscapesTyped, SubTyped
<1>2. two \in Seq(Y)
  <2>1. <<"%", "2", "0">> \in Seq(Y)
    BY <1>0, EscapesTyped
  <2> HIDE DEF one, Y
  <2> QED BY <1>1, <2>1, SubTyped DEF Y
<1>3. three \in Seq(Z)
  <2>1. <<"%", "3", "F">> \in Seq(Z)
    BY <1>0, EscapesTyped
  <2> HIDE DEF two, Y, Z
  <2> QED BY <1>2, <2>1, SubTyped DEF Z
<1>4. Substituted(three, "#", <<"%", "2", "3">>) \in Seq(W)
  <2>1. <<"%", "2", "3">> \in Seq(W)
    BY <1>0, EscapesTyped
  <2> HIDE DEF three, Z, W
  <2> QED BY <1>3, <2>1, SubTyped DEF W
<1>5. W = X \ {Space, "?", "#"}
  OBVIOUS
<1> HIDE DEF W
<1> QED BY <1>4, <1>5 DEF Escaped

LEMMA EscapedEmpty == Escaped(<<>>) = <<>>
  BY SubEmpty DEF Escaped

(* The provers are kept from joining again what is joined already.         *)
Joined(s, t) == s \o t

LEMMA SubJoined ==
  ASSUME NEW X, NEW s \in Seq(X), NEW t \in Seq(X), NEW c, NEW by \in Seq(X)
  PROVE  Substituted(Joined(s, t), c, by) = Joined(Substituted(s, c, by), Substituted(t, c, by))
BY SubCat DEF Joined

LEMMA EscapedCat ==
  ASSUME NEW X, EscapeChars \subseteq X, NEW s \in Seq(X), NEW t \in Seq(X)
  PROVE  Escaped(s \o t) = Escaped(s) \o Escaped(t)
<1> DEFINE percent == <<"%", "2", "5">>  space == <<"%", "2", "0">>
           question == <<"%", "3", "F">>  hash == <<"%", "2", "3">>
           one(p) == Substituted(p, "%", percent)
           two(p) == Substituted(one(p), Space, space)
           three(p) == Substituted(two(p), "?", question)
           four(p) == Substituted(three(p), "#", hash)
<1>1. percent \in Seq(X) /\ space \in Seq(X) /\ question \in Seq(X) /\ hash \in Seq(X)
  BY EscapesTyped
<1>2. four(Joined(s, t)) = Joined(four(s), four(t))
  <2> HIDE DEF percent, space, question, hash
  <2>1. one(s) \in Seq(X) /\ one(t) \in Seq(X)
    BY <1>1, SubSame
  <2>2. one(Joined(s, t)) = Joined(one(s), one(t))
    BY <1>1, SubJoined
  <2> HIDE DEF one
  <2>3. two(s) \in Seq(X) /\ two(t) \in Seq(X)
    BY <1>1, <2>1, SubSame
  <2>4. two(Joined(s, t)) = Joined(two(s), two(t))
    <3>1. Substituted(Joined(one(s), one(t)), Space, space) = Joined(two(s), two(t))
      BY <1>1, <2>1, SubJoined
    <3> QED BY <2>2, <3>1
  <2> HIDE DEF two
  <2>5. three(s) \in Seq(X) /\ three(t) \in Seq(X)
    BY <1>1, <2>3, SubSame
  <2>6. three(Joined(s, t)) = Joined(three(s), three(t))
    BY <1>1, <2>3, <2>4, SubJoined
  <2> HIDE DEF three
  <2> QED BY <1>1, <2>5, <2>6, SubJoined
<1> QED BY <1>2 DEF Escaped, Joined

LEMMA EscapedOne == ASSUME NEW x PROVE Escaped(<<x>>) = EscapeOf(x)
<1>0. /\ <<"%", "2", "5">> \in Seq(EscapeChars) /\ <<"%", "2", "0">> \in Seq(EscapeChars)
      /\ <<"%", "3", "F">> \in Seq(EscapeChars) /\ <<"%", "2", "3">> \in Seq(EscapeChars)
  BY EscapesTyped
<1>1. \A w \in Seq(EscapeChars) : /\ Substituted(w, Space, <<"%", "2", "0">>) = w
                                  /\ Substituted(w, "?", <<"%", "3", "F">>) = w
                                  /\ Substituted(w, "#", <<"%", "2", "3">>) = w
  <2>1. Space \notin EscapeChars /\ "?" \notin EscapeChars /\ "#" \notin EscapeChars
    BY SpaceApart DEF EscapeChars
  <2> QED BY <1>0, <2>1, SubUntouched
<1>2. \A y, c : \A by \in Seq(EscapeChars) : Substituted(<<y>>, c, by) = IF y = c THEN by ELSE <<y>>
  BY SubOne
<1>3. CASE x = "%"
  <2>1. Substituted(<<x>>, "%", <<"%", "2", "5">>) = <<"%", "2", "5">>
    BY <1>0, <1>2, <1>3
  <2> QED BY <1>0, <1>1, <1>3, <2>1, SpaceApart DEF Escaped, EscapeOf, EscapeChars
<1>4. CASE x # "%"
  <2>0. Substituted(<<x>>, "%", <<"%", "2", "5">>) = <<x>>
    BY <1>0, <1>2, <1>4
  <2>1. CASE x = Space
    <3>1. Substituted(<<x>>, Space, <<"%", "2", "0">>) = <<"%", "2", "0">>
      BY <1>0, <1>2, <2>1
    <3> QED BY <1>0, <1>1, <2>0, <2>1, <3>1, SpaceApart DEF Escaped, EscapeOf, EscapeChars
  <2>2. CASE x # Space
    <3>0. Substituted(<<x>>, Space, <<"%", "2", "0">>) = <<x>>
      BY <1>0, <1>2, <2>2
    <3>1. CASE x = "?"
      <4>1. Substituted(<<x>>, "?", <<"%", "3", "F">>) = <<"%", "3", "F">>
        BY <1>0, <1>2, <3>1
      <4> QED BY <1>0, <1>1, <2>0, <3>0, <3>1, <4>1, SpaceApart DEF Escaped, EscapeOf, EscapeChars
    <3>2. CASE x # "?"
      <4>1. Substituted(<<x>>, "?", <<"%", "3", "F">>) = <<x>>
        BY <1>0, <1>2, <3>2
      <4>2. Substituted(<<x>>, "#", <<"%", "2", "3">>) = IF x = "#" THEN <<"%", "2", "3">> ELSE <<x>>
        BY <1>0, <1>2
      <4>3. Escaped(<<x>>) = IF x = "#" THEN <<"%", "2", "3">> ELSE <<x>>
        BY <2>0, <3>0, <4>1, <4>2 DEF Escaped
      <4> QED BY <1>4, <2>2, <3>2, <4>3 DEF EscapeOf
    <3> QED BY <3>1, <3>2
  <2> QED BY <2>1, <2>2
<1> QED BY <1>3, <1>4

---------------------------------------------------------------------------
(* Decoding.                                                               *)
Decodes(out, s) ==
  out = [i \in 1 .. Len(s) + 1 |->
        CASE i > Len(s) -> <<>>
          [] i <= Len(s) /\ s[i] # "%" -> IF out[i + 1] = Malformed THEN Malformed
                                          ELSE <<s[i]>> \o out[i + 1]
          [] OTHER -> IF i + 2 <= Len(s) /\ {s[i + 1], s[i + 2]} \subseteq HexDigits
                      THEN IF out[i + 3] = Malformed THEN Malformed
                           ELSE <<Byte(s[i + 1], s[i + 2])>> \o out[i + 3]
                      ELSE Malformed]

(* The text whose first character x is, unless the rest is malformed.      *)
Headed(x, rest) == IF rest = Malformed THEN Malformed ELSE <<x>> \o rest

DecodedAt(out, s, i) ==
  /\ i = Len(s) + 1 => out[i] = <<>>
  /\ i <= Len(s) /\ s[i] # "%" => out[i] = Headed(s[i], out[i + 1])
  /\ i <= Len(s) /\ s[i] = "%" =>
       out[i] = IF i + 2 <= Len(s) /\ {s[i + 1], s[i + 2]} \subseteq HexDigits
                THEN Headed(Byte(s[i + 1], s[i + 2]), out[i + 3]) ELSE Malformed

LEMMA DecodesIs ==
  ASSUME NEW out, NEW s, Decodes(out, s), Len(s) \in Nat, NEW i \in 1 .. Len(s) + 1
  PROVE  DecodedAt(out, s, i)
<1>1. out[i] =
        CASE i > Len(s) -> <<>>
          [] i <= Len(s) /\ s[i] # "%" -> Headed(s[i], out[i + 1])
          [] OTHER -> IF i + 2 <= Len(s) /\ {s[i + 1], s[i + 2]} \subseteq HexDigits
                      THEN Headed(Byte(s[i + 1], s[i + 2]), out[i + 3])
                      ELSE Malformed
  BY DEF Decodes, Headed
<1> QED BY <1>1 DEF DecodedAt

LEMMA DecodeExists ==
  ASSUME NEW X, NEW s \in Seq(X) PROVE \E out : Decodes(out, s)
<1> DEFINE Y == X \cup {"malformed"} \cup {Byte(x, y) : x, y \in HexDigits}
           D == 1 .. Len(s) + 1
           V == Seq(Y)
           rank == [i \in D |-> Len(s) + 1 - i]
           at(g, i) ==
             CASE i > Len(s) -> <<>>
               [] i <= Len(s) /\ s[i] # "%" -> Headed(s[i], g[i + 1])
               [] OTHER -> IF i + 2 <= Len(s) /\ {s[i + 1], s[i + 2]} \subseteq HexDigits
                           THEN Headed(Byte(s[i + 1], s[i + 2]), g[i + 3])
                           ELSE Malformed
           F == [g \in [D -> V] |-> [i \in D |-> at(g, i)]]
<1>0. Len(s) \in Nat /\ \A i \in 1 .. Len(s) : s[i] \in X
  BY LenProperties, ElementOfSeq
<1>1. rank \in [D -> Nat]
  BY <1>0
<1>2. Malformed \in V /\ <<>> \in V
  BY DEF Malformed
<1>3. \A x \in Y, rest \in V : Headed(x, rest) \in V
  <2> HIDE DEF Y
  <2> SUFFICES ASSUME NEW x \in Y, NEW rest \in V PROVE Headed(x, rest) \in V
    OBVIOUS
  <2>1. <<x>> \o rest \in Seq(Y)
    <3>1. <<x>> \in Seq(Y)
      OBVIOUS
    <3> QED BY <3>1, ConcatProperties
  <2>2. CASE rest = Malformed
    BY <1>2, <2>2 DEF Headed
  <2>3. CASE rest # Malformed
    BY <2>1, <2>3 DEF Headed
  <2> QED BY <2>2, <2>3
<1>4. F \in [[D -> V] -> [D -> V]]
  <2> SUFFICES ASSUME NEW g \in [D -> V], NEW i \in D PROVE at(g, i) \in V
    <3> HIDE DEF at, V, D
    <3> QED OBVIOUS
  <2>1. CASE i > Len(s)
    BY <1>2, <2>1
  <2>2. CASE i <= Len(s) /\ s[i] # "%"
    <3>1. s[i] \in Y /\ g[i + 1] \in V
      BY <1>0, <2>2
    <3> QED BY <1>3, <2>2, <3>1
  <2>3. CASE i <= Len(s) /\ s[i] = "%"
    <3>1. CASE i + 2 <= Len(s) /\ {s[i + 1], s[i + 2]} \subseteq HexDigits
      <4>1. Byte(s[i + 1], s[i + 2]) \in Y /\ i + 3 \in D
        BY <1>0, <3>1
      <4>2. g[i + 3] \in V
        BY <4>1
      <4>3. at(g, i) = Headed(Byte(s[i + 1], s[i + 2]), g[i + 3])
        BY <1>0, <2>3, <3>1
      <4> HIDE DEF V, at, Y, D
      <4> QED BY <1>3, <4>1, <4>2, <4>3
    <3>2. CASE ~(i + 2 <= Len(s) /\ {s[i + 1], s[i + 2]} \subseteq HexDigits)
      <4>1. at(g, i) = Malformed
        BY <1>0, <2>3, <3>2
      <4> HIDE DEF V, at
      <4> QED BY <1>2, <4>1
    <3> QED BY <3>1, <3>2
  <2> QED BY <1>0, <2>1, <2>2, <2>3
<1>5. \A g, h \in [D -> V] : \A d \in D :
        (\A e \in D : rank[e] < rank[d] => g[e] = h[e]) => F[g][d] = F[h][d]
  <2> SUFFICES ASSUME NEW g \in [D -> V], NEW h \in [D -> V], NEW d \in D,
                      \A e \in D : rank[e] < rank[d] => g[e] = h[e]
               PROVE  F[g][d] = F[h][d]
    <3> HIDE DEF F, rank, V, D
    <3> QED OBVIOUS
  <2>0. F[g][d] = at(g, d) /\ F[h][d] = at(h, d)
    <3> HIDE DEF at, V, D
    <3> QED OBVIOUS
  <2>1. d + 1 \in D => g[d + 1] = h[d + 1]
    BY <1>0
  <2>2. d + 3 \in D => g[d + 3] = h[d + 3]
    BY <1>0
  <2>3. /\ d <= Len(s) => d + 1 \in D
        /\ d + 2 <= Len(s) => d + 3 \in D
    BY <1>0
  <2>4. at(g, d) = at(h, d)
    BY <1>0, <2>1, <2>2, <2>3
  <2> QED BY <2>0, <2>4
<1>6. LooksBelow(F, D, V, rank)
  <2> HIDE DEF D, V, rank, F
  <2> QED BY <1>1, <1>2, <1>4, <1>5 DEF LooksBelow
<1>7. PICK f \in [D -> V] : f = F[f]
  <2> HIDE DEF D, V, rank, F
  <2> QED BY <1>6, Recursion
<1>8. Decodes(f, s)
  BY <1>7 DEF Decodes, Headed
<1> QED BY <1>8

LEMMA DecodeIs ==
  ASSUME NEW X, NEW s \in Seq(X)
  PROVE  \E out : Decodes(out, s) /\ percent_decode(s) = out[1]
<1>1. Decodes(CHOOSE out : Decodes(out, s), s)
  BY DecodeExists
<1>2. percent_decode(s) = (CHOOSE out : Decodes(out, s))[1]
  BY DEF percent_decode, Decodes
<1> QED BY <1>1, <1>2

LEMMA AfterIs ==
  ASSUME NEW X, NEW s \in Seq(X), NEW k \in 0 .. Len(s)
  PROVE  /\ After(s, k) \in Seq(X) /\ Len(After(s, k)) = Len(s) - k
         /\ \A i \in 1 .. Len(s) - k : After(s, k)[i] = s[i + k]
<1>1. Len(s) \in Nat /\ k \in Nat /\ k <= Len(s)
  BY LenProperties
<1>2. \A i \in k + 1 .. Len(s) : s[i] \in X
  BY <1>1, ElementOfSeq
<1>3. /\ SubSeq(s, k + 1, Len(s)) \in Seq(X)
      /\ Len(SubSeq(s, k + 1, Len(s))) = IF k + 1 <= Len(s) THEN Len(s) - (k + 1) + 1 ELSE 0
      /\ \A i \in 1 .. Len(s) - (k + 1) + 1 : SubSeq(s, k + 1, Len(s))[i] = s[k + 1 + i - 1]
  BY <1>1, <1>2, SubSeqProperties
<1>4. (IF k + 1 <= Len(s) THEN Len(s) - (k + 1) + 1 ELSE 0) = Len(s) - k
  <2>1. \A n, m \in Nat : m <= n => (IF m + 1 <= n THEN n - (m + 1) + 1 ELSE 0) = n - m
    OBVIOUS
  <2> QED BY <1>1, <2>1
<1>5. \A i \in 1 .. Len(s) - k : i \in 1 .. Len(s) - (k + 1) + 1 /\ k + 1 + i - 1 = i + k
  BY <1>1
<1> QED BY <1>3, <1>4, <1>5 DEF After

LEMMA AfterCat ==
  ASSUME NEW X, NEW w \in Seq(X), NEW t \in Seq(X)
  PROVE  After(w \o t, Len(w)) = t
<1>1. /\ w \o t \in Seq(X) /\ Len(w \o t) = Len(w) + Len(t)
      /\ \A i \in 1 .. Len(w) + Len(t) : (w \o t)[i] = IF i <= Len(w) THEN w[i] ELSE t[i - Len(w)]
      /\ Len(w) \in Nat /\ Len(t) \in Nat
  BY ConcatProperties, LenProperties
<1> DEFINE s == w \o t  rest == After(s, Len(w))
<1> HIDE DEF s
<1>2. /\ s \in Seq(X) /\ Len(s) = Len(w) + Len(t) /\ Len(w) \in 0 .. Len(s)
      /\ \A i \in 1 .. Len(w) + Len(t) : s[i] = IF i <= Len(w) THEN w[i] ELSE t[i - Len(w)]
  BY <1>1 DEF s
<1>3. /\ rest \in Seq(X) /\ Len(rest) = Len(s) - Len(w)
      /\ \A i \in 1 .. Len(s) - Len(w) : rest[i] = s[i + Len(w)]
  BY <1>2, AfterIs
<1> HIDE DEF rest
<1>4. Len(rest) = Len(t)
  BY <1>1, <1>2, <1>3
<1>5. ASSUME NEW i \in 1 .. Len(rest) PROVE rest[i] = t[i]
  <2>1. i \in 1 .. Len(s) - Len(w) /\ i + Len(w) \in 1 .. Len(w) + Len(t) /\ ~(i + Len(w) <= Len(w))
        /\ i + Len(w) - Len(w) = i
    BY <1>1, <1>2, <1>4
  <2>2. rest[i] = s[i + Len(w)]
    BY <1>3, <2>1
  <2>3. s[i + Len(w)] = t[i + Len(w) - Len(w)]
    BY <1>2, <2>1
  <2> QED BY <2>1, <2>2, <2>3
<1>6. rest = t
  BY <1>3, <1>4, <1>5, SeqEqual
<1> QED BY <1>6 DEF rest, s

LEMMA DecodesShifted ==
  ASSUME NEW X, NEW s \in Seq(X), NEW k \in 0 .. Len(s), NEW f, Decodes(f, s),
         NEW g, Decodes(g, After(s, k)), NEW i \in 1 .. Len(s) - k + 1
  PROVE  g[i] = f[i + k]
<1> DEFINE t == After(s, k)  n == Len(s) - k
           S == {m \in Nat : \A j \in 1 .. n + 1 : n + 1 - j = m => g[j] = f[j + k]}
<1>1. /\ Len(s) \in Nat /\ k \in Nat /\ n \in Nat /\ t \in Seq(X) /\ Len(t) = n
      /\ \A j \in 1 .. n : t[j] = s[j + k]
  BY AfterIs, LenProperties
<1>2. ASSUME NEW m \in Nat, \A l \in Nat : l < m => l \in S PROVE m \in S
  <2> SUFFICES ASSUME NEW j \in 1 .. n + 1, n + 1 - j = m PROVE g[j] = f[j + k]
    OBVIOUS
  <2>0. j \in Nat /\ j + k \in 1 .. Len(s) + 1 /\ (j = n + 1 <=> j + k = Len(s) + 1)
        /\ (j <= n <=> j + k <= Len(s)) /\ (j + 2 <= n <=> j + k + 2 <= Len(s))
    BY <1>1
  <2>f. DecodedAt(f, s, j + k)
    BY <1>1, <2>0, DecodesIs
  <2>g. DecodedAt(g, t, j)
    <3> HIDE DEF n
    <3>1. Decodes(g, t)
      OBVIOUS
    <3> HIDE DEF t
    <3> QED BY <1>1, <3>1, DecodesIs
  <2>1. CASE j = n + 1
    BY <1>1, <2>0, <2>1, <2>f, <2>g DEF DecodedAt
  <2>2. CASE j <= n /\ t[j] # "%"
    <3>1. j + 1 \in 1 .. n + 1 /\ n + 1 - (j + 1) \in Nat /\ n + 1 - (j + 1) < m
          /\ j + 1 + k = j + k + 1
      BY <1>1, <2>0, <2>2
    <3>2. g[j + 1] = f[j + k + 1]
      <4>1. n + 1 - (j + 1) \in S
        BY <1>2, <3>1
      <4>2. g[j + 1] = f[j + 1 + k]
        BY <3>1, <4>1
      <4> QED BY <3>1, <4>2
    <3>3. t[j] = s[j + k]
      BY <1>1, <2>0, <2>2
    <3> QED BY <1>1, <2>0, <2>2, <2>f, <2>g, <3>2, <3>3 DEF DecodedAt
  <2>3. CASE j <= n /\ t[j] = "%"
    <3>0. t[j] = s[j + k]
      BY <1>1, <2>0, <2>3
    <3>1. CASE j + 2 <= n
      <4>1. j + 3 \in 1 .. n + 1 /\ n + 1 - (j + 3) \in Nat /\ n + 1 - (j + 3) < m
            /\ j + 3 + k = j + k + 3 /\ j + 1 \in 1 .. n /\ j + 2 \in 1 .. n
            /\ j + 1 + k = j + k + 1 /\ j + 2 + k = j + k + 2
        BY <1>1, <2>0, <3>1
      <4>2. g[j + 3] = f[j + k + 3]
        <5>1. n + 1 - (j + 3) \in S
          BY <1>2, <4>1
        <5>2. g[j + 3] = f[j + 3 + k]
          BY <4>1, <5>1
        <5> QED BY <4>1, <5>2
      <4>3. t[j + 1] = s[j + k + 1] /\ t[j + 2] = s[j + k + 2]
        <5>1. t[j + 1] = s[j + 1 + k]
          BY <1>1, <4>1
        <5>2. t[j + 2] = s[j + 2 + k]
          BY <1>1, <4>1
        <5> QED BY <4>1, <5>1, <5>2
      <4>4. j + k <= Len(s) /\ j + k + 2 <= Len(s) /\ s[j + k] = "%"
        BY <2>0, <2>3, <3>0, <3>1
      <4> HIDE DEF t, n
      <4> QED BY <1>1, <2>3, <2>f, <2>g, <3>1, <4>2, <4>3, <4>4 DEF DecodedAt
    <3>2. CASE ~(j + 2 <= n)
      BY <1>1, <2>0, <2>3, <2>f, <2>g, <3>0, <3>2 DEF DecodedAt
    <3> QED BY <3>1, <3>2
  <2> QED BY <1>1, <2>0, <2>1, <2>2, <2>3
<1>3. Nat \subseteq S
  <2> HIDE DEF S
  <2> QED BY <1>2, Induction
<1>4. n + 1 - i \in S
  <2>1. n + 1 - i \in Nat
    BY <1>1
  <2> HIDE DEF S, n
  <2> QED BY <1>3, <2>1
<1> QED BY <1>1, <1>4

LEMMA DecodeEmpty == percent_decode(<<>>) = <<>>
<1>1. <<>> \in Seq({}) /\ Len(<<>>) = 0
  BY EmptySeq
<1>2. PICK f : Decodes(f, <<>>) /\ percent_decode(<<>>) = f[1]
  BY <1>1, DecodeIs
<1>3. f[1] = <<>>
  <2>1. 1 \in 1 .. Len(<<>>) + 1
    BY <1>1
  <2>2. DecodedAt(f, <<>>, 1)
    BY <1>1, <1>2, <2>1, DecodesIs
  <2> QED BY <1>1, <2>2 DEF DecodedAt
<1> QED BY <1>2, <1>3

(* What is decoded behind the first k characters.                          *)
LEMMA DecodeRest ==
  ASSUME NEW X, NEW s \in Seq(X), NEW k \in 0 .. Len(s), NEW f, Decodes(f, s)
  PROVE  percent_decode(After(s, k)) = f[k + 1]
<1>1. After(s, k) \in Seq(X) /\ Len(s) \in Nat /\ k \in Nat
  BY AfterIs, LenProperties
<1>2. PICK g : Decodes(g, After(s, k)) /\ percent_decode(After(s, k)) = g[1]
  BY <1>1, DecodeIs
<1>3. 1 \in 1 .. Len(s) - k + 1 /\ 1 + k = k + 1
  BY <1>1
<1>4. g[1] = f[1 + k]
  BY <1>2, <1>3, DecodesShifted
<1> QED BY <1>2, <1>3, <1>4

LEMMA DecodePlain ==
  ASSUME NEW X, NEW x \in X, x # "%", NEW t \in Seq(X)
  PROVE  percent_decode(<<x>> \o t) = Headed(x, percent_decode(t))
<1> DEFINE s == <<x>> \o t
<1>1. s \in Seq(X) /\ Len(s) = Len(t) + 1 /\ Len(t) \in Nat /\ s[1] = x
  BY LenProperties
<1>2. After(s, 1) = t
  <2>1. <<x>> \in Seq(X) /\ Len(<<x>>) = 1
    OBVIOUS
  <2>2. After(<<x>> \o t, Len(<<x>>)) = t
    BY <2>1, AfterCat
  <2> QED BY <2>1, <2>2
<1> HIDE DEF s
<1>3. PICK f : Decodes(f, s) /\ percent_decode(s) = f[1]
  BY <1>1, DecodeIs
<1>4. f[1] = Headed(x, f[2])
  <2>1. 1 \in 1 .. Len(s) + 1 /\ 1 <= Len(s) /\ Len(s) \in Nat /\ s[1] # "%"
    BY <1>1
  <2>2. f[1] = Headed(s[1], f[1 + 1])
    <3>1. DecodedAt(f, s, 1)
      BY <1>3, <2>1, DecodesIs
    <3> QED BY <2>1, <3>1 DEF DecodedAt
  <2> QED BY <1>1, <2>2
<1>5. percent_decode(t) = f[2]
  <2>1. 1 \in 0 .. Len(s)
    BY <1>1
  <2>2. percent_decode(After(s, 1)) = f[1 + 1]
    BY <1>1, <1>3, <2>1, DecodeRest
  <2> QED BY <1>2, <2>2
<1> QED BY <1>3, <1>4, <1>5 DEF s

LEMMA DecodeEscape ==
  ASSUME NEW X, "%" \in X, HexDigits \subseteq X, NEW h \in HexDigits, NEW l \in HexDigits, NEW t \in Seq(X)
  PROVE  percent_decode(<<"%", h, l>> \o t) = Headed(Byte(h, l), percent_decode(t))
<1> DEFINE w == <<"%", h, l>>  s == w \o t
<1>1. /\ w \in Seq(X) /\ Len(w) = 3 /\ s \in Seq(X) /\ Len(s) = Len(t) + 3 /\ Len(t) \in Nat
      /\ s[1] = "%" /\ s[2] = h /\ s[3] = l
  <2>1. w \in Seq(X) /\ Len(w) = 3 /\ w[1] = "%" /\ w[2] = h /\ w[3] = l
    OBVIOUS
  <2> HIDE DEF w
  <2>2. /\ w \o t \in Seq(X) /\ Len(w \o t) = Len(w) + Len(t) /\ Len(t) \in Nat
        /\ \A i \in 1 .. Len(w) + Len(t) : (w \o t)[i] = IF i <= Len(w) THEN w[i] ELSE t[i - Len(w)]
    BY <2>1, LenProperties, ConcatProperties
  <2>3. 1 \in 1 .. Len(w) + Len(t) /\ 2 \in 1 .. Len(w) + Len(t) /\ 3 \in 1 .. Len(w) + Len(t)
    BY <2>1, <2>2
  <2> QED BY <2>1, <2>2, <2>3
<1>2. After(s, 3) = t
  <2> HIDE DEF w
  <2>1. After(w \o t, Len(w)) = t
    BY <1>1, AfterCat
  <2> QED BY <1>1, <2>1
<1> HIDE DEF w, s
<1>3. PICK f : Decodes(f, s) /\ percent_decode(s) = f[1]
  BY <1>1, DecodeIs
<1>4. f[1] = Headed(Byte(h, l), f[4])
  <2>1. /\ 1 \in 1 .. Len(s) + 1 /\ 1 <= Len(s) /\ 1 + 2 <= Len(s) /\ Len(s) \in Nat
        /\ {s[1 + 1], s[1 + 2]} \subseteq HexDigits
    BY <1>1
  <2>2. f[1] = IF 1 + 2 <= Len(s) /\ {s[1 + 1], s[1 + 2]} \subseteq HexDigits
               THEN Headed(Byte(s[1 + 1], s[1 + 2]), f[1 + 3]) ELSE Malformed
    <3>1. DecodedAt(f, s, 1)
      BY <1>3, <2>1, DecodesIs
    <3> QED BY <1>1, <2>1, <3>1 DEF DecodedAt
  <2> QED BY <1>1, <2>1, <2>2
<1>5. percent_decode(t) = f[4]
  <2>1. 3 \in 0 .. Len(s)
    BY <1>1
  <2>2. percent_decode(After(s, 3)) = f[3 + 1]
    BY <1>1, <1>3, <2>1, DecodeRest
  <2> QED BY <1>2, <2>2
<1> QED BY <1>3, <1>4, <1>5 DEF s, w

LEMMA EscapeDecodes ==
  ASSUME NEW X, EscapeChars \cup HexDigits \subseteq X, NEW x \in X, NEW t \in Seq(X)
  PROVE  percent_decode(EscapeOf(x) \o t) = Headed(x, percent_decode(t))
<1>0. "%" \in X /\ HexDigits \subseteq X
  BY DEF EscapeChars
<1>1. CASE x = "%"
  <2>1. "2" \in HexDigits /\ "5" \in HexDigits /\ Byte("2", "5") = "%" /\ EscapeOf("%") = <<"%", "2", "5">>
    BY SpaceApart DEF HexDigits, Byte, EscapeOf, EscapeChars
  <2> QED BY <1>0, <1>1, <2>1, DecodeEscape
<1>2. CASE x = Space
  <2>1. "2" \in HexDigits /\ "0" \in HexDigits /\ Byte("2", "0") = Space /\ EscapeOf(x) = <<"%", "2", "0">>
    BY <1>2, SpaceApart DEF HexDigits, Byte, EscapeOf, EscapeChars
  <2> QED BY <1>0, <1>2, <2>1, DecodeEscape
<1>3. CASE x = "?"
  <2>1. "3" \in HexDigits /\ "F" \in HexDigits /\ Byte("3", "F") = "?" /\ EscapeOf(x) = <<"%", "3", "F">>
    BY <1>3, SpaceApart DEF HexDigits, Byte, EscapeOf, EscapeChars
  <2> QED BY <1>0, <1>3, <2>1, DecodeEscape
<1>4. CASE x = "#"
  <2>1. "2" \in HexDigits /\ "3" \in HexDigits /\ Byte("2", "3") = "#" /\ EscapeOf(x) = <<"%", "2", "3">>
    BY <1>4, SpaceApart DEF HexDigits, Byte, EscapeOf, EscapeChars
  <2> QED BY <1>0, <1>4, <2>1, DecodeEscape
<1>5. CASE x \notin {"%", Space, "?", "#"}
  <2>1. EscapeOf(x) = <<x>> /\ x # "%"
    BY <1>5 DEF EscapeOf
  <2> QED BY <2>1, DecodePlain
<1> QED BY <1>1, <1>2, <1>3, <1>4, <1>5

LEMMA EscapeTyped ==
  ASSUME NEW X, EscapeChars \subseteq X, NEW x \in X PROVE EscapeOf(x) \in Seq(X)
BY EscapesTyped DEF EscapeOf

LEMMA EscapedFirst ==
  ASSUME NEW X, EscapeChars \subseteq X, NEW x \in X, NEW t \in Seq(X)
  PROVE  Escaped(<<x>> \o t) = EscapeOf(x) \o Escaped(t)
<1>1. Escaped(<<x>>) = EscapeOf(x)
  BY EscapedOne
<1>2. <<x>> \in Seq(X)
  OBVIOUS
<1>3. Escaped(<<x>> \o t) = Escaped(<<x>>) \o Escaped(t)
  <2> DEFINE h == <<x>>
  <2> HIDE DEF h
  <2>1. Escaped(h \o t) = Escaped(h) \o Escaped(t)
    BY <1>2, EscapedCat DEF h
  <2> QED BY <2>1 DEF h
<1> QED BY <1>1, <1>3

(* What was escaped is decoded to itself.                                  *)
LEMMA DecodeEscaped ==
  ASSUME NEW X, "malformed" \notin X, NEW p \in Seq(X)
  PROVE  percent_decode(Escaped(p)) = p
<1> DEFINE Y == X \cup EscapeChars \cup HexDigits
           S == {w \in Seq(Y) : percent_decode(Escaped(w)) = w}
<1>0. EscapeChars \subseteq Y /\ EscapeChars \cup HexDigits \subseteq Y /\ X \subseteq Y
      /\ "malformed" \notin Y
  BY DEF EscapeChars, HexDigits
<1> HIDE DEF Y
<1>1. <<>> \in S
  BY EscapedEmpty, DecodeEmpty, EmptySeq
<1>2. ASSUME NEW w \in Seq(Y), NEW x \in Y, w \in S PROVE <<x>> \o w \in S
  <2>1. Escaped(<<x>> \o w) = EscapeOf(x) \o Escaped(w)
    BY <1>0, EscapedFirst
  <2>2. Escaped(w) \in Seq(Y)
    <3>1. Escaped(w) \in Seq(Y \ {Space, "?", "#"}) /\ Y \ {Space, "?", "#"} \subseteq Y
      BY <1>0, EscapedTyped
    <3> QED BY <3>1, SeqMonotonic
  <2>3. percent_decode(EscapeOf(x) \o Escaped(w)) = Headed(x, percent_decode(Escaped(w)))
    BY <1>0, <2>2, EscapeDecodes
  <2>4. w # Malformed
    <3>1. w = Malformed => w[1] = "malformed" /\ 1 \in 1 .. Len(w)
      BY DEF Malformed
    <3>2. 1 \in 1 .. Len(w) => w[1] \in Y
      BY ElementOfSeq
    <3> QED BY <1>0, <3>1, <3>2
  <2>5. Headed(x, w) = <<x>> \o w
    BY <2>4 DEF Headed
  <2>6. <<x>> \o w \in Seq(Y)
    OBVIOUS
  <2> QED BY <1>2, <2>1, <2>3, <2>5, <2>6
<1>3. Seq(Y) \subseteq S
  <2> HIDE DEF S
  <2> QED BY <1>1, <1>2, FrontInduction
<1>4. p \in Seq(Y)
  BY <1>0, SeqMonotonic
<1> QED BY <1>3, <1>4

LEMMA SlashedTyped ==
  ASSUME NEW X, "/" \in X, NEW p \in Seq(X) PROVE Slashed(p) \in Seq(X)
<1>1. <<"/">> \in Seq(X)
  OBVIOUS
<1> QED BY <1>1, SubSame DEF Slashed

SlashOf(x) == IF x = "\\" THEN "/" ELSE x

LEMMA SlashedFirst ==
  ASSUME NEW X, "/" \in X, NEW x \in X, NEW t \in Seq(X)
  PROVE  Slashed(<<x>> \o t) = <<SlashOf(x)>> \o Slashed(t)
<1> DEFINE h == <<x>>  slash == <<"/">>
<1>1. h \in Seq(X) /\ slash \in Seq(X)
  OBVIOUS
<1>2. Substituted(h, "\\", slash) = <<SlashOf(x)>>
  <2>1. Substituted(<<x>>, "\\", slash) = IF x = "\\" THEN slash ELSE <<x>>
    BY <1>1, SubOne
  <2> QED BY <2>1 DEF SlashOf
<1>3. Substituted(h \o t, "\\", slash) = Substituted(h, "\\", slash) \o Substituted(t, "\\", slash)
  <2> HIDE DEF h, slash
  <2> QED BY <1>1, SubCat
<1> QED BY <1>2, <1>3 DEF Slashed

(* Slashes may be turned before the escapes as well as behind them.        *)
LEMMA EncodedIs ==
  ASSUME NEW X, NEW p \in Seq(X) PROVE Encoded(p) = Escaped(Slashed(p))
<1> DEFINE Y == X \cup EscapeChars \cup {"/"}
           S == {w \in Seq(Y) : Encoded(w) = Escaped(Slashed(w))}
<1>0. EscapeChars \subseteq Y /\ "/" \in Y /\ X \subseteq Y
  OBVIOUS
<1> HIDE DEF Y
<1>1. <<>> \in S
  <2>1. Slashed(<<>>) = <<>>
    BY SubEmpty DEF Slashed
  <2> QED BY <2>1, EscapedEmpty, EmptySeq DEF Encoded
<1>2. ASSUME NEW w \in Seq(Y), NEW x \in Y, w \in S PROVE <<x>> \o w \in S
  <2>0. <<x>> \o w \in Seq(Y) /\ SlashOf(x) \in Y /\ Slashed(w) \in Seq(Y)
    BY <1>0, SlashedTyped DEF SlashOf
  <2>1. Escaped(<<x>> \o w) = EscapeOf(x) \o Escaped(w)
    BY <1>0, EscapedFirst
  <2>2. Escaped(w) \in Seq(Y) /\ EscapeOf(x) \in Seq(Y)
    <3>1. Escaped(w) \in Seq(Y \ {Space, "?", "#"}) /\ Y \ {Space, "?", "#"} \subseteq Y
      BY <1>0, EscapedTyped
    <3> QED BY <1>0, <3>1, SeqMonotonic, EscapeTyped
  <2>3. Slashed(EscapeOf(x) \o Escaped(w)) = Slashed(EscapeOf(x)) \o Slashed(Escaped(w))
    <3> DEFINE slash == <<"/">>  a == EscapeOf(x)  b == Escaped(w)
    <3>1. slash \in Seq(Y) /\ a \in Seq(Y) /\ b \in Seq(Y)
      BY <1>0, <2>2
    <3> HIDE DEF slash, a, b
    <3>2. Substituted(a \o b, "\\", slash) = Substituted(a, "\\", slash) \o Substituted(b, "\\", slash)
      BY <3>1, SubCat
    <3> QED BY <3>2 DEF Slashed, slash, a, b
  <2>4. Slashed(EscapeOf(x)) = EscapeOf(SlashOf(x))
    <3>0. <<"/">> \in Seq({"/"})
      OBVIOUS
    <3>1. CASE x \in {"%", Space, "?", "#"}
      <4>1. "\\" \notin EscapeChars \cup {"/"} /\ <<"/">> \in Seq(EscapeChars \cup {"/"})
        BY DEF EscapeChars
      <4>2. EscapeOf(x) \in Seq(EscapeChars \cup {"/"})
        <5>1. EscapeChars \subseteq EscapeChars \cup {"/"}
          OBVIOUS
        <5> QED BY <3>1, <5>1, EscapesTyped DEF EscapeOf
      <4>3. Slashed(EscapeOf(x)) = EscapeOf(x)
        BY <4>1, <4>2, SubUntouched DEF Slashed
      <4>4. SlashOf(x) = x
        BY <3>1, SpaceApart DEF SlashOf
      <4> QED BY <4>3, <4>4
    <3>2. CASE x \notin {"%", Space, "?", "#"}
      <4>1. EscapeOf(x) = <<x>> /\ EscapeOf(SlashOf(x)) = <<SlashOf(x)>>
        BY <3>2, SpaceApart DEF EscapeOf, SlashOf
      <4>2. Substituted(<<x>>, "\\", <<"/">>) = IF x = "\\" THEN <<"/">> ELSE <<x>>
        BY <3>0, SubOne
      <4> QED BY <4>1, <4>2 DEF Slashed, SlashOf
    <3> QED BY <3>1, <3>2
  <2>5. Escaped(<<SlashOf(x)>> \o Slashed(w)) = EscapeOf(SlashOf(x)) \o Escaped(Slashed(w))
    BY <1>0, <2>0, EscapedFirst
  <2>6. Slashed(<<x>> \o w) = <<SlashOf(x)>> \o Slashed(w)
    BY <1>0, SlashedFirst
  <2> QED BY <1>2, <2>0, <2>1, <2>3, <2>4, <2>5, <2>6 DEF Encoded
<1>3. Seq(Y) \subseteq S
  <2> HIDE DEF S
  <2> QED BY <1>1, <1>2, FrontInduction
<1>4. p \in Seq(Y)
  BY <1>0, SeqMonotonic
<1> QED BY <1>3, <1>4

Plain(X) == X \ {Space, "?", "#"}
TwoSlashes(s) == Len(s) >= 2 /\ SubSeq(s, 1, 2) = <<"/", "/">>

LEMMA TwoSlashesIs ==
  ASSUME NEW X, NEW s \in Seq(X)
  PROVE  TwoSlashes(s) <=> Len(s) >= 2 /\ s[1] = "/" /\ s[2] = "/"
<1>0. Len(s) \in Nat
  BY LenProperties
<1>1. CASE Len(s) >= 2
  <2>1. \A i \in 1 .. 2 : s[i] \in X
    BY <1>0, <1>1, ElementOfSeq
  <2>2. /\ SubSeq(s, 1, 2) \in Seq(X) /\ Len(SubSeq(s, 1, 2)) = IF 1 <= 2 THEN 2 - 1 + 1 ELSE 0
        /\ \A i \in 1 .. 2 - 1 + 1 : SubSeq(s, 1, 2)[i] = s[1 + i - 1]
    BY <2>1, SubSeqProperties
  <2> DEFINE two == SubSeq(s, 1, 2)
  <2>3. two \in Seq(X) /\ Len(two) = 2 /\ two[1] = s[1] /\ two[2] = s[2]
    BY <2>2
  <2> HIDE DEF two
  <2>4. two = <<s[1], s[2]>>
    BY <2>3
  <2>5. two = <<"/", "/">> <=> s[1] = "/" /\ s[2] = "/"
    BY <2>4
  <2> QED BY <1>1, <2>5 DEF TwoSlashes, two
<1>2. CASE ~(Len(s) >= 2)
  BY <1>2 DEF TwoSlashes
<1> QED BY <1>1, <1>2

LEMMA NothingCut ==
  ASSUME NEW X, NEW s \in Seq(Plain(X)) PROVE Where(s, {"?", "#"}) = {}
<1>1. DOMAIN s = 1 .. Len(s) /\ \A i \in 1 .. Len(s) : s[i] \in Plain(X)
  BY LenProperties, ElementOfSeq
<1> QED BY <1>1 DEF Where, Plain

LEMMA OpensPlain ==
  ASSUME NEW X, NEW s \in Seq(Plain(X))
  PROVE  SqliteOpens(s) = percent_decode(IF TwoSlashes(s) THEN After(s, 2) ELSE s)
BY NothingCut DEF SqliteOpens, TwoSlashes

LEMMA UriCases ==
  ASSUME NEW p, Len(Encoded(p)) \in Nat, Len(Encoded(p)) >= 1
  PROVE  LET e == Encoded(p)
         IN path_to_sqlite_uri(p) =
              IF TwoSlashes(e) THEN <<"/", "/">> \o e ELSE IF e[1] = "/" THEN e ELSE <<"/">> \o e
<1> DEFINE e == Encoded(p)
           long == <<"/", "/">> \o e  short == <<"/">> \o e
<1>1. path_to_sqlite_uri(p) =
        CASE Len(e) >= 2 /\ SubSeq(e, 1, 2) = <<"/", "/">> -> long
          [] Len(e) = 1 \/ SubSeq(e, 1, 2) # <<"/", "/">> -> IF e[1] = "/" THEN e ELSE short
  BY DEF path_to_sqlite_uri
<1>0. Len(e) \in Nat /\ Len(e) >= 1
  OBVIOUS
<1> HIDE DEF long, short, e
<1>2. path_to_sqlite_uri(p) = IF TwoSlashes(e) THEN long ELSE IF e[1] = "/" THEN e ELSE short
  <2>0. Len(e) >= 2 \/ Len(e) = 1
    <3> DEFINE n == Len(e)
    <3> HIDE DEF n
    <3>1. n \in Nat /\ n >= 1
      BY <1>0 DEF n
    <3>2. n >= 2 \/ n = 1
      BY <3>1
    <3> QED BY <3>2 DEF n
  <2> DEFINE two == SubSeq(e, 1, 2) = <<"/", "/">>  n == Len(e)
  <2>1. path_to_sqlite_uri(p) =
          CASE n >= 2 /\ two -> long [] n = 1 \/ ~two -> IF e[1] = "/" THEN e ELSE short
    BY <1>1
  <2>2. TwoSlashes(e) <=> n >= 2 /\ two
    BY DEF TwoSlashes
  <2> HIDE DEF two, n
  <2>3. n \in Nat
    BY <1>0 DEF n
  <2>4. n >= 2 \/ n = 1
    BY <2>0 DEF n
  <2> QED BY <2>1, <2>2, <2>3, <2>4
<1> QED BY <1>2 DEF long, short, e

(* The URI handed to SQLite opens the file of the path.                    *)
LEMMA UriOpens ==
  ASSUME NEW X, "malformed" \notin X, NEW p \in Seq(X), p # <<>>
  PROVE  SqliteOpens(path_to_sqlite_uri(p)) =
           IF Slashed(p)[1] = "/" THEN Slashed(p) ELSE <<"/">> \o Slashed(p)
<1> DEFINE Y == X \cup EscapeChars \cup {"/"}  q == Slashed(p)  e == Encoded(p)
<1>0. EscapeChars \subseteq Y /\ "/" \in Y /\ X \subseteq Y /\ "malformed" \notin Y /\ "/" \in Plain(Y)
      /\ Plain(Y) \subseteq Y
  BY SpaceApart DEF EscapeChars, Plain
<1> HIDE DEF Y
<1>1. p \in Seq(Y)
  BY <1>0, SeqMonotonic
<1>2. p[1] \in Y /\ Tail(p) \in Seq(Y) /\ p = <<p[1]>> \o Tail(p)
  BY <1>1, FirstRest
<1>3. Slashed(p) = <<SlashOf(p[1])>> \o Slashed(Tail(p))
  <2>1. Slashed(<<p[1]>> \o Tail(p)) = <<SlashOf(p[1])>> \o Slashed(Tail(p))
    BY <1>0, <1>2, SlashedFirst
  <2> QED BY <1>2, <2>1
<1>4. PICK x \in Y, t \in Seq(Y) : q = <<x>> \o t
  <2>1. SlashOf(p[1]) \in Y /\ Slashed(Tail(p)) \in Seq(Y)
    BY <1>0, <1>2, SlashedTyped DEF SlashOf
  <2> QED BY <1>3, <2>1
<1>5. q \in Seq(Y) /\ q[1] = x /\ q # <<>>
  BY <1>4
<1>6. e = Escaped(q) /\ e \in Seq(Plain(Y)) /\ percent_decode(e) = q
  <2>1. e = Escaped(q)
    BY <1>1, EncodedIs
  <2>2. Escaped(q) \in Seq(Plain(Y))
    <3> HIDE DEF q
    <3> QED BY <1>0, <1>5, EscapedTyped DEF Plain
  <2>3. percent_decode(Escaped(q)) = q
    <3> HIDE DEF q
    <3> QED BY <1>0, <1>5, DecodeEscaped
  <2> QED BY <2>1, <2>2, <2>3
<1>7. Len(e) >= 1 /\ (e[1] = "/" <=> x = "/")
  <2>1. Escaped(<<x>> \o t) = EscapeOf(x) \o Escaped(t)
    BY <1>0, EscapedFirst
  <2>2. e = EscapeOf(x) \o Escaped(t)
    BY <1>4, <1>6, <2>1
  <2>3. EscapeOf(x) \in Seq(Y) /\ Escaped(t) \in Seq(Y)
    <3>1. Escaped(t) \in Seq(Plain(Y))
      BY <1>0, EscapedTyped DEF Plain
    <3> QED BY <1>0, <3>1, EscapeTyped, SeqMonotonic
  <2>4. Len(EscapeOf(x)) >= 1 /\ Len(EscapeOf(x)) \in Nat /\ (EscapeOf(x)[1] = "/" <=> x = "/")
    BY SpaceApart DEF EscapeOf
  <2> DEFINE a == EscapeOf(x)  b == Escaped(t)
  <2> HIDE DEF a, b
  <2>5. Len(a \o b) = Len(a) + Len(b) /\ Len(b) \in Nat
        /\ \A i \in 1 .. Len(a) + Len(b) : (a \o b)[i] = IF i <= Len(a) THEN a[i] ELSE b[i - Len(a)]
    BY <2>3, ConcatProperties, LenProperties DEF a, b
  <2>6. Len(a) >= 1 /\ Len(a) \in Nat
    BY <2>4 DEF a
  <2>7. (a \o b)[1] = a[1] /\ Len(a \o b) >= 1
    BY <2>5, <2>6
  <2> QED BY <2>2, <2>4, <2>7 DEF a, b
<1> HIDE DEF q, e
<1>8. Len(e) \in Nat
  BY <1>6, LenProperties
<1>9. CASE TwoSlashes(e)
  <2> DEFINE slashes == <<"/", "/">>  uri == slashes \o e
  <2>0. path_to_sqlite_uri(p) = uri
    BY <1>7, <1>8, <1>9, UriCases DEF e
  <2>1. slashes \in Seq(Plain(Y)) /\ Len(slashes) = 2 /\ slashes[1] = "/" /\ slashes[2] = "/"
    BY <1>0
  <2> HIDE DEF slashes
  <2>2. /\ uri \in Seq(Plain(Y)) /\ Len(uri) = 2 + Len(e)
        /\ \A i \in 1 .. 2 + Len(e) : uri[i] = IF i <= 2 THEN slashes[i] ELSE e[i - 2]
    <3>1. slashes \in Seq(Plain(Y)) /\ e \in Seq(Plain(Y))
      BY <1>6, <2>1
    <3>2. /\ slashes \o e \in Seq(Plain(Y)) /\ Len(slashes \o e) = Len(slashes) + Len(e)
          /\ \A i \in 1 .. Len(slashes) + Len(e) :
               (slashes \o e)[i] = IF i <= Len(slashes) THEN slashes[i] ELSE e[i - Len(slashes)]
      BY <3>1, ConcatProperties
    <3> QED BY <2>1, <3>2
  <2>3. After(uri, 2) = e
    <3>1. After(slashes \o e, Len(slashes)) = e
      <4>1. slashes \in Seq(Plain(Y)) /\ e \in Seq(Plain(Y))
        BY <1>6, <2>1
      <4> QED BY <4>1, AfterCat
    <3> QED BY <2>1, <3>1
  <2> HIDE DEF uri
  <2>4. TwoSlashes(uri)
    BY <1>8, <2>1, <2>2, TwoSlashesIs
  <2>5. SqliteOpens(uri) = percent_decode(After(uri, 2))
    BY <2>2, <2>4, OpensPlain
  <2>6. x = "/"
    BY <1>6, <1>7, <1>9, TwoSlashesIs
  <2> QED BY <1>5, <1>6, <2>0, <2>3, <2>5, <2>6 DEF q
<1>10. CASE ~TwoSlashes(e) /\ x = "/"
  <2>0. path_to_sqlite_uri(p) = e
    BY <1>7, <1>8, <1>10, UriCases DEF e
  <2>1. SqliteOpens(e) = percent_decode(e)
    BY <1>6, <1>10, OpensPlain
  <2> QED BY <1>5, <1>6, <1>10, <2>0, <2>1 DEF q
<1>11. CASE ~TwoSlashes(e) /\ x # "/"
  <2> DEFINE slash == <<"/">>  uri == slash \o e
  <2>0. path_to_sqlite_uri(p) = uri
    BY <1>7, <1>8, <1>11, UriCases DEF e
  <2>1. slash \in Seq(Plain(Y)) /\ Len(slash) = 1
    BY <1>0
  <2>2. percent_decode(<<"/">> \o e) = Headed("/", percent_decode(e))
    BY <1>0, <1>6, DecodePlain
  <2>3. q # Malformed
    <3>1. q = Malformed => q[1] = "malformed"
      BY DEF Malformed
    <3> QED BY <1>0, <1>5, <3>1
  <2>4. percent_decode(uri) = <<"/">> \o q
    BY <1>6, <2>2, <2>3 DEF Headed
  <2> HIDE DEF slash
  <2>5. /\ uri \in Seq(Plain(Y)) /\ Len(uri) = 1 + Len(e)
        /\ \A i \in 1 .. 1 + Len(e) : uri[i] = IF i <= 1 THEN slash[i] ELSE e[i - 1]
    <3>1. slash \in Seq(Plain(Y)) /\ e \in Seq(Plain(Y))
      BY <1>6, <2>1
    <3>2. /\ slash \o e \in Seq(Plain(Y)) /\ Len(slash \o e) = Len(slash) + Len(e)
          /\ \A i \in 1 .. Len(slash) + Len(e) :
               (slash \o e)[i] = IF i <= Len(slash) THEN slash[i] ELSE e[i - Len(slash)]
      BY <3>1, ConcatProperties
    <3> QED BY <2>1, <3>2
  <2> HIDE DEF uri
  <2>6. uri[2] = e[1]
    BY <1>7, <1>8, <2>5
  <2>7. ~TwoSlashes(uri)
    BY <1>7, <1>11, <2>5, <2>6, TwoSlashesIs
  <2>8. SqliteOpens(uri) = percent_decode(uri)
    BY <2>5, <2>7, OpensPlain
  <2> QED BY <1>5, <1>11, <2>0, <2>4, <2>8 DEF q
<1> QED BY <1>9, <1>10, <1>11

(* The URL of a file is turned into its path.                              *)
LEMMA UrlOpens ==
  ASSUME NEW X, "malformed" \notin X, "NUL" \notin X, NEW p \in Seq(X), p # <<>>
  PROVE  file_url_to_path(SystemUrl(p)) = p
<1> DEFINE Y == X \cup EscapeChars  rest == Escaped(p)
<1>0. EscapeChars \subseteq Y /\ X \subseteq Y
  OBVIOUS
<1>1. rest \in Seq(Plain(Y))
  <2> HIDE DEF Y
  <2>1. p \in Seq(Y)
    BY <1>0, SeqMonotonic
  <2> QED BY <1>0, <2>1, EscapedTyped DEF Plain
<1>2. CutAt(rest) = rest
  <2> HIDE DEF rest
  <2> QED BY <1>1, NothingCut DEF CutAt
<1>3. CutThenDecoded(rest) = p
  BY <1>2, DecodeEscaped DEF CutThenDecoded
<1>4. p # Malformed /\ Where(p, {"NUL"}) = {}
  <2>1. DOMAIN p = 1 .. Len(p) /\ Len(p) \in Nat /\ \A i \in 1 .. Len(p) : p[i] \in X
    BY LenProperties, ElementOfSeq
  <2>2. Where(p, {"NUL"}) = {}
    BY <2>1 DEF Where
  <2>3. p = Malformed => 1 \in 1 .. Len(p) /\ p[1] = "malformed"
    BY DEF Malformed
  <2> QED BY <2>1, <2>2, <2>3
<1> QED BY <1>3, <1>4 DEF file_url_to_path, SystemUrl

(* A launch opens what its arguments name.                                 *)
LEMMA LaunchOpens ==
  ASSUME NEW X, NEW args \in Seq(X), args # <<>>, NEW files
  PROVE  LET first == absolutize_launch_path(<<args[1]>>)
             joined == absolutize_launch_path(args)
             chosen == resolve_launch_argument(args, files)
         IN /\ {first, joined} \cap files # {} => chosen \in files
            /\ first \in files => chosen = first
<1> DEFINE first == absolutize_launch_path(<<args[1]>>)
           joined == absolutize_launch_path(args)
           chosen == resolve_launch_argument(args, files)
<1>1. chosen = IF Len(args) > 1 /\ first \notin files /\ joined \in files THEN joined ELSE first
  BY DEF resolve_launch_argument
<1>2. ~(Len(args) > 1) => joined = first
  <2>1. ~(Len(args) > 1) => Len(args) = 1
    BY LenProperties, EmptySeq
  <2>2. Len(args) = 1 => args = <<args[1]>>
    OBVIOUS
  <2> QED BY <2>1, <2>2
<1> HIDE DEF first, joined, chosen
<1>3. /\ {first, joined} \cap files # {} => chosen \in files
      /\ first \in files => chosen = first
  BY <1>1, <1>2
<1> QED BY <1>3 DEF first, joined, chosen

---------------------------------------------------------------------------
(* Numbers of a workbook.                                                  *)

(* A number of no more bits than a mantissa is its own double.             *)
LEMMA FitsMantissa ==
  ASSUME NEW n \in Int, I64Bits \in Nat, F64Bits \in Nat, Abs(n) <= F64_EXACT_INT
  PROVE  ToF64(n) = n
<1> DEFINE S == {k \in 0 .. I64Bits : Abs(n) <= 2 ^ (F64Bits + k)}
           step == 2 ^ Least(S)
           low == (n \div step) * step
<1>1. 0 \in S /\ \A m \in S : 0 <= m
  <2>1. 0 \in 0 .. I64Bits /\ F64Bits + 0 = F64Bits /\ \A m \in 0 .. I64Bits : 0 <= m
    OBVIOUS
  <2>2. 2 ^ (F64Bits + 0) = F64_EXACT_INT
    BY <2>1 DEF F64_EXACT_INT
  <2> QED BY <2>1, <2>2
<1>2. S \subseteq Int
  OBVIOUS
<1> HIDE DEF S
<1>3. Least(S) = 0
  <2>1. \A m \in S : (\A k \in S : m <= k) => m = 0
    BY <1>1, <1>2
  <2> QED BY <1>1, <2>1 DEF Least
<1>4. step = 1
  <2>1. 2 ^ 0 = 1
    OBVIOUS
  <2> QED BY <1>3, <2>1
<1>5. n \div 1 = n /\ n * 1 = n
  OBVIOUS
<1>6. low = n
  BY <1>4, <1>5
<1>7. ToF64(n) = CASE n - low < low + step - n -> low
                   [] n - low > low + step - n -> low + step
                   [] OTHER -> IF (low \div step) % 2 = 0 THEN low ELSE low + step
  BY DEF ToF64, S
<1> HIDE DEF low, step
<1>8. n - low < low + step - n /\ ~(n - low > low + step - n)
  BY <1>4, <1>6
<1> QED BY <1>6, <1>7, <1>8

(* What goes into the workbook as a number is that number.                 *)
LEMMA NumberExact ==
  ASSUME NEW n \in Int, I64Bits \in Nat, F64Bits \in Nat, n \in I64, classify_cell(TRUE, n) = "number"
  PROVE  ToF64(n) = n
<1>1. Abs(n) <= F64_EXACT_INT
  BY DEF classify_cell, ExactLimit
<1> QED BY <1>1, FitsMantissa

---------------------------------------------------------------------------
(* Headers of a workbook.                                                  *)

(* A counted name is free before every number up to one more than the      *)
(* names that are taken was tried.                                         *)
LEMMA SomeSuffixFree ==
  ASSUME NEW used, IsFiniteSet(used), NEW C, NEW header \in Seq(C)
  PROVE  \E n \in 2 .. Cardinality(used) + 2 : Append(header, n) \notin used
<1> DEFINE m == Cardinality(used)
           f == [n \in 2 .. m + 2 |-> Append(header, n)]
<1>1. m \in Nat
  BY FS_CardinalityType
<1>2. IsFiniteSet(2 .. m + 2) /\ Cardinality(2 .. m + 2) = m + 1
  <2> HIDE DEF m
  <2>1. \A b \in Int : IsFiniteSet(2 .. b) /\ Cardinality(2 .. b) = IF 2 > b THEN 0 ELSE b - 2 + 1
    BY FS_Interval
  <2> QED BY <1>1, <2>1
<1>3. SUFFICES ASSUME \A n \in 2 .. m + 2 : Append(header, n) \in used PROVE FALSE
  OBVIOUS
<1>4. f \in [2 .. m + 2 -> used]
  BY <1>3
<1> HIDE DEF m
<1>5. PICK x, y \in 2 .. m + 2 : x # y /\ f[x] = f[y]
  <2> HIDE DEF f
  <2>1. m < m + 1
    BY <1>1
  <2>2. Cardinality(used) < Cardinality(2 .. m + 2)
    BY <1>2, <2>1 DEF m
  <2> QED BY <1>2, <1>4, <2>2, FS_PigeonHole
<1>6. header \in Seq(C \cup Int) /\ x \in C \cup Int /\ y \in C \cup Int
  <2>1. header \in Seq(C \cup Int)
    BY SeqMonotonic
  <2> QED BY <1>1, <2>1
<1> QED BY <1>5, <1>6, AppendInjective

Names(header) == {header} \cup {Append(header, n) : n \in Nat}

(* The name of a column is none of those in front of it.                   *)
LEMMA FreeNameIs ==
  ASSUME NEW used, IsFiniteSet(used), NEW C, NEW header \in Seq(C), NEW earlier
  PROVE  FreeName(used, header, earlier) \in Names(header) \ used
<1> DEFINE S == {n \in 2 .. Cardinality(used) + 2 : Append(header, n) \notin used}
<1>1. Cardinality(used) \in Nat
  BY FS_CardinalityType
<1>2. S \subseteq Nat /\ S # {}
  BY <1>1, SomeSuffixFree
<1>3. \A n \in S : n \in Nat /\ Append(header, n) \notin used
  BY <1>1
<1> HIDE DEF S
<1>4. Least(S) \in S
  BY <1>2, LeastNumber DEF Least
<1>5. CASE header \notin used
  BY <1>5 DEF FreeName, Names
<1>6. CASE header \in used
  <2>1. FreeName(used, header, earlier) = Append(header, Least(S))
    BY <1>6 DEF FreeName, S
  <2>2. Least(S) \in Nat /\ Append(header, Least(S)) \notin used
    BY <1>3, <1>4
  <2> HIDE DEF S
  <2> QED BY <2>1, <2>2 DEF Names
<1> QED BY <1>5, <1>6

(* The names of a table one after another.                                 *)
Named(names, headers) ==
  names = [i \in 0 .. Len(headers) |->
    IF i = 0 THEN <<>>
    ELSE LET before == {names[i - 1][j] : j \in DOMAIN names[i - 1]}
         IN Append(names[i - 1],
                   FreeName(before, headers[i],
                            Cardinality({j \in 1 .. i - 1 : headers[j] = headers[i]})))]

(* A list has finitely many different elements.                            *)
LEMMA ElementsFinite ==
  ASSUME NEW X, NEW s \in Seq(X) PROVE IsFiniteSet({s[j] : j \in DOMAIN s})
<1>1. DOMAIN s = 1 .. Len(s) /\ Len(s) \in Nat
  BY LenProperties
<1>2. IsFiniteSet(DOMAIN s)
  BY <1>1, FS_Interval
<1> DEFINE T == {s[j] : j \in DOMAIN s}  f == [j \in DOMAIN s |-> s[j]]
<1>3. f \in Surjection(DOMAIN s, T)
  BY DEF Surjection
<1> HIDE DEF T, f
<1>4. IsFiniteSet(T)
  BY <1>2, <1>3, FS_Surjection
<1> QED BY <1>4 DEF T

(* The names of the first columns are a function of their number.          *)
LEMMA NamesExist ==
  ASSUME NEW C, NEW headers \in Seq(Seq(C)) PROVE \E names : Named(names, headers)
<1> DEFINE n == Len(headers)
           Y == Seq(C) \cup UNION {Names(h) : h \in Seq(C)}
           D == 0 .. n
           V == Seq(Y)
           rank == [i \in D |-> i]
           counted(i) == Cardinality({j \in 1 .. i - 1 : headers[j] = headers[i]})
           at(g, i) == IF i = 0 THEN <<>>
                       ELSE Append(g[i - 1], FreeName({g[i - 1][j] : j \in DOMAIN g[i - 1]}, headers[i], counted(i)))
           F == [g \in [D -> V] |-> [i \in D |-> at(g, i)]]
<1>0. n \in Nat /\ \A i \in 1 .. n : headers[i] \in Seq(C)
  BY LenProperties, ElementOfSeq
<1>1. rank \in [D -> Nat] /\ <<>> \in V
  BY <1>0
<1>2. F \in [[D -> V] -> [D -> V]]
  <2> SUFFICES ASSUME NEW g \in [D -> V], NEW i \in D PROVE at(g, i) \in V
    <3> HIDE DEF at, V, D
    <3> QED OBVIOUS
  <2>1. CASE i = 0
    BY <2>1
  <2>2. CASE i # 0
    <3>1. i - 1 \in D /\ i \in 1 .. n
      BY <1>0, <2>2
    <3> DEFINE s == g[i - 1]  used == {s[j] : j \in DOMAIN s}
               name == FreeName(used, headers[i], counted(i))
    <3>2. s \in Seq(Y) /\ headers[i] \in Seq(C)
      BY <1>0, <3>1
    <3> HIDE DEF s, Y
    <3>3. IsFiniteSet(used)
      BY <3>2, ElementsFinite
    <3> HIDE DEF used, counted
    <3>4. name \in Names(headers[i])
      BY <3>2, <3>3, FreeNameIs
    <3> HIDE DEF name
    <3>5. name \in Y
      BY <3>2, <3>4 DEF Y
    <3>6. Append(s, name) \in Seq(Y)
      BY <3>2, <3>5, AppendProperties
    <3>7. at(g, i) = Append(s, name)
      BY <2>2 DEF s, name, used
    <3> QED BY <3>6, <3>7
  <2> QED BY <2>1, <2>2
<1>3. \A g, h \in [D -> V] : \A d \in D :
        (\A e \in D : rank[e] < rank[d] => g[e] = h[e]) => F[g][d] = F[h][d]
  <2> SUFFICES ASSUME NEW g \in [D -> V], NEW h \in [D -> V], NEW d \in D,
                      \A e \in D : rank[e] < rank[d] => g[e] = h[e]
               PROVE  F[g][d] = F[h][d]
    <3> HIDE DEF F, rank, V, D
    <3> QED OBVIOUS
  <2>0. F[g][d] = at(g, d) /\ F[h][d] = at(h, d)
    <3> HIDE DEF at, V, D
    <3> QED OBVIOUS
  <2>1. d # 0 => g[d - 1] = h[d - 1]
    BY <1>0
  <2>2. at(g, d) = at(h, d)
    <3> HIDE DEF counted
    <3> QED BY <2>1
  <2> QED BY <2>0, <2>2
<1>4. PICK f \in [D -> V] : f = F[f]
  <2> HIDE DEF D, V, rank, F
  <2>1. LooksBelow(F, D, V, rank)
    BY <1>1, <1>2, <1>3 DEF LooksBelow
  <2> QED BY <2>1, Recursion
<1>5. Named(f, headers)
  BY <1>4 DEF Named
<1> QED BY <1>5

(* dedupe_headers names them one after the other.                          *)
LEMMA DedupeIs ==
  ASSUME NEW C, NEW headers \in Seq(Seq(C))
  PROVE  \E names : Named(names, headers) /\ dedupe_headers(headers) = names[Len(headers)]
<1>1. Named(CHOOSE names : Named(names, headers), headers)
  BY NamesExist
<1>2. dedupe_headers(headers) = (CHOOSE names : Named(names, headers))[Len(headers)]
  BY DEF dedupe_headers, Named
<1> QED BY <1>1, <1>2

(* No two columns of a workbook have one name.                             *)
LEMMA NamesDiffer ==
  ASSUME NEW C, NEW headers \in Seq(Seq(C))
  PROVE  LET names == dedupe_headers(headers)
         IN \A i, j \in DOMAIN names : names[i] = names[j] => i = j
<1> DEFINE n == Len(headers)
           Y == Seq(C) \cup UNION {Names(h) : h \in Seq(C)}
           Distinct(s) == s \in Seq(Y) /\ \A i, j \in 1 .. Len(s) : s[i] = s[j] => i = j
<1>0. n \in Nat /\ \A i \in 1 .. n : headers[i] \in Seq(C)
  BY LenProperties, ElementOfSeq
<1>1. PICK names : Named(names, headers) /\ dedupe_headers(headers) = names[n]
  BY DedupeIs
<1> DEFINE S == {m \in Nat : m <= n => Distinct(names[m])}
<1>2. ASSUME NEW m \in Nat, \A l \in Nat : l < m => l \in S PROVE m \in S
  <2> SUFFICES ASSUME m <= n PROVE Distinct(names[m])
    OBVIOUS
  <2>1. CASE m = 0
    <3>1. names[0] = <<>>
      BY <1>0, <1>1 DEF Named
    <3> QED BY <2>1, <3>1
  <2>2. CASE m # 0
    <3> DEFINE s == names[m - 1]  used == {s[j] : j \in DOMAIN s}
               counted == Cardinality({j \in 1 .. m - 1 : headers[j] = headers[m]})
               name == FreeName(used, headers[m], counted)
    <3>1. m - 1 \in Nat /\ m - 1 < m /\ m - 1 <= n /\ m \in 1 .. n /\ m \in 0 .. n
      BY <1>0, <2>2
    <3>2. Distinct(s)
      BY <1>2, <3>1
    <3>3. names[m] = Append(s, name)
      <4>1. names[m] = [i \in 0 .. n |->
              IF i = 0 THEN <<>>
              ELSE LET before == {names[i - 1][j] : j \in DOMAIN names[i - 1]}
                   IN Append(names[i - 1],
                             FreeName(before, headers[i],
                                      Cardinality({j \in 1 .. i - 1 : headers[j] = headers[i]})))][m]
        BY <1>1 DEF Named
      <4> QED BY <2>2, <3>1, <4>1
    <3>4. s \in Seq(Y) /\ headers[m] \in Seq(C) /\ \A i, j \in 1 .. Len(s) : s[i] = s[j] => i = j
      BY <1>0, <3>1, <3>2
    <3> HIDE DEF s, counted
    <3>5. IsFiniteSet(used)
      <4> HIDE DEF Y
      <4> QED BY <3>4, ElementsFinite
    <3>6. \A j \in 1 .. Len(s) : s[j] \in used
      BY <3>4
    <3> HIDE DEF used
    <3>7. name \in Names(headers[m]) \ used
      BY <3>4, <3>5, FreeNameIs
    <3> HIDE DEF name
    <3>8. name \in Y
      BY <3>4, <3>7
    <3> HIDE DEF Y
    <3>9. /\ Append(s, name) \in Seq(Y) /\ Len(Append(s, name)) = Len(s) + 1 /\ Len(s) \in Nat
          /\ \A i \in 1 .. Len(s) : Append(s, name)[i] = s[i]
          /\ Append(s, name)[Len(s) + 1] = name
      BY <3>4, <3>8, AppendProperties, LenProperties
    <3> DEFINE t == Append(s, name)
    <3> HIDE DEF t
    <3>10. t \in Seq(Y) /\ Len(t) = Len(s) + 1 /\ (\A i \in 1 .. Len(s) : t[i] = s[i]) /\ t[Len(s) + 1] = name
      BY <3>9 DEF t
    <3>11. \A i, j \in 1 .. Len(t) : t[i] = t[j] => i = j
      <4>1. \A i \in 1 .. Len(t) : i \in 1 .. Len(s) \/ i = Len(s) + 1
        BY <3>9, <3>10
      <4>2. \A i \in 1 .. Len(s) : t[i] # name
        BY <3>6, <3>7, <3>10
      <4> QED BY <3>4, <3>10, <4>1, <4>2
    <3> QED BY <3>3, <3>10, <3>11 DEF t
  <2> QED BY <2>1, <2>2
<1>3. n \in S
  <2> HIDE DEF S
  <2>1. Nat \subseteq S
    BY <1>2, Induction
  <2> QED BY <1>0, <2>1
<1>4. Distinct(names[n])
  BY <1>0, <1>3
<1>5. DOMAIN names[n] = 1 .. Len(names[n])
  BY <1>4, LenProperties
<1> QED BY <1>1, <1>4, <1>5

---------------------------------------------------------------------------
(* The check for ATTACH against SQLite's tokenizer.                        *)

Comments == {"--", "/*"}

(* What is skipped in front of a statement is no comment.                  *)
LEMMA SkippedApart ==
  /\ Skipped = SqliteSkips /\ "\n" \in SqliteSkips
  /\ "--" \notin SqliteSkips /\ "/*" \notin SqliteSkips /\ "attach" \notin SqliteSkips
  BY Zenon DEF Skipped, SqliteSkips, Space, Semicolon

Stripped(rest, sql) ==
  rest = [i \in 1 .. Len(sql) + 1 |->
    IF i > Len(sql) THEN <<>>
    ELSE IF SkippedTo(sql, i) = i THEN After(sql, i - 1) ELSE rest[SkippedTo(sql, i)]]

Modes == {"start", "line", "block", "keyword", "attach", "other"}
Following(mode, token) ==
  CASE mode = "start" ->
         CASE token \in SqliteSkips -> "start"
           [] token = "--" -> "line"
           [] token = "/*" -> "block"
           [] token = "attach" -> "keyword"
           [] OTHER -> "other"
    [] mode = "line"    -> IF token = "\n" THEN "start" ELSE "line"
    [] mode = "block"   -> IF token = "*/" THEN "start" ELSE "block"
    [] mode = "keyword" -> IF token \in {"attach", "x"} THEN "other" ELSE "attach"
    [] OTHER -> mode
Tokenized(mode, sql) ==
  mode = [i \in 0 .. Len(sql) |-> IF i = 0 THEN "start" ELSE Following(mode[i - 1], sql[i])]

(* A comment ends at the first mark behind its beginning, or with the text. *)
LEMMA EndIs ==
  ASSUME NEW X, NEW sql \in Seq(X), NEW i \in 1 .. Len(sql), NEW mark
  PROVE  LET e == CommentEnd(sql, i, mark)
         IN /\ e \in i .. Len(sql)
            /\ \A j \in i + 1 .. Len(sql) : j < e => sql[j] # mark
            /\ \/ e \in i + 1 .. Len(sql) /\ sql[e] = mark
               \/ e = Len(sql) /\ \A j \in i + 1 .. Len(sql) : sql[j] # mark
<1> DEFINE n == Len(sql)  t == After(sql, i)  W == Where(t, {mark})
<1>1. n \in Nat /\ i \in Nat /\ i <= n /\ i \in 0 .. n
  BY LenProperties
<1>2. t \in Seq(X) /\ Len(t) = n - i /\ \A j \in 1 .. n - i : t[j] = sql[j + i]
  BY <1>1, AfterIs
<1> HIDE DEF t
<1>3. DOMAIN t = 1 .. n - i
  BY <1>2, LenProperties
<1>4. W = {j \in 1 .. n - i : sql[j + i] = mark}
  BY <1>2, <1>3 DEF Where
<1> HIDE DEF W
<1>5. CommentEnd(sql, i, mark) = IF W = {} THEN n ELSE i + Least(W)
  BY DEF CommentEnd, W, t
<1>6. ASSUME NEW j \in i + 1 .. n PROVE j - i \in 1 .. n - i /\ j - i + i = j
  BY <1>1
<1>7. CASE W = {}
  <2>1. ASSUME NEW j \in i + 1 .. n PROVE sql[j] # mark
    BY <1>4, <1>6, <1>7
  <2> QED BY <1>1, <1>5, <1>7, <2>1
<1>8. CASE W # {}
  <2> DEFINE k == Least(W)
  <2>1. W \subseteq Nat
    BY <1>1, <1>4
  <2>2. k \in W /\ \A j \in W : k <= j
    BY <1>8, <2>1, LeastNumber DEF Least
  <2> HIDE DEF k
  <2>3. k \in 1 .. n - i /\ sql[k + i] = mark
    BY <1>4, <2>2
  <2>4. i + k \in i + 1 .. n /\ i + k = k + i
    BY <1>1, <2>3
  <2>5. ASSUME NEW j \in i + 1 .. n, j < i + k PROVE sql[j] # mark
    <3>1. j - i \notin W
      <4>1. ~(k <= j - i)
        BY <1>1, <2>3, <2>5
      <4> QED BY <2>2, <4>1
    <3> QED BY <1>4, <1>6, <3>1
  <2>6. CommentEnd(sql, i, mark) = i + k
    BY <1>5, <1>8 DEF k
  <2>7. i + k \in i .. n
    BY <1>1, <2>4
  <2> QED BY <2>3, <2>4, <2>5, <2>6, <2>7
<1> QED BY <1>7, <1>8

(* The states of the tokenizer are a function of the tokens read.          *)
LEMMA TokenizedExists ==
  ASSUME NEW X, NEW sql \in Seq(X) PROVE \E mode \in [0 .. Len(sql) -> Modes] : Tokenized(mode, sql)
<1> DEFINE D == 0 .. Len(sql)
           rank == [i \in D |-> i]
           at(g, i) == IF i = 0 THEN "start" ELSE Following(g[i - 1], sql[i])
           F == [g \in [D -> Modes] |-> [i \in D |-> at(g, i)]]
<1>0. Len(sql) \in Nat
  BY LenProperties
<1>1. rank \in [D -> Nat] /\ Modes # {}
  BY <1>0 DEF Modes
<1>2. F \in [[D -> Modes] -> [D -> Modes]]
  <2> SUFFICES ASSUME NEW g \in [D -> Modes], NEW i \in D PROVE at(g, i) \in Modes
    <3> HIDE DEF at, D
    <3> QED OBVIOUS
  <2>1. i # 0 => g[i - 1] \in Modes
    BY <1>0
  <2>2. \A m \in Modes : \A x : Following(m, x) \in Modes
    BY DEF Modes, Following
  <2>3. "start" \in Modes
    BY DEF Modes
  <2> QED BY <2>1, <2>2, <2>3
<1>3. \A g, h \in [D -> Modes] : \A d \in D :
        (\A e \in D : rank[e] < rank[d] => g[e] = h[e]) => F[g][d] = F[h][d]
  <2> SUFFICES ASSUME NEW g \in [D -> Modes], NEW h \in [D -> Modes], NEW d \in D,
                      \A e \in D : rank[e] < rank[d] => g[e] = h[e]
               PROVE  F[g][d] = F[h][d]
    <3> HIDE DEF F, rank, D
    <3> QED OBVIOUS
  <2>0. F[g][d] = at(g, d) /\ F[h][d] = at(h, d)
    <3> HIDE DEF at, D
    <3> QED OBVIOUS
  <2>1. d # 0 => g[d - 1] = h[d - 1]
    BY <1>0
  <2> QED BY <2>0, <2>1
<1>4. PICK f \in [D -> Modes] : f = F[f]
  <2> HIDE DEF D, rank, F
  <2>1. LooksBelow(F, D, Modes, rank)
    BY <1>1, <1>2, <1>3 DEF LooksBelow
  <2> QED BY <2>1, Recursion
<1>5. Tokenized(f, sql)
  BY <1>4 DEF Tokenized
<1> QED BY <1>5

(* What is left behind the skipped tokens is a function of the place.      *)
LEMMA StrippedExists ==
  ASSUME NEW X, NEW sql \in Seq(X) PROVE \E rest : Stripped(rest, sql)
<1> DEFINE n == Len(sql)
           D == 1 .. n + 1
           V == Seq(X)
           rank == [i \in D |-> n + 1 - i]
           at(g, i) ==
             IF i > n THEN <<>>
             ELSE IF SkippedTo(sql, i) = i THEN After(sql, i - 1) ELSE g[SkippedTo(sql, i)]
           F == [g \in [D -> V] |-> [i \in D |-> at(g, i)]]
<1>0. n \in Nat
  BY LenProperties
<1>1. rank \in [D -> Nat] /\ <<>> \in V
  BY <1>0
<1>e. ASSUME NEW i \in D, i <= n
      PROVE  /\ After(sql, i - 1) \in V
             /\ SkippedTo(sql, i) # i => SkippedTo(sql, i) \in D /\ rank[SkippedTo(sql, i)] < rank[i]
  <2>1. i \in 1 .. n /\ i - 1 \in 0 .. n
    BY <1>0, <1>e
  <2>2. CommentEnd(sql, i, "\n") \in i .. n /\ CommentEnd(sql, i, "*/") \in i .. n
    BY <2>1, EndIs
  <2>3. After(sql, i - 1) \in V
    BY <2>1, AfterIs
  <2>4. SkippedTo(sql, i) \in {i, i + 1, CommentEnd(sql, i, "\n") + 1, CommentEnd(sql, i, "*/") + 1}
    BY DEF SkippedTo
  <2>5. SkippedTo(sql, i) # i => SkippedTo(sql, i) \in i + 1 .. n + 1
    BY <1>0, <2>1, <2>2, <2>4
  <2>6. \A j \in i + 1 .. n + 1 : j \in D /\ rank[j] < rank[i]
    BY <1>0, <2>1
  <2> QED BY <2>3, <2>5, <2>6
<1>c. \A i \in D : i <= n \/ i > n
  BY <1>0
<1>2. F \in [[D -> V] -> [D -> V]]
  <2> SUFFICES ASSUME NEW g \in [D -> V], NEW i \in D PROVE at(g, i) \in V
    <3> HIDE DEF at, V, D
    <3> QED OBVIOUS
  <2>1. i <= n => After(sql, i - 1) \in V /\ (SkippedTo(sql, i) # i => g[SkippedTo(sql, i)] \in V)
    <3>1. i <= n => After(sql, i - 1) \in V /\ (SkippedTo(sql, i) # i => SkippedTo(sql, i) \in D)
      BY <1>e
    <3> HIDE DEF D, V
    <3> QED BY <3>1
  <2> HIDE DEF V, D
  <2> QED BY <1>1, <1>c, <2>1
<1>3. \A g, h \in [D -> V] : \A d \in D :
        (\A e \in D : rank[e] < rank[d] => g[e] = h[e]) => F[g][d] = F[h][d]
  <2> SUFFICES ASSUME NEW g \in [D -> V], NEW h \in [D -> V], NEW d \in D,
                      \A e \in D : rank[e] < rank[d] => g[e] = h[e]
               PROVE  F[g][d] = F[h][d]
    <3> HIDE DEF F, rank, V, D
    <3> QED OBVIOUS
  <2>0. F[g][d] = at(g, d) /\ F[h][d] = at(h, d)
    <3> HIDE DEF at, V, D
    <3> QED OBVIOUS
  <2>1. d <= n /\ SkippedTo(sql, d) # d => g[SkippedTo(sql, d)] = h[SkippedTo(sql, d)]
    <3>1. d <= n /\ SkippedTo(sql, d) # d => SkippedTo(sql, d) \in D /\ rank[SkippedTo(sql, d)] < rank[d]
      BY <1>e
    <3> HIDE DEF D, rank
    <3> QED BY <3>1
  <2>2. at(g, d) = at(h, d)
    BY <1>c, <2>1
  <2> QED BY <2>0, <2>2
<1>4. PICK f \in [D -> V] : f = F[f]
  <2> HIDE DEF D, V, rank, F
  <2>1. LooksBelow(F, D, V, rank)
    BY <1>1, <1>2, <1>3 DEF LooksBelow
  <2> QED BY <2>1, Recursion
<1>5. Stripped(f, sql)
  BY <1>4 DEF Stripped
<1> QED BY <1>5

(* Both readings of a statement go by those functions.                     *)
LEMMA AttachesIs ==
  ASSUME NEW X, NEW sql \in Seq(X)
  PROVE  \E rest, mode :
           /\ Stripped(rest, sql) /\ strip_leading_ws_and_comments(sql) = rest[1]
           /\ Tokenized(mode, sql) /\ (SqliteAttaches(sql) <=> mode[Len(sql)] = "attach")
<1>1. Stripped(CHOOSE rest : Stripped(rest, sql), sql)
  BY StrippedExists
<1>2. strip_leading_ws_and_comments(sql) = (CHOOSE rest : Stripped(rest, sql))[1]
  BY DEF strip_leading_ws_and_comments, Stripped
<1>3. Tokenized(CHOOSE mode : Tokenized(mode, sql), sql)
  BY TokenizedExists
<1>4. SqliteAttaches(sql) <=> (CHOOSE mode : Tokenized(mode, sql))[Len(sql)] = "attach"
  BY DEF SqliteAttaches, Tokenized, Following
<1> QED BY <1>1, <1>2, <1>3, <1>4

Keeps(m, sql, k, l) == \A j \in k + 1 .. l : Following(m, sql[j]) = m

(* A state that no token on the way leaves is kept.                        *)
LEMMA ModeStays ==
  ASSUME NEW sql, Len(sql) \in Nat, NEW mode, Tokenized(mode, sql), NEW m,
         NEW k \in 0 .. Len(sql), NEW l \in k .. Len(sql), mode[k] = m,
         Keeps(m, sql, k, l)
  PROVE  mode[l] = m
<1> DEFINE S == {d \in Nat : k + d <= l => mode[k + d] = m}
<1>1. \A j \in 0 .. Len(sql) : j # 0 => mode[j] = Following(mode[j - 1], sql[j])
  BY DEF Tokenized
<1>2. ASSUME NEW d \in Nat, \A e \in Nat : e < d => e \in S PROVE d \in S
  <2> SUFFICES ASSUME k + d <= l PROVE mode[k + d] = m
    OBVIOUS
  <2>1. CASE d = 0
    <3>1. k + 0 = k
      OBVIOUS
    <3> QED BY <2>1, <3>1
  <2>2. CASE d # 0
    <3>1. d - 1 \in Nat /\ d - 1 < d /\ k + (d - 1) <= l /\ k + (d - 1) = k + d - 1
      BY <2>2
    <3>2. mode[k + d - 1] = m
      BY <1>2, <3>1
    <3>3. k + d \in k + 1 .. l /\ k + d \in 0 .. Len(sql) /\ k + d # 0
      BY <2>2
    <3>4. mode[k + d] = Following(m, sql[k + d])
      BY <1>1, <3>2, <3>3
    <3> QED BY <3>3, <3>4 DEF Keeps
  <2> QED BY <2>1, <2>2
<1>3. l - k \in Nat /\ k + (l - k) = l
  OBVIOUS
<1>4. l - k \in S
  <2> HIDE DEF S
  <2>1. Nat \subseteq S
    BY <1>2, Induction
  <2> QED BY <1>3, <2>1
<1> QED BY <1>3, <1>4

SeesAttach(rest) == Len(rest) >= 2 /\ rest[1] = "attach" /\ rest[2] \notin {"attach", "x"}

(* Behind a comment both are where they were in front of it.               *)
LEMMA CommentSkipped ==
  ASSUME NEW X, NEW sql \in Seq(X), NEW mode, Tokenized(mode, sql), NEW i \in 1 .. Len(sql),
         NEW m, NEW mark, mode[i] = m, m \notin {"start", "attach"},
         \A x : Following(m, x) = IF x = mark THEN "start" ELSE m
  PROVE  \/ CommentEnd(sql, i, mark) \in i + 1 .. Len(sql) /\ mode[CommentEnd(sql, i, mark)] = "start"
         \/ CommentEnd(sql, i, mark) = Len(sql) /\ mode[Len(sql)] # "attach"
<1> DEFINE n == Len(sql)  e == CommentEnd(sql, i, mark)
<1>1. n \in Nat /\ i \in 0 .. n /\ n \in i .. n
  BY LenProperties
<1>2. /\ e \in i .. n /\ \A j \in i + 1 .. n : j < e => sql[j] # mark
      /\ \/ e \in i + 1 .. n /\ sql[e] = mark
         \/ e = n /\ \A j \in i + 1 .. n : sql[j] # mark
  BY EndIs
<1> HIDE DEF e
<1>3. CASE e \in i + 1 .. n /\ sql[e] = mark
  <2>1. e - 1 \in i .. n /\ e \in 0 .. n /\ e # 0
    BY <1>1, <1>3
  <2>2. Keeps(m, sql, i, e - 1)
    <3>1. \A j \in i + 1 .. e - 1 : j \in i + 1 .. n /\ j < e
      BY <1>1, <1>3
    <3> QED BY <1>2, <3>1 DEF Keeps
  <2>3. mode[e - 1] = m
    BY <1>1, <2>1, <2>2, ModeStays
  <2>4. mode[e] = Following(mode[e - 1], sql[e])
    BY <2>1 DEF Tokenized
  <2>5. mode[e] = "start"
    BY <1>3, <2>3, <2>4
  <2> QED BY <1>3, <2>5 DEF e
<1>4. CASE e = n /\ \A j \in i + 1 .. n : sql[j] # mark
  <2>1. mode[n] = m
    <3>1. Keeps(m, sql, i, n)
      BY <1>4 DEF Keeps
    <3> QED BY <1>1, <3>1, ModeStays
  <2> QED BY <1>4, <2>1 DEF e
<1> QED BY <1>2, <1>3, <1>4

(* The check for ATTACH sees what SQLite's tokenizer sees.                 *)
LEMMA AttachIsSeen ==
  ASSUME NEW X, NEW sql \in Seq(X)
  PROVE  is_attach_or_detach(sql) <=> SqliteAttaches(sql)
<1> DEFINE n == Len(sql)
<1>0. n \in Nat
  BY LenProperties
<1>1. PICK rest, mode :
        /\ Stripped(rest, sql) /\ strip_leading_ws_and_comments(sql) = rest[1]
        /\ Tokenized(mode, sql) /\ (SqliteAttaches(sql) <=> mode[n] = "attach")
  BY AttachesIs
<1>m. \A j \in 0 .. n : mode[j] = IF j = 0 THEN "start" ELSE Following(mode[j - 1], sql[j])
  BY <1>1 DEF Tokenized
<1>r. \A i \in 1 .. n + 1 :
        rest[i] = IF i > n THEN <<>>
                  ELSE IF SkippedTo(sql, i) = i THEN After(sql, i - 1) ELSE rest[SkippedTo(sql, i)]
  BY <1>1 DEF Stripped
<1> DEFINE Agree(i) == mode[i - 1] = "start" => (SeesAttach(rest[i]) <=> mode[n] = "attach")
           S == {d \in Nat : d <= n => Agree(n + 1 - d)}
<1>2. ASSUME NEW i \in 1 .. n + 1, \A j \in i + 1 .. n + 1 : Agree(j), mode[i - 1] = "start"
      PROVE  SeesAttach(rest[i]) <=> mode[n] = "attach"
  <2>1. CASE i = n + 1
    <3>1. rest[i] = <<>> /\ mode[n] = "start"
      <4>1. i > n /\ ~(i <= n) /\ i - 1 = n
        BY <1>0, <2>1
      <4> QED BY <1>2, <1>r, <4>1
    <3> QED BY <3>1 DEF SeesAttach
  <2>2. CASE i <= n
    <3>1. i \in 1 .. n /\ i \in 0 .. n /\ i # 0 /\ ~(i > n)
      BY <1>0, <2>2
    <3>2. mode[i] = Following("start", sql[i])
      BY <1>2, <1>m, <3>1
    <3>3. CASE sql[i] \in Skipped
      <4>1. mode[i] = "start"
        BY <3>2, <3>3, SkippedApart DEF Following
      <4>2. rest[i] = rest[i + 1]
        <5>1. SkippedTo(sql, i) = i + 1 /\ i + 1 # i
          BY <3>1, <3>3, SkippedApart DEF SkippedTo
        <5> QED BY <1>r, <3>1, <5>1
      <4>3. i + 1 \in i + 1 .. n + 1 /\ i + 1 - 1 = i
        BY <1>0, <3>1
      <4> QED BY <1>2, <4>1, <4>2, <4>3
    <3>c. ASSUME NEW m \in {"line", "block"}, NEW mark, mode[i] = m,
                 \A x : Following(m, x) = IF x = mark THEN "start" ELSE m,
                 rest[i] = rest[CommentEnd(sql, i, mark) + 1]
          PROVE  SeesAttach(rest[i]) <=> mode[n] = "attach"
      <4> DEFINE e == CommentEnd(sql, i, mark)
      <4>1. \/ e \in i + 1 .. n /\ mode[e] = "start"
            \/ e = n /\ mode[n] # "attach"
        BY <1>1, <3>1, <3>c, CommentSkipped
      <4> HIDE DEF e
      <4>2. CASE e \in i + 1 .. n /\ mode[e] = "start"
        <5>1. e + 1 \in i + 1 .. n + 1 /\ e + 1 - 1 = e
          BY <1>0, <4>2
        <5> QED BY <1>2, <3>c, <4>2, <5>1 DEF e
      <4>3. CASE e = n /\ mode[n] # "attach"
        <5>1. rest[n + 1] = <<>>
          <6>1. n + 1 \in 1 .. n + 1 /\ n + 1 > n /\ ~(n + 1 <= n)
            BY <1>0
          <6> QED BY <1>r, <6>1
        <5>2. rest[i] = <<>>
          BY <3>c, <4>3, <5>1 DEF e
        <5> QED BY <4>3, <5>2 DEF SeesAttach
      <4> QED BY <4>1, <4>2, <4>3
    <3>4. CASE sql[i] = "--"
      <4>1. mode[i] = "line"
        BY <3>2, <3>4, SkippedApart DEF Following
      <4>2. rest[i] = rest[CommentEnd(sql, i, "\n") + 1]
        <5>1. CommentEnd(sql, i, "\n") \in i .. n
          BY <3>1, EndIs
        <5>2. SkippedTo(sql, i) = CommentEnd(sql, i, "\n") + 1
          BY <3>4, SkippedApart DEF SkippedTo
        <5>3. CommentEnd(sql, i, "\n") + 1 # i
          BY <3>1, <5>1
        <5> QED BY <1>r, <3>1, <5>2, <5>3
      <4>3. \A x : Following("line", x) = IF x = "\n" THEN "start" ELSE "line"
        BY DEF Following
      <4> QED BY <3>c, <4>1, <4>2, <4>3
    <3>5. CASE sql[i] = "/*"
      <4>1. mode[i] = "block"
        BY <3>2, <3>5, SkippedApart DEF Following
      <4>2. rest[i] = rest[CommentEnd(sql, i, "*/") + 1]
        <5>1. CommentEnd(sql, i, "*/") \in i .. n
          BY <3>1, EndIs
        <5>2. SkippedTo(sql, i) = CommentEnd(sql, i, "*/") + 1
          BY <3>5, SkippedApart DEF SkippedTo
        <5>3. CommentEnd(sql, i, "*/") + 1 # i
          BY <3>1, <5>1
        <5> QED BY <1>r, <3>1, <5>2, <5>3
      <4>3. \A x : Following("block", x) = IF x = "*/" THEN "start" ELSE "block"
        BY DEF Following
      <4> QED BY <3>c, <4>1, <4>2, <4>3
    <3>6. CASE sql[i] \notin Skipped /\ sql[i] \notin Comments
      <4>1. rest[i] = After(sql, i - 1)
        <5>1. SkippedTo(sql, i) = i
          BY <3>6 DEF SkippedTo, Comments
        <5> QED BY <1>r, <3>1, <5>1
      <4>2. i - 1 \in 0 .. n
        BY <3>1
      <4>3. /\ After(sql, i - 1) \in Seq(X) /\ Len(After(sql, i - 1)) = n - (i - 1)
            /\ \A j \in 1 .. n - (i - 1) : After(sql, i - 1)[j] = sql[j + (i - 1)]
        BY <4>2, AfterIs
      <4> DEFINE t == rest[i]
      <4>4. /\ Len(t) = n - (i - 1) /\ t[1] = sql[i] /\ (i + 1 <= n => t[2] = sql[i + 1])
        <5>1. 1 \in 1 .. n - (i - 1) /\ 1 + (i - 1) = i
              /\ (i + 1 <= n => 2 \in 1 .. n - (i - 1)) /\ 2 + (i - 1) = i + 1
          BY <1>0, <3>1
        <5>2. t[1] = sql[1 + (i - 1)]
          BY <4>1, <4>3, <5>1
        <5>3. i + 1 <= n => t[2] = sql[2 + (i - 1)]
          BY <4>1, <4>3, <5>1
        <5> QED BY <4>1, <4>3, <5>1, <5>2, <5>3
      <4> HIDE DEF t
      <4>5. Len(t) >= 2 <=> i + 1 <= n
        BY <1>0, <3>1, <4>4
      <4>6. CASE sql[i] # "attach"
        <5>1. mode[i] = "other"
          BY <3>2, <3>6, <4>6, SkippedApart DEF Following, Comments
        <5>2. mode[n] = "other"
          <6>1. Keeps("other", sql, i, n)
            BY DEF Following, Keeps
          <6>2. n \in i .. n
            BY <1>0, <3>1
          <6> QED BY <1>0, <1>1, <3>1, <5>1, <6>1, <6>2, ModeStays
        <5> QED BY <4>4, <4>6, <5>2 DEF SeesAttach, t
      <4>7. CASE sql[i] = "attach"
        <5>1. mode[i] = "keyword"
          BY <3>2, <4>7, SkippedApart DEF Following
        <5>2. CASE i = n
          <6>1. ~(i + 1 <= n)
            BY <1>0, <5>2
          <6> QED BY <4>5, <5>1, <5>2, <6>1 DEF SeesAttach, t
        <5>3. CASE i + 1 <= n
          <6>1. i + 1 \in 0 .. n /\ i + 1 # 0 /\ i + 1 - 1 = i /\ n \in i + 1 .. n
            BY <1>0, <3>1, <5>3
          <6>2. mode[i + 1] = IF sql[i + 1] \in {"attach", "x"} THEN "other" ELSE "attach"
            <7>1. mode[i + 1] = Following("keyword", sql[i + 1])
              BY <1>m, <5>1, <6>1
            <7> QED BY <7>1 DEF Following
          <6>3. mode[n] = mode[i + 1]
            <7>1. mode[i + 1] \in {"other", "attach"}
              BY <6>2
            <7>2. \A x : Following("other", x) = "other" /\ Following("attach", x) = "attach"
              BY DEF Following
            <7>3. Keeps(mode[i + 1], sql, i + 1, n)
              BY <7>1, <7>2 DEF Keeps
            <7> QED BY <1>0, <1>1, <6>1, <7>3, ModeStays
          <6> QED BY <4>4, <4>5, <4>7, <5>3, <6>2, <6>3 DEF SeesAttach, t
        <5> QED BY <1>0, <3>1, <5>2, <5>3
      <4> QED BY <4>6, <4>7
    <3> QED BY <3>3, <3>4, <3>5, <3>6 DEF Comments
  <2> QED BY <1>0, <2>1, <2>2
<1>3. ASSUME NEW d \in Nat, \A e \in Nat : e < d => e \in S PROVE d \in S
  <2> SUFFICES ASSUME d <= n PROVE Agree(n + 1 - d)
    OBVIOUS
  <2>1. n + 1 - d \in 1 .. n + 1
    BY <1>0
  <2>2. ASSUME NEW j \in n + 1 - d + 1 .. n + 1 PROVE Agree(j)
    <3>1. n + 1 - j \in Nat /\ n + 1 - j < d /\ n + 1 - j <= n /\ n + 1 - (n + 1 - j) = j
      BY <1>0, <2>1
    <3>2. n + 1 - j \in S
      BY <1>3, <3>1
    <3>3. Agree(n + 1 - (n + 1 - j))
      <4> HIDE DEF Agree
      <4> QED BY <3>1, <3>2
    <3> HIDE DEF Agree
    <3> QED BY <3>1, <3>3
  <2> QED BY <1>2, <2>1, <2>2
<1>4. n \in S
  <2> HIDE DEF S
  <2>1. Nat \subseteq S
    BY <1>3, Induction
  <2> QED BY <1>0, <2>1
<1>5. Agree(1)
  <2>1. n + 1 - n = 1
    BY <1>0
  <2>2. Agree(n + 1 - n)
    <3> HIDE DEF Agree
    <3> QED BY <1>0, <1>4
  <2> HIDE DEF Agree
  <2> QED BY <2>1, <2>2
<1>6. mode[0] = "start"
  BY <1>0, <1>m
<1>7. SeesAttach(rest[1]) <=> mode[n] = "attach"
  <2>1. 1 - 1 = 0
    OBVIOUS
  <2> QED BY <1>5, <1>6, <2>1
<1>8. is_attach_or_detach(sql) <=> SeesAttach(rest[1])
  BY <1>1 DEF is_attach_or_detach, SeesAttach
<1> QED BY <1>1, <1>7, <1>8

---------------------------------------------------------------------------
(* The place of an error.                                                  *)

Summed(sum, w) == sum = [n \in 0 .. Len(w) |-> IF n = 0 THEN 0 ELSE sum[n - 1] + w[n]]

(* The sums of the first weights are a function of their number.           *)
LEMMA SummedExists ==
  ASSUME NEW w \in Seq(Nat) PROVE \E sum : Summed(sum, w)
<1> DEFINE D == 0 .. Len(w)
           rank == [n \in D |-> n]
           at(g, n) == IF n = 0 THEN 0 ELSE g[n - 1] + w[n]
           F == [g \in [D -> Nat] |-> [n \in D |-> at(g, n)]]
<1>0. Len(w) \in Nat /\ \A n \in 1 .. Len(w) : w[n] \in Nat
  BY LenProperties, ElementOfSeq
<1>1. rank \in [D -> Nat] /\ Nat # {}
  BY <1>0
<1>2. F \in [[D -> Nat] -> [D -> Nat]]
  <2> SUFFICES ASSUME NEW g \in [D -> Nat], NEW n \in D PROVE at(g, n) \in Nat
    <3> HIDE DEF at, D
    <3> QED OBVIOUS
  <2>1. n # 0 => g[n - 1] \in Nat /\ w[n] \in Nat
    BY <1>0
  <2> QED BY <2>1
<1>3. \A g, h \in [D -> Nat] : \A d \in D :
        (\A e \in D : rank[e] < rank[d] => g[e] = h[e]) => F[g][d] = F[h][d]
  <2> SUFFICES ASSUME NEW g \in [D -> Nat], NEW h \in [D -> Nat], NEW d \in D,
                      \A e \in D : rank[e] < rank[d] => g[e] = h[e]
               PROVE  F[g][d] = F[h][d]
    <3> HIDE DEF F, rank, D
    <3> QED OBVIOUS
  <2>0. F[g][d] = at(g, d) /\ F[h][d] = at(h, d)
    <3> HIDE DEF at, D
    <3> QED OBVIOUS
  <2>1. d # 0 => g[d - 1] = h[d - 1]
    BY <1>0
  <2> QED BY <2>0, <2>1
<1>4. PICK f \in [D -> Nat] : f = F[f]
  <2> HIDE DEF D, rank, F
  <2>1. LooksBelow(F, D, Nat, rank)
    BY <1>1, <1>2, <1>3 DEF LooksBelow
  <2> QED BY <2>1, Recursion
<1>5. Summed(f, w)
  BY <1>4 DEF Summed
<1> QED BY <1>5

(* Total is the last of them.                                              *)
LEMMA TotalIs ==
  ASSUME NEW w \in Seq(Nat) PROVE \E sum : Summed(sum, w) /\ Total(w) = sum[Len(w)]
<1>1. Summed(CHOOSE sum : Summed(sum, w), w)
  BY SummedExists
<1>2. Total(w) = (CHOOSE sum : Summed(sum, w))[Len(w)]
  BY DEF Total, Summed
<1> QED BY <1>1, <1>2

(* Each sum is the one before and a weight.                                *)
LEMMA SummedAt ==
  ASSUME NEW w \in Seq(Nat), NEW sum, Summed(sum, w)
  PROVE  /\ sum[0] = 0 /\ \A n \in 1 .. Len(w) : sum[n] = sum[n - 1] + w[n]
         /\ \A n \in 0 .. Len(w) : sum[n] \in Nat
<1>0. Len(w) \in Nat /\ \A n \in 1 .. Len(w) : w[n] \in Nat
  BY LenProperties, ElementOfSeq
<1>1. sum[0] = 0 /\ \A n \in 1 .. Len(w) : sum[n] = sum[n - 1] + w[n]
  BY <1>0 DEF Summed
<1> DEFINE S == {n \in Nat : n <= Len(w) => sum[n] \in Nat}
<1>2. ASSUME NEW n \in Nat, \A m \in Nat : m < n => m \in S PROVE n \in S
  <2>1. CASE n = 0
    BY <1>1, <2>1
  <2>2. CASE n # 0
    <3>1. n - 1 \in Nat /\ n - 1 < n
      BY <2>2
    <3>2. n - 1 \in S
      BY <1>2, <3>1
    <3> QED BY <1>0, <1>1, <2>2, <3>1, <3>2
  <2> QED BY <2>1, <2>2
<1>3. Nat \subseteq S
  <2> HIDE DEF S
  <2> QED BY <1>2, Induction
<1> QED BY <1>0, <1>1, <1>3

(* A sum of weights is a number.                                           *)
LEMMA TotalNat ==
  ASSUME NEW w \in Seq(Nat) PROVE Total(w) \in Nat
<1>1. PICK sum : Summed(sum, w) /\ Total(w) = sum[Len(w)]
  BY TotalIs
<1>2. Len(w) \in 0 .. Len(w)
  BY LenProperties
<1> QED BY <1>1, <1>2, SummedAt

(* Nothing weighs nothing.                                                 *)
LEMMA TotalEmpty == Total(<<>>) = 0
<1>1. <<>> \in Seq(Nat) /\ Len(<<>>) = 0
  OBVIOUS
<1>2. PICK sum : Summed(sum, <<>>) /\ Total(<<>>) = sum[Len(<<>>)]
  BY <1>1, TotalIs
<1> QED BY <1>1, <1>2, SummedAt

(* One more weight is added.                                               *)
LEMMA TotalAppend ==
  ASSUME NEW w \in Seq(Nat), NEW x \in Nat PROVE Total(Append(w, x)) = Total(w) + x
<1> DEFINE v == Append(w, x)
<1>1. /\ v \in Seq(Nat) /\ Len(v) = Len(w) + 1 /\ Len(w) \in Nat
      /\ \A i \in 1 .. Len(w) : v[i] = w[i] /\ v[Len(w) + 1] = x
  BY AppendProperties, LenProperties
<1>2. v[Len(w) + 1] = x
  BY AppendProperties
<1> HIDE DEF v
<1>3. PICK f : Summed(f, w) /\ Total(w) = f[Len(w)]
  BY TotalIs
<1>4. PICK g : Summed(g, v) /\ Total(v) = g[Len(v)]
  BY <1>1, TotalIs
<1>5. f[0] = 0 /\ \A n \in 1 .. Len(w) : f[n] = f[n - 1] + w[n]
  BY <1>3, SummedAt
<1>6. g[0] = 0 /\ \A n \in 1 .. Len(v) : g[n] = g[n - 1] + v[n]
  BY <1>1, <1>4, SummedAt
<1> DEFINE S == {n \in Nat : n <= Len(w) => g[n] = f[n]}
<1>7. ASSUME NEW n \in Nat, \A m \in Nat : m < n => m \in S PROVE n \in S
  <2>1. CASE n = 0
    BY <1>5, <1>6, <2>1
  <2>2. CASE n # 0
    <3>1. n - 1 \in Nat /\ n - 1 < n
      BY <2>2
    <3>2. n - 1 \in S
      BY <1>7, <3>1
    <3> QED BY <1>1, <1>5, <1>6, <2>2, <3>1, <3>2
  <2> QED BY <2>1, <2>2
<1>8. Nat \subseteq S
  <2> HIDE DEF S
  <2> QED BY <1>7, Induction
<1>9. g[Len(w)] = f[Len(w)]
  BY <1>1, <1>8
<1>10. g[Len(w) + 1] = g[Len(w)] + x
  <2>1. Len(w) + 1 \in 1 .. Len(v) /\ Len(w) + 1 - 1 = Len(w)
    BY <1>1
  <2>2. g[Len(w) + 1] = g[Len(w) + 1 - 1] + v[Len(w) + 1]
    BY <1>6, <2>1
  <2> QED BY <1>2, <2>1, <2>2
<1> QED BY <1>1, <1>3, <1>4, <1>9, <1>10 DEF v

(* Joined weights are added.                                               *)
LEMMA TotalCat ==
  ASSUME NEW w \in Seq(Nat), NEW v \in Seq(Nat) PROVE Total(w \o v) = Total(w) + Total(v)
<1> DEFINE S == {t \in Seq(Nat) : Total(w \o t) = Total(w) + Total(t)}
<1>1. <<>> \in S
  <2>1. w \o <<>> = w
    BY ConcatEmptySeq
  <2>2. Total(w) \in Nat
    BY TotalNat
  <2> QED BY <2>1, <2>2, TotalEmpty
<1>2. ASSUME NEW t \in Seq(Nat), NEW x \in Nat, t \in S PROVE Append(t, x) \in S
  <2>1. w \o t \in Seq(Nat) /\ Append(t, x) \in Seq(Nat)
    BY ConcatProperties, AppendProperties
  <2>2. w \o Append(t, x) = Append(w \o t, x)
    <3>1. Append(t, x) = t \o <<x>> /\ <<x>> \in Seq(Nat)
      BY AppendIsConcat
    <3>2. Append(w \o t, x) = (w \o t) \o <<x>>
      BY <2>1, AppendIsConcat
    <3>3. (w \o t) \o <<x>> = w \o (t \o <<x>>)
      BY <3>1, ConcatAssociative
    <3> QED BY <3>1, <3>2, <3>3
  <2>3. Total(Append(w \o t, x)) = Total(w \o t) + x
    BY <2>1, TotalAppend
  <2>4. Total(Append(t, x)) = Total(t) + x
    BY TotalAppend
  <2>5. Total(w \o t) = Total(w) + Total(t)
    BY <1>2
  <2>6. Total(w) \in Nat /\ Total(t) \in Nat
    BY TotalNat
  <2>7. Total(w \o Append(t, x)) = Total(w) + Total(Append(t, x))
    BY <2>2, <2>3, <2>4, <2>5, <2>6
  <2> QED BY <2>1, <2>7
<1>3. Seq(Nat) \subseteq S
  <2> HIDE DEF S
  <2> QED BY <1>1, <1>2, BackInduction
<1> QED BY <1>3

Character(c) == c.bytes \in Nat \ {0} /\ c.units \in Nat

(* What has the elements of one sequence and then of another is the two of  *)
(* them joined.                                                            *)
LEMMA CatEqual ==
  ASSUME NEW X, NEW p \in Seq(X), NEW q \in Seq(X), NEW r \in Seq(X), Len(r) = Len(p) + Len(q),
         \A i \in 1 .. Len(p) : r[i] = p[i], \A i \in 1 .. Len(q) : r[Len(p) + i] = q[i]
  PROVE  r = p \o q
<1> DEFINE pq == p \o q
<1>1. /\ pq \in Seq(X) /\ Len(pq) = Len(p) + Len(q)
      /\ \A i \in 1 .. Len(p) + Len(q) : pq[i] = IF i <= Len(p) THEN p[i] ELSE q[i - Len(p)]
  BY ConcatProperties
<1> HIDE DEF pq
<1>2. Len(p) \in Nat /\ Len(q) \in Nat
  BY LenProperties
<1>3. ASSUME NEW i \in 1 .. Len(r) PROVE r[i] = pq[i]
  <2>1. /\ i \in 1 .. Len(p) + Len(q) /\ (i <= Len(p) => i \in 1 .. Len(p))
        /\ (~(i <= Len(p)) => i - Len(p) \in 1 .. Len(q) /\ Len(p) + (i - Len(p)) = i)
    BY <1>2
  <2>2. pq[i] = IF i <= Len(p) THEN p[i] ELSE q[i - Len(p)]
    BY <1>1, <2>1
  <2>3. ~(i <= Len(p)) => r[Len(p) + (i - Len(p))] = q[i - Len(p)]
    BY <2>1
  <2> QED BY <2>1, <2>2, <2>3
<1>4. r = pq
  BY <1>1, <1>3, SeqEqual
<1> QED BY <1>4 DEF pq

(* A text has the bytes and the units of its parts.                        *)
LEMMA WeightsCat ==
  ASSUME NEW C, NEW s \in Seq(C), NEW t \in Seq(C), \A c \in C : Character(c)
  PROVE  /\ Bytes(s \o t) = Bytes(s) + Bytes(t) /\ Units(s \o t) = Units(s) + Units(t)
         /\ Bytes(s) \in Nat
<1> DEFINE b(line) == [i \in DOMAIN line |-> line[i].bytes]  u(line) == [i \in DOMAIN line |-> line[i].units]
<1>1. \A line \in Seq(C) :
        /\ b(line) \in Seq(Nat) /\ Len(b(line)) = Len(line) /\ DOMAIN line = 1 .. Len(line)
        /\ u(line) \in Seq(Nat) /\ Len(u(line)) = Len(line) /\ Len(line) \in Nat
  <2> SUFFICES ASSUME NEW line \in Seq(C)
               PROVE  /\ b(line) \in Seq(Nat) /\ Len(b(line)) = Len(line) /\ DOMAIN line = 1 .. Len(line)
                      /\ u(line) \in Seq(Nat) /\ Len(u(line)) = Len(line) /\ Len(line) \in Nat
    OBVIOUS
  <2>1. DOMAIN line = 1 .. Len(line) /\ Len(line) \in Nat /\ \A i \in 1 .. Len(line) : line[i] \in C
    BY LenProperties, ElementOfSeq
  <2>2. b(line) \in [1 .. Len(line) -> Nat] /\ u(line) \in [1 .. Len(line) -> Nat]
    BY <2>1 DEF Character
  <2>3. \A n \in Nat : \A w \in [1 .. n -> Nat] : w \in Seq(Nat) /\ Len(w) = n
    OBVIOUS
  <2> DEFINE p == b(line)  q == u(line)
  <2> HIDE DEF p, q
  <2>4. p \in [1 .. Len(line) -> Nat] /\ q \in [1 .. Len(line) -> Nat]
    BY <2>2 DEF p, q
  <2>5. p \in Seq(Nat) /\ Len(p) = Len(line) /\ q \in Seq(Nat) /\ Len(q) = Len(line)
    BY <2>1, <2>3, <2>4
  <2> QED BY <2>1, <2>5 DEF p, q
<1>2. /\ s \o t \in Seq(C) /\ Len(s \o t) = Len(s) + Len(t)
      /\ \A i \in 1 .. Len(s) + Len(t) : (s \o t)[i] = IF i <= Len(s) THEN s[i] ELSE t[i - Len(s)]
  BY ConcatProperties
<1> DEFINE st == s \o t
<1> HIDE DEF st
<1>3. /\ st \in Seq(C) /\ Len(st) = Len(s) + Len(t) /\ Len(s) \in Nat /\ Len(t) \in Nat
      /\ \A i \in 1 .. Len(s) + Len(t) : st[i] = IF i <= Len(s) THEN s[i] ELSE t[i - Len(s)]
  BY <1>2, LenProperties DEF st
<1>4. b(st) = b(s) \o b(t)
  <2> DEFINE p == b(s)  q == b(t)  r == b(st)
  <2>1. /\ p \in Seq(Nat) /\ Len(p) = Len(s) /\ q \in Seq(Nat) /\ Len(q) = Len(t)
        /\ r \in Seq(Nat) /\ Len(r) = Len(s) + Len(t)
    BY <1>1, <1>3
  <2>2. /\ \A i \in 1 .. Len(s) : p[i] = s[i].bytes
        /\ \A i \in 1 .. Len(t) : q[i] = t[i].bytes
        /\ \A i \in 1 .. Len(s) + Len(t) : r[i] = st[i].bytes
    BY <1>1, <1>3
  <2> HIDE DEF p, q, r
  <2>3. ASSUME NEW i \in 1 .. Len(p) PROVE r[i] = p[i]
    <3>1. i \in 1 .. Len(s) + Len(t) /\ i <= Len(s) /\ i \in 1 .. Len(s)
      BY <1>3, <2>1
    <3>2. st[i] = s[i]
      BY <1>3, <3>1
    <3> QED BY <2>2, <3>1, <3>2
  <2>4. ASSUME NEW i \in 1 .. Len(q) PROVE r[Len(p) + i] = q[i]
    <3>1. /\ Len(p) + i \in 1 .. Len(s) + Len(t) /\ ~(Len(p) + i <= Len(s))
          /\ Len(p) + i - Len(s) = i /\ i \in 1 .. Len(t)
      BY <1>3, <2>1
    <3>2. st[Len(p) + i] = t[i]
      BY <1>3, <3>1
    <3> QED BY <2>2, <3>1, <3>2
  <2>5. r = p \o q
    <3>1. Len(r) = Len(p) + Len(q)
      BY <2>1
    <3> QED BY <2>1, <2>3, <2>4, <3>1, CatEqual
  <2> QED BY <2>5 DEF p, q, r
<1>5. u(st) = u(s) \o u(t)
  <2> DEFINE p == u(s)  q == u(t)  r == u(st)
  <2>1. /\ p \in Seq(Nat) /\ Len(p) = Len(s) /\ q \in Seq(Nat) /\ Len(q) = Len(t)
        /\ r \in Seq(Nat) /\ Len(r) = Len(s) + Len(t)
    BY <1>1, <1>3
  <2>2. /\ \A i \in 1 .. Len(s) : p[i] = s[i].units
        /\ \A i \in 1 .. Len(t) : q[i] = t[i].units
        /\ \A i \in 1 .. Len(s) + Len(t) : r[i] = st[i].units
    BY <1>1, <1>3
  <2> HIDE DEF p, q, r
  <2>3. ASSUME NEW i \in 1 .. Len(p) PROVE r[i] = p[i]
    <3>1. i \in 1 .. Len(s) + Len(t) /\ i <= Len(s) /\ i \in 1 .. Len(s)
      BY <1>3, <2>1
    <3>2. st[i] = s[i]
      BY <1>3, <3>1
    <3> QED BY <2>2, <3>1, <3>2
  <2>4. ASSUME NEW i \in 1 .. Len(q) PROVE r[Len(p) + i] = q[i]
    <3>1. /\ Len(p) + i \in 1 .. Len(s) + Len(t) /\ ~(Len(p) + i <= Len(s))
          /\ Len(p) + i - Len(s) = i /\ i \in 1 .. Len(t)
      BY <1>3, <2>1
    <3>2. st[Len(p) + i] = t[i]
      BY <1>3, <3>1
    <3> QED BY <2>2, <3>1, <3>2
  <2>5. r = p \o q
    <3>1. Len(r) = Len(p) + Len(q)
      BY <2>1
    <3> QED BY <2>1, <2>3, <2>4, <3>1, CatEqual
  <2> QED BY <2>5 DEF p, q, r
<1>6. Total(b(st)) = Total(b(s)) + Total(b(t)) /\ Total(u(st)) = Total(u(s)) + Total(u(t)) /\ Total(b(s)) \in Nat
  <2>1. b(s) \in Seq(Nat) /\ b(t) \in Seq(Nat) /\ u(s) \in Seq(Nat) /\ u(t) \in Seq(Nat)
    BY <1>1
  <2> HIDE DEF b, u
  <2> QED BY <1>4, <1>5, <2>1, TotalCat, TotalNat
<1> QED BY <1>6 DEF Bytes, Units, st

(* Every character has a byte.                                             *)
LEMMA BytesPositive ==
  ASSUME NEW C, NEW s \in Seq(C), s # <<>>, \A c \in C : Character(c)
  PROVE  Bytes(s) \in Nat \ {0}
<1> DEFINE front == SubSeq(s, 1, Len(s) - 1)  last == s[Len(s)]
<1>1. last \in C /\ front \in Seq(C) /\ s = Append(front, last)
  BY FrontLast
<1> HIDE DEF front, last
<1>2. Append(front, last) = front \o <<last>> /\ <<last>> \in Seq(C)
  BY <1>1, AppendIsConcat
<1>3. Bytes(s) = Bytes(front) + Bytes(<<last>>) /\ Bytes(front) \in Nat
  <2>1. Bytes(front \o <<last>>) = Bytes(front) + Bytes(<<last>>)
    BY <1>1, <1>2, WeightsCat
  <2>2. Bytes(front) \in Nat
    BY <1>1, WeightsCat
  <2> QED BY <1>1, <1>2, <2>1, <2>2
<1>4. Bytes(<<last>>) = last.bytes
  <2>1. [i \in DOMAIN <<last>> |-> <<last>>[i].bytes] = <<last.bytes>>
    BY DOMAIN <<last>> = 1 .. 1, DOMAIN <<last.bytes>> = 1 .. 1
  <2>2. <<last.bytes>> = Append(<<>>, last.bytes) /\ <<>> \in Seq(Nat) /\ last.bytes \in Nat
    BY <1>1 DEF Character
  <2>3. Total(Append(<<>>, last.bytes)) = Total(<<>>) + last.bytes
    BY <2>2, TotalAppend
  <2> QED BY <2>1, <2>2, <2>3, TotalEmpty DEF Bytes
<1> QED BY <1>1, <1>3, <1>4 DEF Character

(* The first elements of two joined sequences are those of the first one.  *)
LEMMA PrefixCut ==
  ASSUME NEW C, NEW s \in Seq(C), NEW t \in Seq(C)
  PROVE  SubSeq(s \o t, 1, Len(s)) = s
<1> DEFINE st == s \o t  c == SubSeq(st, 1, Len(s))
<1>1. Len(s) \in Nat /\ Len(t) \in Nat
  BY LenProperties
<1>2. \A i \in 1 .. Len(s) : st[i] = s[i]
  <2>1. \A i \in 1 .. Len(s) : i \in 1 .. Len(s) + Len(t) /\ i <= Len(s)
    BY <1>1
  <2>2. \A i \in 1 .. Len(s) + Len(t) : st[i] = IF i <= Len(s) THEN s[i] ELSE t[i - Len(s)]
    BY ConcatProperties
  <2> HIDE DEF st
  <2> QED BY <2>1, <2>2
<1> HIDE DEF st
<1>3. c \in Seq(C) /\ Len(c) = Len(s) /\ \A i \in 1 .. Len(s) : c[i] = st[i]
  <2>1. 1 \in Int /\ Len(s) \in Int /\ \A i \in 1 .. Len(s) : st[i] \in C
    BY <1>1, <1>2, ElementOfSeq
  <2>2. /\ c \in Seq(C) /\ Len(c) = (IF 1 <= Len(s) THEN Len(s) - 1 + 1 ELSE 0)
        /\ \A i \in 1 .. Len(s) - 1 + 1 : c[i] = st[1 + i - 1]
    BY <2>1, SubSeqProperties
  <2> HIDE DEF c
  <2> QED BY <1>1, <2>2
<1> HIDE DEF c
<1>4. c = s
  BY <1>2, <1>3, SeqEqual
<1> QED BY <1>4 DEF c, st

(* The bytes in front of a character tell where it is.                     *)
LEMMA BytesTellPlace ==
  ASSUME NEW C, NEW s \in Seq(C), NEW t \in Seq(C), \A c \in C : Character(c),
         NEW n \in 0 .. Len(s \o t), Bytes(SubSeq(s \o t, 1, n)) = Bytes(s)
  PROVE  n = Len(s)
<1> DEFINE st == s \o t  cut(m) == SubSeq(st, 1, m)
<1>1. /\ st \in Seq(C) /\ Len(st) = Len(s) + Len(t) /\ Len(s) \in Nat /\ Len(t) \in Nat
  BY ConcatProperties, LenProperties
<1>2. cut(Len(s)) = s
  BY PrefixCut
<1>3. ASSUME NEW i \in 0 .. Len(st), NEW j \in 0 .. Len(st), i < j
      PROVE  Bytes(cut(i)) \in Nat /\ Bytes(cut(j)) \in Nat /\ Bytes(cut(i)) < Bytes(cut(j))
  <2> DEFINE more == SubSeq(st, i + 1, j)
  <2>1. 1 \in 1 .. Len(st) + 1 /\ i \in 1 - 1 .. Len(st) /\ j \in i .. Len(st)
    BY <1>1, <1>3
  <2>2. cut(i) \o more = cut(j)
    BY <1>1, <2>1, ConcatAdjacentSubSeq
  <2>3. cut(i) \in Seq(C) /\ more \in Seq(C) /\ Len(more) # 0
    <3>1. \A k \in 1 .. Len(st) : st[k] \in C
      BY <1>1, ElementOfSeq
    <3>2. 1 \in Int /\ i \in Int /\ i + 1 \in Int /\ j \in Int /\ i + 1 <= j /\ j - (i + 1) + 1 # 0
          /\ \A k \in 1 .. i : k \in 1 .. Len(st) /\ \A m \in i + 1 .. j : m \in 1 .. Len(st)
      BY <1>1, <1>3
    <3> HIDE DEF st
    <3>3. cut(i) \in Seq(C)
      BY <3>1, <3>2, SubSeqProperties
    <3>4. \A m \in i + 1 .. j : st[m] \in C
      BY <1>1, <1>3, <3>1
    <3>5. more \in Seq(C) /\ Len(more) = IF i + 1 <= j THEN j - (i + 1) + 1 ELSE 0
      BY <3>2, <3>4, SubSeqProperties
    <3> QED BY <3>2, <3>3, <3>5
  <2> HIDE DEF more, cut
  <2>4. more # <<>>
    BY <2>3
  <2>5. Bytes(more) \in Nat \ {0}
    BY <2>3, <2>4, BytesPositive
  <2>6. Bytes(cut(i) \o more) = Bytes(cut(i)) + Bytes(more) /\ Bytes(cut(i)) \in Nat
    BY <2>3, WeightsCat
  <2> QED BY <2>2, <2>5, <2>6
<1>4. Bytes(cut(n)) = Bytes(cut(Len(s)))
  <2>1. Bytes(cut(n)) = Bytes(s)
    OBVIOUS
  <2> HIDE DEF cut
  <2> QED BY <1>2, <2>1
<1>5. n \in 0 .. Len(st) /\ Len(s) \in 0 .. Len(st)
  BY <1>1
<1> HIDE DEF cut, st
<1>6. ~(n < Len(s))
  BY <1>3, <1>4, <1>5
<1>7. ~(Len(s) < n)
  BY <1>3, <1>4, <1>5
<1> QED BY <1>1, <1>5, <1>6, <1>7

(* A statement broken into lines has the characters of the lines.          *)
LEMMA BrokenTyped ==
  ASSUME NEW C, NEW lines \in Seq(Seq(C))
  PROVE  /\ Broken(lines) \in Seq(Seq(C \cup {LineBreak})) /\ Len(Broken(lines)) = Len(lines)
         /\ \A i \in 1 .. Len(lines) : Broken(lines)[i] = Append(lines[i], LineBreak)
<1> DEFINE B == C \cup {LineBreak}
<1>1. DOMAIN lines = 1 .. Len(lines) /\ Len(lines) \in Nat /\ \A i \in 1 .. Len(lines) : lines[i] \in Seq(C)
  BY LenProperties, ElementOfSeq
<1>2. ASSUME NEW i \in 1 .. Len(lines) PROVE Append(lines[i], LineBreak) \in Seq(B)
  <2>1. lines[i] \in Seq(B) /\ LineBreak \in B
    BY <1>1, SeqMonotonic
  <2> HIDE DEF B
  <2> QED BY <2>1, AppendProperties
<1>3. Broken(lines) = [i \in 1 .. Len(lines) |-> Append(lines[i], LineBreak)]
  BY <1>1 DEF Broken
<1> HIDE DEF B
<1>4. Broken(lines) \in [1 .. Len(lines) -> Seq(B)]
  BY <1>2, <1>3
<1>5. \A n \in Nat : \A w \in [1 .. n -> Seq(B)] : w \in Seq(Seq(B)) /\ Len(w) = n
  OBVIOUS
<1>6. Broken(lines) \in Seq(Seq(B)) /\ Len(Broken(lines)) = Len(lines)
  BY <1>1, <1>4, <1>5
<1> QED BY <1>3, <1>6 DEF B

(* What is in front of a character is a prefix of the text.                *)
LEMMA UptoIsPrefix ==
  ASSUME NEW C, NEW lines \in Seq(Seq(C)), NEW l \in 1 .. Len(lines), NEW k \in 1 .. Len(lines[l])
  PROVE  LET B == C \cup {LineBreak}
             head == FlattenSeq(SubSeq(Broken(lines), 1, l - 1))
         IN /\ head \in Seq(B) /\ SubSeq(lines[l], 1, k - 1) \in Seq(B) /\ Upto(lines, l, 1) = head
            /\ Upto(lines, l, k) = head \o SubSeq(lines[l], 1, k - 1)
            /\ \E rest \in Seq(B) : FlattenSeq(Broken(lines)) = Upto(lines, l, k) \o rest
<1> DEFINE B == C \cup {LineBreak}
           seqs == Broken(lines)
           before == SubSeq(seqs, 1, l - 1)
           later == SubSeq(seqs, l, Len(seqs))
           head == FlattenSeq(before)
           line == lines[l]
           front == SubSeq(line, 1, k - 1)
           whole == Append(line, LineBreak)
           back == SubSeq(whole, k, Len(whole))
<1>1. /\ seqs \in Seq(Seq(B)) /\ Len(seqs) = Len(lines) /\ Len(lines) \in Nat
      /\ seqs[l] = whole /\ line \in Seq(C) /\ line \in Seq(B)
  <2>1. line \in Seq(C) /\ Len(lines) \in Nat
    BY ElementOfSeq, LenProperties
  <2>2. line \in Seq(B)
    BY <2>1, SeqMonotonic
  <2> QED BY <2>1, <2>2, BrokenTyped
<1>2. /\ whole \in Seq(B) /\ Len(whole) = Len(line) + 1 /\ Len(line) \in Nat
      /\ \A i \in 1 .. Len(line) : whole[i] = line[i]
  BY <1>1, AppendProperties, LenProperties
<1> HIDE DEF seqs, B, whole, line
<1>3. k \in 1 .. Len(line)
  BY DEF line
<1>4. before \in Seq(Seq(B)) /\ later \in Seq(Seq(B)) /\ later # <<>> /\ later[1] = whole
      /\ before \o later = seqs
  <2>1. /\ 1 \in 1 .. Len(seqs) + 1 /\ l - 1 \in 1 - 1 .. Len(seqs) /\ Len(seqs) \in l - 1 .. Len(seqs)
        /\ l - 1 + 1 = l /\ 1 \in Int /\ l - 1 \in Int /\ l \in Int /\ Len(seqs) \in Int
        /\ (\A i \in 1 .. l - 1 : i \in 1 .. Len(seqs)) /\ (\A i \in l .. Len(seqs) : i \in 1 .. Len(seqs))
    BY <1>1
  <2>2. \A i \in 1 .. Len(seqs) : seqs[i] \in Seq(B)
    BY <1>1, ElementOfSeq
  <2>3. before \in Seq(Seq(B))
    BY <2>1, <2>2, SubSeqProperties
  <2>4. /\ later \in Seq(Seq(B)) /\ Len(later) = (IF l <= Len(seqs) THEN Len(seqs) - l + 1 ELSE 0)
        /\ \A i \in 1 .. Len(seqs) - l + 1 : later[i] = seqs[l + i - 1]
    BY <2>1, <2>2, SubSeqProperties
  <2>5. SubSeq(seqs, 1, l - 1) \o SubSeq(seqs, l - 1 + 1, Len(seqs)) = SubSeq(seqs, 1, Len(seqs))
    BY <1>1, <2>1, ConcatAdjacentSubSeq
  <2>6. SubSeq(seqs, 1, Len(seqs)) = seqs
    BY <1>1, SubSeqFull
  <2>7. before \o later = seqs
    BY <2>1, <2>5, <2>6
  <2> HIDE DEF later
  <2>8. Len(later) # 0 /\ later[1] = seqs[l]
    <3>1. 1 \in 1 .. Len(seqs) - l + 1 /\ l + 1 - 1 = l /\ Len(seqs) - l + 1 # 0 /\ l <= Len(seqs)
      BY <1>1
    <3> QED BY <2>4, <3>1
  <2> QED BY <1>1, <2>3, <2>4, <2>7, <2>8
<1> HIDE DEF before, later
<1>5. /\ front \in Seq(B) /\ back \in Seq(B) /\ front \o back = whole
  <2>1. /\ 1 \in 1 .. Len(whole) + 1 /\ k - 1 \in 1 - 1 .. Len(whole) /\ Len(whole) \in k - 1 .. Len(whole)
        /\ k - 1 + 1 = k /\ 1 \in Int /\ k - 1 \in Int /\ k \in Int /\ Len(whole) \in Int
        /\ (\A i \in 1 .. k - 1 : i \in 1 .. Len(line)) /\ (\A i \in k .. Len(whole) : i \in 1 .. Len(whole))
        /\ (\A i \in 1 .. k - 1 : i \in 1 .. Len(whole))
    BY <1>2, <1>3
  <2>2. (\A i \in 1 .. Len(whole) : whole[i] \in B) /\ (\A i \in 1 .. Len(line) : line[i] \in B)
    BY <1>1, <1>2, ElementOfSeq
  <2>3. /\ front \in Seq(B) /\ Len(front) = (IF 1 <= k - 1 THEN k - 1 - 1 + 1 ELSE 0)
        /\ \A i \in 1 .. k - 1 - 1 + 1 : front[i] = line[1 + i - 1]
    BY <2>1, <2>2, SubSeqProperties
  <2> DEFINE same == SubSeq(whole, 1, k - 1)
  <2>4. /\ same \in Seq(B) /\ Len(same) = (IF 1 <= k - 1 THEN k - 1 - 1 + 1 ELSE 0)
        /\ \A i \in 1 .. k - 1 - 1 + 1 : same[i] = whole[1 + i - 1]
    BY <2>1, <2>2, SubSeqProperties
  <2>5. back \in Seq(B)
    BY <2>1, <2>2, SubSeqProperties
  <2>6. same \o SubSeq(whole, k - 1 + 1, Len(whole)) = SubSeq(whole, 1, Len(whole))
    BY <1>2, <2>1, ConcatAdjacentSubSeq
  <2>7. SubSeq(whole, 1, Len(whole)) = whole
    BY <1>2, SubSeqFull
  <2>8. same \o back = whole
    BY <2>1, <2>6, <2>7
  <2> HIDE DEF front, same, back
  <2>9. same = front
    <3>1. Len(same) = Len(front)
      BY <2>3, <2>4
    <3>2. ASSUME NEW i \in 1 .. Len(same) PROVE same[i] = front[i]
      <4>1. i \in 1 .. k - 1 - 1 + 1 /\ 1 + i - 1 = i /\ i \in 1 .. k - 1
        BY <2>1, <2>4
      <4>2. same[i] = whole[i] /\ front[i] = line[i]
        BY <2>3, <2>4, <4>1
      <4> QED BY <1>2, <2>1, <4>1, <4>2
    <3> QED BY <2>3, <2>4, <3>1, <3>2, SeqEqual
  <2> QED BY <2>3, <2>5, <2>8, <2>9
<1> HIDE DEF front, back
<1> DEFINE flat == FlattenSeq(Tail(later))
<1>6. flat \in Seq(B) /\ head \in Seq(B) /\ FlattenSeq(seqs) = head \o (whole \o flat)
  <2>1. Tail(later) \in Seq(Seq(B)) /\ later = <<whole>> \o Tail(later)
    BY <1>4, FirstRest
  <2>2. <<whole>> \in Seq(Seq(B))
    BY <1>2
  <2>3. FlattenSeq(later) = FlattenSeq(<<whole>>) \o flat
    BY <2>1, <2>2, FlattenCat
  <2>4. FlattenSeq(<<whole>>) = whole
    BY <1>2, FlattenOne
  <2>5. FlattenSeq(before \o later) = head \o FlattenSeq(later)
    BY <1>4, FlattenCat
  <2>6. head \in Seq(B) /\ flat \in Seq(B)
    BY <1>4, <2>1, FlattenType
  <2> HIDE DEF head, flat
  <2> QED BY <1>4, <2>3, <2>4, <2>5, <2>6
<1> HIDE DEF flat, head
<1>7. head \o ((front \o back) \o flat) = (head \o front) \o (back \o flat) /\ back \o flat \in Seq(B)
  <2>0. \A p, q, r \in Seq(B) : (p \o q) \o r = p \o (q \o r)
    BY ConcatAssociative
  <2>1. (front \o back) \o flat = front \o (back \o flat)
    BY <1>5, <1>6, <2>0, Zenon
  <2>2. back \o flat \in Seq(B)
    BY <1>5, <1>6, ConcatProperties
  <2> DEFINE rest == back \o flat
  <2> HIDE DEF rest
  <2>3. (head \o front) \o rest = head \o (front \o rest)
    BY <1>5, <1>6, <2>0, <2>2, Zenon DEF rest
  <2> QED BY <2>1, <2>2, <2>3 DEF rest
<1>8. Upto(lines, l, k) = head \o front
  BY DEF Upto, head, before, seqs, front, line
<1>9. Upto(lines, l, 1) = head
  <2>1. Upto(lines, l, 1) = head \o SubSeq(line, 1, 1 - 1)
    BY DEF Upto, head, before, seqs, line
  <2>2. SubSeq(line, 1, 1 - 1) = <<>>
    BY <1>1
  <2>3. head \o <<>> = head
    BY <1>6, ConcatEmptySeq
  <2> QED BY <2>1, <2>2, <2>3
<1>10. FlattenSeq(seqs) = Upto(lines, l, k) \o (back \o flat)
  BY <1>5, <1>6, <1>7, <1>8
<1> QED BY <1>5, <1>6, <1>7, <1>8, <1>9, <1>10 DEF head, before, seqs, front, line, B

(* The smaller of two numbers.                                             *)
LEMMA LeastOfTwo ==
  ASSUME NEW a \in Int, NEW b \in Int
  PROVE  Least({a, b}) \in {a, b} /\ Least({a, b}) <= a /\ Least({a, b}) <= b
<1>1. \E x \in {a, b} : \A y \in {a, b} : x <= y
  <2>1. CASE a <= b
    BY <2>1
  <2>2. CASE ~(a <= b)
    BY <2>2
  <2> QED BY <2>1, <2>2
<1> QED BY <1>1 DEF Least

(* An element below all others is the least.                               *)
LEMMA LeastIs ==
  ASSUME NEW S, S \subseteq Int, NEW x \in S, \A y \in S : x <= y
  PROVE  Least(S) = x
<1>1. \A z \in S : (\A y \in S : z <= y) => z = x
  <2> SUFFICES ASSUME NEW z \in S, \A y \in S : z <= y PROVE z = x
    OBVIOUS
  <2>1. z \in Int /\ x \in Int /\ z <= x /\ x <= z
    OBVIOUS
  <2> QED BY <2>1
<1> QED BY <1>1 DEF Least

FoundWhereTaken(line, start, end) ==
  LET excerpt == SubSeq(line, start, end)
      found == {i \in 1 .. Len(line) - Len(excerpt) + 1 :
                  SubSeq(line, i, i + Len(excerpt) - 1) = excerpt}
  IN \/ \E i \in 1 .. start - 1 : IsPrefix(excerpt, After(line, i - 1))
     \/ found # {} /\ Least(found) = start

(* The excerpt of a message is found where it was taken from, unless it    *)
(* also occurs further left.                                               *)
LEMMA ExcerptFound ==
  ASSUME NEW C, NEW line \in Seq(C), NEW start \in 1 .. Len(line), NEW end \in start .. Len(line)
  PROVE  FoundWhereTaken(line, start, end)
<1> DEFINE excerpt == SubSeq(line, start, end)
           L == Len(excerpt)
           found == {i \in 1 .. Len(line) - L + 1 : SubSeq(line, i, i + L - 1) = excerpt}
<1>0. Len(line) \in Nat /\ \A i \in 1 .. Len(line) : line[i] \in C
  BY LenProperties, ElementOfSeq
<1>1. excerpt \in Seq(C) /\ L = end - start + 1
  <2>1. start \in Int /\ end \in Int /\ start <= end /\ \A i \in start .. end : i \in 1 .. Len(line)
    BY <1>0
  <2>2. excerpt \in Seq(C) /\ L = IF start <= end THEN end - start + 1 ELSE 0
    BY <1>0, <2>1, SubSeqProperties
  <2> QED BY <2>1, <2>2
<1>2. start \in found
  <2>1. start \in 1 .. Len(line) - L + 1 /\ start + L - 1 = end
    BY <1>0, <1>1
  <2> QED BY <2>1
<1>3. ASSUME NEW i \in found, i < start PROVE i \in 1 .. start - 1 /\ IsPrefix(excerpt, After(line, i - 1))
  <2>1. /\ i \in 1 .. Len(line) - L + 1 /\ SubSeq(line, i, i + L - 1) = excerpt /\ L \in Nat
        /\ i \in 1 .. start - 1 /\ i - 1 \in 0 .. Len(line) /\ i + L - 1 <= Len(line)
    BY <1>0, <1>1, <1>3
  <2> DEFINE t == After(line, i - 1)
  <2>2. /\ t \in Seq(C) /\ Len(t) = Len(line) - (i - 1)
        /\ \A j \in 1 .. Len(line) - (i - 1) : t[j] = line[j + (i - 1)]
    BY <2>1, AfterIs
  <2> HIDE DEF t
  <2>3. L <= Len(t)
    BY <1>0, <2>1, <2>2
  <2> DEFINE c == SubSeq(t, 1, L)
  <2>4. /\ c \in Seq(C) /\ Len(c) = L /\ \A j \in 1 .. L : c[j] = t[j]
    <3>1. 1 \in Int /\ L \in Int /\ \A j \in 1 .. L : j \in 1 .. Len(t)
      BY <2>1, <2>3
    <3>2. \A j \in 1 .. Len(t) : t[j] \in C
      BY <2>2, ElementOfSeq
    <3>3. /\ c \in Seq(C) /\ Len(c) = (IF 1 <= L THEN L - 1 + 1 ELSE 0)
          /\ \A j \in 1 .. L - 1 + 1 : c[j] = t[1 + j - 1]
      BY <3>1, <3>2, SubSeqProperties
    <3> HIDE DEF c, excerpt
    <3> QED BY <2>1, <3>3
  <2>5. \A j \in 1 .. L : excerpt[j] = line[j + (i - 1)]
    <3>1. i \in Int /\ i + L - 1 \in Int /\ (\A j \in i .. i + L - 1 : j \in 1 .. Len(line)) /\ i + L - 1 - i + 1 = L
      BY <1>0, <2>1
    <3> DEFINE d == SubSeq(line, i, i + L - 1)
    <3>2. \A j \in 1 .. i + L - 1 - i + 1 : d[j] = line[i + j - 1]
      BY <1>0, <3>1, SubSeqProperties
    <3> HIDE DEF d
    <3>3. d = excerpt
      BY <2>1 DEF d
    <3>4. \A j \in 1 .. L : i + j - 1 = j + (i - 1)
      BY <2>1
    <3> QED BY <3>1, <3>2, <3>3, <3>4
  <2>6. c = excerpt
    <3> HIDE DEF c, excerpt
    <3>1. ASSUME NEW j \in 1 .. Len(c) PROVE c[j] = excerpt[j]
      <4>1. j \in 1 .. L /\ j \in 1 .. Len(line) - (i - 1)
        BY <2>2, <2>3, <2>4, <1>0, <2>1
      <4> QED BY <2>2, <2>4, <2>5, <4>1
    <3> QED BY <1>1, <2>4, <3>1, SeqEqual
  <2>7. SubSeq(excerpt, 1, L) = excerpt
    BY <1>1, SubSeqFull
  <2> QED BY <2>1, <2>3, <2>6, <2>7 DEF IsPrefix, t
<1>4. found \subseteq Int
  OBVIOUS
<1> HIDE DEF found
<1>5. ASSUME \A i \in found : start <= i PROVE found # {} /\ Least(found) = start
  <2>1. Least(found) = start
    BY <1>2, <1>4, <1>5, LeastIs
  <2> QED BY <1>2, <2>1
<1>6. ASSUME ~(\A i \in found : start <= i)
      PROVE  \E i \in 1 .. start - 1 : IsPrefix(excerpt, After(line, i - 1))
  <2>1. PICK i \in found : ~(start <= i)
    BY <1>6
  <2>2. i < start
    BY <1>4, <2>1
  <2> QED BY <1>3, <2>2
<1>7. (found # {} /\ Least(found) = start) \/ \E i \in 1 .. start - 1 : IsPrefix(excerpt, After(line, i - 1))
  BY <1>5, <1>6
<1> QED BY <1>7 DEF FoundWhereTaken, found

(* An error is underlined where it was found.                              *)
LEMMA ErrorMarked ==
  ASSUME NEW C, \A c \in C : Character(c), NEW lines \in Seq(Seq(C)), NEW lead \in Nat,
         WindowWidth \in Nat, NEW l \in 1 .. Len(lines), NEW k \in 1 .. Len(lines[l]),
         NEW start \in 1 .. k, k < start + WindowWidth
  PROVE  LET message == Message(lines, l, k, start)
             offset == problem(lines, lead, duckdb_error_offset(lines, message))
             repeated == \E i \in 1 .. start - 1 : IsPrefix(message.excerpt, After(lines[l], i - 1))
         IN repeated \/ offset = lead + Units(Upto(lines, l, k))
<1> DEFINE line == lines[l]
           end == Least({start + WindowWidth - 1, Len(line)})
           excerpt == SubSeq(line, start, end)
           message == Message(lines, l, k, start)
           found == {i \in 1 .. Len(line) - Len(excerpt) + 1 :
                       SubSeq(line, i, i + Len(excerpt) - 1) = excerpt}
           B == C \cup {LineBreak}
           upto == Upto(lines, l, k)
           front == SubSeq(line, 1, k - 1)
           head == Upto(lines, l, 1)
           text == FlattenSeq(Broken(lines))
<1>0. line \in Seq(C) /\ Len(line) \in Nat
  <2>1. line \in Seq(C)
    BY ElementOfSeq
  <2> HIDE DEF line
  <2> QED BY <2>1, LenProperties
<1>c. \A c \in B : Character(c)
  BY DEF Character, LineBreak
<1>1. start \in 1 .. Len(line) /\ end \in start .. Len(line)
  <2>1. start + WindowWidth - 1 \in Int /\ Len(line) \in Int
    BY <1>0
  <2> HIDE DEF line
  <2>2. /\ end \in {start + WindowWidth - 1, Len(line)} /\ end <= start + WindowWidth - 1
        /\ end <= Len(line)
    BY <2>1, LeastOfTwo
  <2> HIDE DEF end
  <2>3. k \in 1 .. Len(line)
    BY DEF line
  <2> QED BY <1>0, <2>2, <2>3
<1>2. /\ message.line = l /\ message.excerpt = excerpt /\ (message.elided <=> start > 1)
      /\ message.caret = k - start + (IF start > 1 THEN 3 ELSE 0)
  BY DEF Message
<1>3. \/ \E i \in 1 .. start - 1 : IsPrefix(excerpt, After(line, i - 1))
      \/ found # {} /\ Least(found) = start
  <2>1. FoundWhereTaken(line, start, end)
    <3> HIDE DEF line, end
    <3> QED BY <1>0, <1>1, ExcerptFound
  <2> QED BY <2>1 DEF FoundWhereTaken
<1>4. CASE found # {} /\ Least(found) = start
  <2>1. duckdb_error_offset(lines, message) = Bytes(head) + CaretInChars(line, start, k - start)
    <3> DEFINE column == message.caret - (IF message.elided THEN 3 ELSE 0)
    <3>1. column = k - start /\ ~(column < 0)
      <4> HIDE DEF message
      <4>1. column = k - start + (IF start > 1 THEN 3 ELSE 0) - (IF start > 1 THEN 3 ELSE 0)
        BY <1>2
      <4>2. start \in Int /\ k \in Int /\ start <= k
        OBVIOUS
      <4>3. \A a, b \in Int : b <= a => a - b + 3 - 3 = a - b /\ a - b + 0 - 0 = a - b /\ ~(a - b < 0)
        OBVIOUS
      <4> HIDE DEF column
      <4> QED BY <4>1, <4>2, <4>3
    <3>2. duckdb_error_offset(lines, message) =
            IF found = {} \/ column < 0 THEN NoOffset
            ELSE Bytes(Upto(lines, message.line, 1)) + CaretInChars(line, Least(found), column)
      <4> HIDE DEF message
      <4> QED BY <1>2 DEF duckdb_error_offset
    <3> HIDE DEF column, message, found
    <3> QED BY <1>2, <1>4, <3>1, <3>2
  <2>2. CaretInChars(line, start, k - start) = Bytes(front)
    <3>1. start - 1 + (k - start) = k - 1
      OBVIOUS
    <3> QED BY <3>1 DEF CaretInChars
  <2>3. /\ head \in Seq(B) /\ front \in Seq(B) /\ upto = head \o front
        /\ \E rest \in Seq(B) : text = upto \o rest
    <3> HIDE DEF upto, text
    <3>1. /\ FlattenSeq(SubSeq(Broken(lines), 1, l - 1)) \in Seq(B) /\ front \in Seq(B)
          /\ head = FlattenSeq(SubSeq(Broken(lines), 1, l - 1))
          /\ upto = FlattenSeq(SubSeq(Broken(lines), 1, l - 1)) \o front
          /\ \E rest \in Seq(B) : text = upto \o rest
      BY UptoIsPrefix DEF upto, text
    <3> HIDE DEF head, front, B
    <3> QED BY <3>1
  <2> DEFINE offset == duckdb_error_offset(lines, message)
  <2> HIDE DEF offset, message, upto, front, head, text, B, line
  <2>4. Bytes(upto) = Bytes(head) + Bytes(front) /\ Bytes(upto) \in Nat /\ upto \in Seq(B)
    <3>1. head \o front \in Seq(B)
      BY <2>3, ConcatProperties
    <3>2. Bytes(head \o front) = Bytes(head) + Bytes(front)
      BY <1>c, <2>3, WeightsCat
    <3>3. upto \in Seq(B)
      BY <2>3, <3>1
    <3>4. Bytes(upto) \in Nat
      BY <1>c, <3>3, WeightsCat
    <3> QED BY <2>3, <3>2, <3>3, <3>4
  <2>5. offset = Bytes(upto)
    BY <2>1, <2>2, <2>4 DEF offset
  <2> DEFINE prefix == {n \in 0 .. Len(text) : Bytes(SubSeq(text, 1, n)) = offset}
  <2>6. PICK rest \in Seq(B) : text = upto \o rest
    BY <2>3
  <2>7. Len(upto) \in 0 .. Len(text) /\ SubSeq(text, 1, Len(upto)) = upto
    <3>1. Len(upto \o rest) = Len(upto) + Len(rest) /\ Len(upto) \in Nat /\ Len(rest) \in Nat
      BY <2>4, ConcatProperties, LenProperties
    <3>2. SubSeq(upto \o rest, 1, Len(upto)) = upto
      BY <2>4, PrefixCut
    <3>3. Len(text) = Len(upto) + Len(rest)
      BY <2>6, <3>1
    <3> QED BY <2>6, <3>1, <3>2, <3>3
  <2>8. \A n \in prefix : n = Len(upto)
    <3> SUFFICES ASSUME NEW n \in prefix PROVE n = Len(upto)
      OBVIOUS
    <3>1. n \in 0 .. Len(upto \o rest) /\ Bytes(SubSeq(upto \o rest, 1, n)) = Bytes(upto)
      BY <2>5, <2>6
    <3> QED BY <1>c, <2>4, <3>1, BytesTellPlace
  <2>9. Len(upto) \in prefix /\ Least(prefix) = Len(upto)
    <3>1. Len(upto) \in prefix
      BY <2>5, <2>7
    <3>2. Len(upto) \in Int /\ Len(upto) <= Len(upto)
      BY <2>7
    <3> HIDE DEF prefix
    <3>3. prefix \subseteq Int
      BY <2>8, <3>2
    <3>4. \A y \in prefix : Len(upto) <= y
      BY <2>8, <3>2
    <3> QED BY <3>1, <3>3, <3>4, LeastIs
  <2>10. problem(lines, lead, offset) =
           IF offset = NoOffset \/ prefix = {} THEN NoOffset
           ELSE lead + Units(SubSeq(text, 1, Least(prefix)))
    BY DEF problem, text
  <2>11. offset # NoOffset
    BY <2>4, <2>5 DEF NoOffset
  <2> HIDE DEF prefix
  <2>12. problem(lines, lead, offset) = lead + Units(upto)
    BY <2>7, <2>9, <2>10, <2>11
  <2> QED BY <2>12 DEF offset, message, upto
<1>5. CASE \E i \in 1 .. start - 1 : IsPrefix(excerpt, After(line, i - 1))
  <2> HIDE DEF message, excerpt
  <2>1. \E i \in 1 .. start - 1 : IsPrefix(message.excerpt, After(lines[l], i - 1))
    BY <1>2, <1>5
  <2> QED BY <2>1 DEF message
<1> QED BY <1>3, <1>4, <1>5

---------------------------------------------------------------------------
(* A REAL as text, and read again.                                         *)

Digits == 0 .. 9
DigitSet == {"0", "1", "2", "3", "4", "5", "6", "7", "8", "9"}

(* A digit is read from its character.                                     *)
LEMMA DigitRead ==
  ASSUME NEW d \in Digits
  PROVE  DigitChars[d + 1] \in DigitSet /\ DigitOf(DigitChars[d + 1]) = d
<1>1. d \in 0 .. 9
  BY DEF Digits
<1>2. DigitChars[d + 1] \in DigitSet
  BY <1>1 DEF DigitChars, DigitSet
<1>3. \A c \in 0 .. 9 : DigitChars[c + 1] = DigitChars[d + 1] => c = d
  BY <1>1 DEF DigitChars
<1> QED BY <1>1, <1>2, <1>3 DEF DigitOf

(* The digits are no other characters of a decimal.                        *)
LEMMA CharsApart ==
  /\ "." \notin DigitSet /\ "e" \notin DigitSet /\ "-" \notin DigitSet /\ "+" # "-" /\ "." # "e"
  /\ DigitOf("0") = 0 /\ "0" \in DigitSet
<1>1. /\ "." \notin DigitSet /\ "e" \notin DigitSet /\ "-" \notin DigitSet /\ "+" # "-" /\ "." # "e"
      /\ "0" \in DigitSet
  BY DEF DigitSet
<1>2. DigitChars[0 + 1] = "0" /\ 0 \in Digits
  BY DEF DigitChars, Digits
<1> QED BY <1>1, <1>2, DigitRead

(* A digit is shown for each digit.                                        *)
LEMMA ShownTyped ==
  ASSUME NEW ds \in Seq(Digits)
  PROVE  /\ Shown(ds) \in Seq(DigitSet) /\ Len(Shown(ds)) = Len(ds)
         /\ \A i \in 1 .. Len(ds) : Shown(ds)[i] = DigitChars[ds[i] + 1] /\ DigitOf(Shown(ds)[i]) = ds[i]
<1>1. DOMAIN ds = 1 .. Len(ds) /\ Len(ds) \in Nat /\ \A i \in 1 .. Len(ds) : ds[i] \in Digits
  BY LenProperties, ElementOfSeq
<1>2. Shown(ds) = [i \in 1 .. Len(ds) |-> DigitChars[ds[i] + 1]]
  BY <1>1 DEF Shown
<1>3. Shown(ds) \in [1 .. Len(ds) -> DigitSet]
  BY <1>1, <1>2, DigitRead
<1>4. \A n \in Nat : \A w \in [1 .. n -> DigitSet] : w \in Seq(DigitSet) /\ Len(w) = n
  OBVIOUS
<1>5. Shown(ds) \in Seq(DigitSet) /\ Len(Shown(ds)) = Len(ds)
  BY <1>1, <1>3, <1>4
<1> QED BY <1>1, <1>2, <1>5, DigitRead

(* As many zeros as asked for.                                             *)
LEMMA ZerosTyped ==
  ASSUME NEW n \in Nat
  PROVE  Zeros(n) \in Seq(DigitSet) /\ Len(Zeros(n)) = n /\ \A i \in 1 .. n : Zeros(n)[i] = "0"
<1>1. Zeros(n) \in [1 .. n -> DigitSet]
  BY CharsApart DEF Zeros
<1>2. \A w \in [1 .. n -> DigitSet] : w \in Seq(DigitSet) /\ Len(w) = n
  OBVIOUS
<1> QED BY <1>1, <1>2 DEF Zeros

(* The digits of a decimal, the point left out: p zeros, the digits of the *)
(* number, and zeros again.                                                *)
PaddedAt(chars, p, i) == IF p < i /\ i <= p + Len(chars) THEN chars[i - p] ELSE "0"
Padded(whole, fraction, chars, p) ==
  /\ whole \in Seq(DigitSet) /\ fraction \in Seq(DigitSet) /\ Len(whole) >= 1 /\ p \in Nat
  /\ p + Len(chars) <= Len(whole) + Len(fraction)
  /\ \A i \in 1 .. Len(whole) : whole[i] = PaddedAt(chars, p, i)
  /\ \A i \in 1 .. Len(fraction) : fraction[i] = PaddedAt(chars, p, Len(whole) + i)

MantissaSet == DigitSet \cup {"."}

(* The characters of a decimal, and its point.                             *)
LEMMA PointedIs ==
  ASSUME NEW whole \in Seq(DigitSet), NEW fraction \in Seq(DigitSet)
  PROVE  LET m == Pointed(whole, fraction)
         IN /\ m \in Seq(MantissaSet) /\ Len(m) = Len(whole) + 1 + Len(fraction)
            /\ \A i \in 1 .. Len(whole) : m[i] = whole[i]
            /\ m[Len(whole) + 1] = "."
            /\ \A i \in 1 .. Len(fraction) : m[Len(whole) + 1 + i] = fraction[i]
<1> DEFINE wp == whole \o <<".">>  m == wp \o fraction
<1>1. /\ whole \in Seq(MantissaSet) /\ fraction \in Seq(MantissaSet) /\ <<".">> \in Seq(MantissaSet)
      /\ Len(whole) \in Nat /\ Len(fraction) \in Nat /\ Len(<<".">>) = 1
  <2>1. DigitSet \subseteq MantissaSet /\ "." \in MantissaSet
    BY DEF MantissaSet
  <2>2. whole \in Seq(MantissaSet) /\ fraction \in Seq(MantissaSet)
    BY <2>1, SeqMonotonic
  <2> QED BY <2>1, <2>2, LenProperties
<1>2. /\ wp \in Seq(MantissaSet) /\ Len(wp) = Len(whole) + Len(<<".">>)
      /\ \A i \in 1 .. Len(whole) + Len(<<".">>) : wp[i] = IF i <= Len(whole) THEN whole[i] ELSE <<".">>[i - Len(whole)]
  BY <1>1, ConcatProperties
<1> HIDE DEF wp
<1>3. /\ wp \in Seq(MantissaSet) /\ Len(wp) = Len(whole) + 1
      /\ \A i \in 1 .. Len(whole) : wp[i] = whole[i]
      /\ wp[Len(whole) + 1] = "."
  <2>1. \A i \in 1 .. Len(whole) : i \in 1 .. Len(whole) + 1 /\ i <= Len(whole)
    BY <1>1
  <2>2. Len(whole) + 1 \in 1 .. Len(whole) + 1 /\ ~(Len(whole) + 1 <= Len(whole))
        /\ Len(whole) + 1 - Len(whole) = 1
    BY <1>1
  <2>3. wp[Len(whole) + 1] = <<".">>[1]
    BY <1>1, <1>2, <2>2
  <2> QED BY <1>1, <1>2, <2>1, <2>3
<1>4. /\ m \in Seq(MantissaSet) /\ Len(m) = Len(wp) + Len(fraction)
      /\ \A i \in 1 .. Len(wp) + Len(fraction) : m[i] = IF i <= Len(wp) THEN wp[i] ELSE fraction[i - Len(wp)]
  BY <1>1, <1>3, ConcatProperties
<1> HIDE DEF m
<1>5. \A i \in 1 .. Len(whole) + 1 : m[i] = wp[i]
  <2>1. \A i \in 1 .. Len(whole) + 1 : i \in 1 .. Len(wp) + Len(fraction) /\ i <= Len(wp)
    BY <1>1, <1>3
  <2> QED BY <1>4, <2>1
<1>6. ASSUME NEW i \in 1 .. Len(fraction) PROVE m[Len(whole) + 1 + i] = fraction[i]
  <2>1. /\ Len(whole) + 1 + i \in 1 .. Len(wp) + Len(fraction) /\ ~(Len(whole) + 1 + i <= Len(wp))
        /\ Len(whole) + 1 + i - Len(wp) = i
    BY <1>1, <1>3
  <2>2. m[Len(whole) + 1 + i] = fraction[Len(whole) + 1 + i - Len(wp)]
    BY <1>4, <2>1
  <2> QED BY <2>1, <2>2
<1>7. /\ \A i \in 1 .. Len(whole) : m[i] = whole[i]
      /\ m[Len(whole) + 1] = "."
  <2>1. \A i \in 1 .. Len(whole) : i \in 1 .. Len(whole) + 1
    BY <1>1
  <2>2. Len(whole) + 1 \in 1 .. Len(whole) + 1
    BY <1>1
  <2> QED BY <1>3, <1>5, <2>1, <2>2
<1>8. Len(m) = Len(whole) + 1 + Len(fraction)
  BY <1>3, <1>4
<1>9. m = Pointed(whole, fraction)
  BY DEF m, wp, Pointed
<1> HIDE DEF m
<1> QED BY <1>4, <1>6, <1>7, <1>8, <1>9

(* An element above all others is the greatest.                            *)
LEMMA GreatestIs ==
  ASSUME NEW S, S \subseteq Int, NEW x \in S, \A y \in S : y <= x
  PROVE  Greatest(S) = x
<1>1. \A z \in S : (\A y \in S : z >= y) => z = x
  <2> SUFFICES ASSUME NEW z \in S, \A y \in S : z >= y PROVE z = x
    OBVIOUS
  <2>1. z \in Int /\ x \in Int /\ z <= x /\ x <= z
    OBVIOUS
  <2> QED BY <2>1
<1>2. \A y \in S : x >= y
  OBVIOUS
<1> QED BY <1>1, <1>2 DEF Greatest

(* The point stands behind the whole part.                                 *)
LEMMA PointFound ==
  ASSUME NEW whole \in Seq(DigitSet), NEW fraction \in Seq(DigitSet)
  PROVE  Least(Where(Pointed(whole, fraction), {"."})) = Len(whole) + 1
<1> DEFINE m == Pointed(whole, fraction)  W == Where(m, {"."})
<1>0. Len(whole) \in Nat /\ Len(fraction) \in Nat
  BY LenProperties
<1>1. /\ m \in Seq(MantissaSet) /\ Len(m) = Len(whole) + 1 + Len(fraction)
      /\ \A i \in 1 .. Len(whole) : m[i] = whole[i]
      /\ m[Len(whole) + 1] = "."
  BY PointedIs
<1> HIDE DEF m
<1>2. DOMAIN m = 1 .. Len(m)
  BY <1>1, LenProperties
<1>3. Len(whole) + 1 \in W /\ W \subseteq Int
  <2>1. Len(whole) + 1 \in 1 .. Len(m) /\ 1 .. Len(m) \subseteq Int
    BY <1>0, <1>1
  <2> QED BY <1>1, <1>2, <2>1 DEF Where
<1>4. \A y \in W : Len(whole) + 1 <= y
  <2> SUFFICES ASSUME NEW y \in W, y < Len(whole) + 1 PROVE FALSE
    BY <1>0, <1>3
  <2>1. y \in 1 .. Len(m) /\ m[y] = "."
    BY <1>2 DEF Where
  <2>2. y \in 1 .. Len(whole)
    BY <1>0, <2>1
  <2>3. whole[y] \in DigitSet
    BY <2>2, ElementOfSeq
  <2> QED BY <1>1, <2>1, <2>2, <2>3, CharsApart
<1> HIDE DEF W
<1>5. Least(W) = Len(whole) + 1
  BY <1>3, <1>4, LeastIs
<1> QED BY <1>5 DEF W, m

(* The digits that are read: those of the number between zeros.            *)
LEMMA DigitsRead ==
  ASSUME NEW whole, NEW fraction, NEW ds \in Seq(Digits), NEW p, Padded(whole, fraction, Shown(ds), p),
         NEW i \in 1 .. Len(whole) + Len(fraction)
  PROVE  DigitOf(IF i < Len(whole) + 1 THEN Pointed(whole, fraction)[i] ELSE Pointed(whole, fraction)[i + 1])
           = IF p < i /\ i <= p + Len(ds) THEN ds[i - p] ELSE 0
<1> DEFINE m == Pointed(whole, fraction)  chars == Shown(ds)
<1>0. /\ whole \in Seq(DigitSet) /\ fraction \in Seq(DigitSet) /\ p \in Nat
      /\ Len(whole) \in Nat /\ Len(fraction) \in Nat /\ Len(ds) \in Nat
  BY LenProperties DEF Padded
<1>1. /\ \A j \in 1 .. Len(whole) : m[j] = whole[j]
      /\ \A j \in 1 .. Len(fraction) : m[Len(whole) + 1 + j] = fraction[j]
  BY <1>0, PointedIs
<1> HIDE DEF m
<1>2. /\ \A j \in 1 .. Len(whole) : whole[j] = PaddedAt(chars, p, j)
      /\ \A j \in 1 .. Len(fraction) : fraction[j] = PaddedAt(chars, p, Len(whole) + j)
  BY DEF Padded
<1>3. DigitOf(PaddedAt(chars, p, i)) = IF p < i /\ i <= p + Len(ds) THEN ds[i - p] ELSE 0
  <2>0. Len(chars) = Len(ds)
    BY ShownTyped
  <2>1. CASE p < i /\ i <= p + Len(ds)
    <3>1. i - p \in 1 .. Len(ds)
      BY <1>0, <2>1
    <3>2. DigitOf(chars[i - p]) = ds[i - p]
      BY <3>1, ShownTyped
    <3> QED BY <2>0, <2>1, <3>2 DEF PaddedAt
  <2>2. CASE ~(p < i /\ i <= p + Len(ds))
    BY <2>0, <2>2, CharsApart DEF PaddedAt
  <2> QED BY <2>1, <2>2
<1> HIDE DEF chars
<1>4. CASE i < Len(whole) + 1
  <2>1. i \in 1 .. Len(whole)
    BY <1>0, <1>4
  <2>2. m[i] = PaddedAt(chars, p, i)
    BY <1>1, <1>2, <2>1
  <2> QED BY <1>3, <1>4, <2>2 DEF m
<1>5. CASE ~(i < Len(whole) + 1)
  <2> DEFINE j == i - Len(whole)
  <2>1. j \in 1 .. Len(fraction) /\ Len(whole) + 1 + j = i + 1 /\ Len(whole) + j = i
    BY <1>0, <1>5
  <2> HIDE DEF j
  <2>2. m[Len(whole) + 1 + j] = PaddedAt(chars, p, Len(whole) + j)
    BY <1>1, <1>2, <2>1
  <2>3. m[i + 1] = PaddedAt(chars, p, i)
    BY <2>1, <2>2
  <2> QED BY <1>3, <1>5, <2>3 DEF m
<1> QED BY <1>4, <1>5

(* What stands in a sequence from a place on is its part there.            *)
LEMMA PartIs ==
  ASSUME NEW S, NEW s, NEW m \in Nat, NEW part \in Seq(S), \A i \in 1 .. Len(part) : s[m + i] = part[i]
  PROVE  SubSeq(s, m + 1, m + Len(part)) = part
<1> DEFINE n == Len(part)  first == m + 1  last == m + n  read == SubSeq(s, first, last)
<1>0. n \in Nat /\ \A i \in 1 .. n : part[i] \in S
  BY LenProperties, ElementOfSeq
<1>1. /\ first \in Int /\ last \in Int /\ last - first + 1 = n /\ (IF first <= last THEN n ELSE 0) = n
  BY <1>0
<1>2. ASSUME NEW i \in first .. last PROVE s[i] \in S
  <2> DEFINE j == i - m
  <2>1. j \in 1 .. n /\ m + j = i
    BY <1>0
  <2> HIDE DEF j
  <2>2. s[m + j] = part[j] /\ part[j] \in S
    BY <1>0, <2>1
  <2> QED BY <2>1, <2>2
<1>3. ASSUME NEW i \in 1 .. n PROVE first + i - 1 = m + i
  BY <1>0
<1>4. \A i \in 1 .. n : s[m + i] = part[i]
  OBVIOUS
<1> HIDE DEF first, last, n
<1>5. /\ read \in Seq(S) /\ Len(read) = IF first <= last THEN last - first + 1 ELSE 0
      /\ \A i \in 1 .. last - first + 1 : read[i] = s[first + i - 1]
  BY <1>1, <1>2, SubSeqProperties
<1> HIDE DEF read
<1>6. read \in Seq(S) /\ Len(read) = n /\ \A i \in 1 .. n : read[i] = s[m + i]
  BY <1>1, <1>3, <1>5
<1>7. Len(part) = n
  BY DEF n
<1>8. read = part
  BY <1>4, <1>6, <1>7, SeqEqual
<1> QED BY <1>8 DEF read, first, last, n

(* A decimal denotes the digits between its zeros.                         *)
LEMMA ValueRead ==
  ASSUME NEW whole, NEW fraction, NEW ds \in Seq(Digits), NEW p, Padded(whole, fraction, Shown(ds), p),
         ds # <<>> => ds[1] # 0 /\ ds[Len(ds)] # 0
  PROVE  ValueOf(Pointed(whole, fraction)) =
           IF ds = <<>> THEN [digits |-> <<>>, exponent |-> 0]
           ELSE [digits |-> ds, exponent |-> Len(whole) - p - 1]
<1> DEFINE m == Pointed(whole, fraction)  N == Len(whole) + Len(fraction)
           point == Least(Where(m, {"."}))
           digits == [i \in 1 .. Len(m) - 1 |-> DigitOf(IF i < point THEN m[i] ELSE m[i + 1])]
           nonzero == {i \in DOMAIN digits : digits[i] # 0}
<1>0. /\ whole \in Seq(DigitSet) /\ fraction \in Seq(DigitSet) /\ p \in Nat
      /\ Len(whole) \in Nat /\ Len(fraction) \in Nat /\ Len(ds) \in Nat /\ N \in Nat
      /\ p + Len(ds) <= N
  <2>1. Len(Shown(ds)) = Len(ds)
    BY ShownTyped
  <2>2. whole \in Seq(DigitSet) /\ fraction \in Seq(DigitSet) /\ p \in Nat /\ p + Len(Shown(ds)) <= N
    BY DEF Padded
  <2> QED BY <2>1, <2>2, LenProperties
<1>1. point = Len(whole) + 1
  BY <1>0, PointFound
<1>2. Len(m) - 1 = N
  <2>1. Len(m) = Len(whole) + 1 + Len(fraction)
    BY <1>0, PointedIs
  <2> QED BY <1>0, <2>1
<1>3. \A i \in 1 .. N : DigitOf(IF i < point THEN m[i] ELSE m[i + 1])
                          = IF p < i /\ i <= p + Len(ds) THEN ds[i - p] ELSE 0
  BY <1>1, DigitsRead
<1>v. ValueOf(m) = IF nonzero = {} THEN [digits |-> <<>>, exponent |-> 0]
                   ELSE [digits |-> SubSeq(digits, Least(nonzero), Greatest(nonzero)),
                         exponent |-> point - 1 - Least(nonzero)]
  BY DEF ValueOf
<1>4. /\ DOMAIN digits = 1 .. N
      /\ \A i \in 1 .. N : digits[i] = IF p < i /\ i <= p + Len(ds) THEN ds[i - p] ELSE 0
  <2> HIDE DEF m, point, N
  <2> QED BY <1>2, <1>3
<1> HIDE DEF digits, m, point
<1>5. nonzero = {i \in 1 .. N : p < i /\ i <= p + Len(ds) /\ ds[i - p] # 0}
  BY <1>4
<1> HIDE DEF nonzero
<1>6. CASE ds = <<>>
  <2>1. Len(ds) = 0
    BY <1>6
  <2>2. nonzero = {}
    BY <1>0, <1>5, <2>1
  <2> QED BY <1>6, <1>v, <2>2 DEF m
<1>7. CASE ds # <<>>
  <2>1. Len(ds) >= 1 /\ ds[1] # 0 /\ ds[Len(ds)] # 0
    BY <1>0, <1>7
  <2> DEFINE first == p + 1  last == p + Len(ds)
  <2>r. /\ first \in 1 .. N /\ p < first /\ first <= p + Len(ds) /\ first - p = 1
        /\ last \in 1 .. N /\ p < last /\ last <= p + Len(ds) /\ last - p = Len(ds)
    BY <1>0, <2>1
  <2>2. first \in nonzero /\ last \in nonzero
    <3> HIDE DEF N, first, last
    <3>1. ds[first - p] # 0 /\ ds[last - p] # 0
      BY <2>1, <2>r
    <3> QED BY <1>5, <2>r, <3>1
  <2>3. nonzero \subseteq Int /\ \A y \in nonzero : p + 1 <= y /\ y <= p + Len(ds)
    <3>1. \A y \in 1 .. N : y \in Int /\ (p < y => p + 1 <= y)
      BY <1>0
    <3> QED BY <1>5, <3>1
  <2>4. Least(nonzero) = p + 1
    BY <2>2, <2>3, LeastIs
  <2>5. Greatest(nonzero) = p + Len(ds)
    BY <2>2, <2>3, GreatestIs
  <2>6. SubSeq(digits, p + 1, p + Len(ds)) = ds
    <3>1. ASSUME NEW i \in 1 .. Len(ds) PROVE digits[p + i] = ds[i]
      <4> DEFINE k == p + i
      <4>1. k \in 1 .. N /\ p < k /\ k <= p + Len(ds) /\ k - p = i
        BY <1>0
      <4> HIDE DEF N, k
      <4>2. digits[k] = ds[i]
        BY <1>4, <4>1
      <4> QED BY <4>2 DEF k
    <3> QED BY <1>0, <3>1, PartIs
  <2>7. point - 1 - Least(nonzero) = Len(whole) - p - 1
    BY <1>0, <1>1, <2>4
  <2>8. ValueOf(m) = [digits |-> ds, exponent |-> Len(whole) - p - 1]
    <3>1. SubSeq(digits, Least(nonzero), Greatest(nonzero)) = ds
      BY <2>4, <2>5, <2>6
    <3> QED BY <1>v, <2>2, <2>7, <3>1
  <2> QED BY <1>7, <2>8 DEF m
<1> QED BY <1>6, <1>7

(* The elements of two sequences joined.                                   *)
Joins(pq, p, q) ==
  /\ Len(pq) = Len(p) + Len(q)
  /\ \A i \in 1 .. Len(p) : pq[i] = p[i]
  /\ \A i \in 1 .. Len(q) : pq[Len(p) + i] = q[i]

(* Joining two sequences does so.                                          *)
LEMMA JoinedIs ==
  ASSUME NEW X, NEW p \in Seq(X), NEW q \in Seq(X)
  PROVE  p \o q \in Seq(X) /\ Joins(p \o q, p, q)
<1> DEFINE pq == p \o q
<1>1. /\ pq \in Seq(X) /\ Len(pq) = Len(p) + Len(q)
      /\ \A i \in 1 .. Len(p) + Len(q) : pq[i] = IF i <= Len(p) THEN p[i] ELSE q[i - Len(p)]
  BY ConcatProperties
<1> HIDE DEF pq
<1>2. Len(p) \in Nat /\ Len(q) \in Nat
  BY LenProperties
<1>3. \A i \in 1 .. Len(p) : pq[i] = p[i]
  <2>1. \A i \in 1 .. Len(p) : i \in 1 .. Len(p) + Len(q) /\ i <= Len(p)
    BY <1>2
  <2> QED BY <1>1, <2>1
<1>4. ASSUME NEW i \in 1 .. Len(q) PROVE pq[Len(p) + i] = q[i]
  <2> DEFINE j == Len(p) + i
  <2>1. j \in 1 .. Len(p) + Len(q) /\ ~(j <= Len(p)) /\ j - Len(p) = i
    BY <1>2
  <2> HIDE DEF j
  <2>2. pq[j] = q[j - Len(p)]
    BY <1>1, <2>1
  <2> QED BY <2>1, <2>2 DEF j
<1>5. pq \in Seq(X) /\ Joins(pq, p, q)
  BY <1>1, <1>3, <1>4 DEF Joins
<1> QED BY <1>5 DEF pq

(* Up to 16 digits before the point: the digits and zeros behind them.     *)
LEMMA WholePadded ==
  ASSUME NEW ds \in Seq(Digits), NEW n \in Nat, Len(ds) + n >= 1
  PROVE  /\ Padded(Shown(ds) \o Zeros(n), <<"0">>, Shown(ds), 0)
         /\ Len(Shown(ds) \o Zeros(n)) = Len(ds) + n
<1> DEFINE chars == Shown(ds)  z == Zeros(n)  whole == chars \o z
<1>0. /\ chars \in Seq(DigitSet) /\ Len(chars) = Len(ds) /\ Len(ds) \in Nat
      /\ z \in Seq(DigitSet) /\ Len(z) = n /\ \A i \in 1 .. n : z[i] = "0"
  BY ShownTyped, ZerosTyped, LenProperties
<1> HIDE DEF chars, z
<1>a. chars \in Seq(DigitSet) /\ z \in Seq(DigitSet)
  BY <1>0
<1>1. /\ whole \in Seq(DigitSet) /\ Len(whole) = Len(chars) + Len(z)
      /\ \A i \in 1 .. Len(chars) : whole[i] = chars[i]
      /\ \A i \in 1 .. Len(z) : whole[Len(chars) + i] = z[i]
  <2>1. whole \in Seq(DigitSet) /\ Joins(whole, chars, z)
    BY <1>a, JoinedIs
  <2> HIDE DEF whole
  <2> QED BY <2>1 DEF Joins
<1> HIDE DEF whole
<1> DEFINE one == <<"0">>
<1>2. one \in Seq(DigitSet) /\ Len(one) = 1 /\ one[1] = "0"
  BY CharsApart
<1> HIDE DEF one
<1>3. ASSUME NEW i \in 1 .. Len(whole) PROVE whole[i] = PaddedAt(chars, 0, i)
  <2>1. CASE i <= Len(chars)
    <3>1. i \in 1 .. Len(chars) /\ 0 < i /\ i <= 0 + Len(chars) /\ i - 0 = i
      BY <1>0, <1>1, <2>1
    <3> QED BY <1>1, <3>1 DEF PaddedAt
  <2>2. CASE ~(i <= Len(chars))
    <3> DEFINE j == i - Len(chars)
    <3>1. j \in 1 .. Len(z) /\ Len(chars) + j = i /\ ~(i <= 0 + Len(chars))
      BY <1>0, <1>1, <2>2
    <3> HIDE DEF j
    <3>2. whole[Len(chars) + j] = "0"
      BY <1>0, <1>1, <3>1
    <3> QED BY <3>1, <3>2 DEF PaddedAt
  <2> QED BY <2>1, <2>2
<1>4. ASSUME NEW i \in 1 .. Len(one) PROVE one[i] = PaddedAt(chars, 0, Len(whole) + i)
  <2>1. i = 1 /\ ~(Len(whole) + i <= 0 + Len(chars))
    BY <1>0, <1>1, <1>2
  <2> QED BY <1>2, <2>1 DEF PaddedAt
<1>5. 0 \in Nat /\ Len(whole) >= 1 /\ 0 + Len(chars) <= Len(whole) + Len(one)
  BY <1>0, <1>1, <1>2
<1>6. Padded(whole, one, chars, 0)
  BY <1>1, <1>2, <1>3, <1>4, <1>5 DEF Padded
<1> QED BY <1>0, <1>1, <1>6 DEF whole, one, chars, z

(* More digits than stand before the point.                                *)
LEMMA SplitPadded ==
  ASSUME NEW ds \in Seq(Digits), NEW n \in Nat, 1 <= n, n < Len(ds)
  PROVE  /\ Padded(SubSeq(Shown(ds), 1, n), After(Shown(ds), n), Shown(ds), 0)
         /\ Len(SubSeq(Shown(ds), 1, n)) = n
<1> DEFINE chars == Shown(ds)  whole == SubSeq(chars, 1, n)  fraction == After(chars, n)
<1>0. chars \in Seq(DigitSet) /\ Len(chars) = Len(ds) /\ Len(ds) \in Nat
  BY ShownTyped, LenProperties
<1> HIDE DEF chars
<1>1. n \in 0 .. Len(chars) /\ \A i \in 1 .. n : i \in 1 .. Len(chars)
  BY <1>0
<1>2. /\ fraction \in Seq(DigitSet) /\ Len(fraction) = Len(chars) - n
      /\ \A i \in 1 .. Len(chars) - n : fraction[i] = chars[i + n]
  BY <1>0, <1>1, AfterIs
<1>3. /\ whole \in Seq(DigitSet) /\ Len(whole) = n
      /\ \A i \in 1 .. n : whole[i] = chars[i]
  <2>1. \A i \in 1 .. n : chars[i] \in DigitSet
    BY <1>0, <1>1, ElementOfSeq
  <2>2. /\ whole \in Seq(DigitSet) /\ Len(whole) = IF 1 <= n THEN n - 1 + 1 ELSE 0
        /\ \A i \in 1 .. n - 1 + 1 : whole[i] = chars[1 + i - 1]
    BY <2>1, SubSeqProperties
  <2>3. n - 1 + 1 = n /\ \A i \in 1 .. n : 1 + i - 1 = i
    OBVIOUS
  <2> HIDE DEF whole
  <2> QED BY <2>2, <2>3
<1> HIDE DEF whole, fraction
<1>4. ASSUME NEW i \in 1 .. Len(whole) PROVE whole[i] = PaddedAt(chars, 0, i)
  <2>1. i \in 1 .. n /\ 0 < i /\ i <= 0 + Len(chars) /\ i - 0 = i
    BY <1>0, <1>3
  <2> QED BY <1>3, <2>1 DEF PaddedAt
<1>5. ASSUME NEW i \in 1 .. Len(fraction) PROVE fraction[i] = PaddedAt(chars, 0, Len(whole) + i)
  <2>1. /\ i \in 1 .. Len(chars) - n /\ 0 < Len(whole) + i /\ Len(whole) + i <= 0 + Len(chars)
        /\ Len(whole) + i - 0 = i + n
    BY <1>0, <1>1, <1>2, <1>3
  <2> QED BY <1>2, <2>1 DEF PaddedAt
<1>6. 0 \in Nat /\ Len(whole) >= 1 /\ 0 + Len(chars) <= Len(whole) + Len(fraction)
  BY <1>0, <1>1, <1>2, <1>3
<1>7. Padded(whole, fraction, chars, 0)
  BY <1>2, <1>3, <1>4, <1>5, <1>6 DEF Padded
<1> QED BY <1>3, <1>7 DEF whole, fraction, chars

(* Zeros behind the point, and then the digits.                            *)
LEMMA FractionPadded ==
  ASSUME NEW ds \in Seq(Digits), NEW n \in Nat
  PROVE  Padded(<<"0">>, Zeros(n) \o Shown(ds), Shown(ds), n + 1) /\ Len(<<"0">>) = 1
<1> DEFINE chars == Shown(ds)  z == Zeros(n)  fraction == z \o chars  one == <<"0">>
<1>0. /\ chars \in Seq(DigitSet) /\ Len(chars) = Len(ds) /\ Len(ds) \in Nat
      /\ z \in Seq(DigitSet) /\ Len(z) = n /\ \A i \in 1 .. n : z[i] = "0"
  BY ShownTyped, ZerosTyped, LenProperties
<1> HIDE DEF chars, z
<1>a. chars \in Seq(DigitSet) /\ z \in Seq(DigitSet)
  BY <1>0
<1>1. /\ fraction \in Seq(DigitSet) /\ Len(fraction) = Len(z) + Len(chars)
      /\ \A i \in 1 .. Len(z) : fraction[i] = z[i]
      /\ \A i \in 1 .. Len(chars) : fraction[Len(z) + i] = chars[i]
  <2>1. fraction \in Seq(DigitSet) /\ Joins(fraction, z, chars)
    BY <1>a, JoinedIs
  <2> HIDE DEF fraction
  <2> QED BY <2>1 DEF Joins
<1>2. one \in Seq(DigitSet) /\ Len(one) = 1 /\ one[1] = "0"
  BY CharsApart
<1> HIDE DEF fraction, one
<1>3. ASSUME NEW i \in 1 .. Len(one) PROVE one[i] = PaddedAt(chars, n + 1, i)
  <2>1. i = 1 /\ ~(n + 1 < i)
    BY <1>2
  <2> QED BY <1>2, <2>1 DEF PaddedAt
<1>4. ASSUME NEW i \in 1 .. Len(fraction) PROVE fraction[i] = PaddedAt(chars, n + 1, Len(one) + i)
  <2>1. CASE i <= n
    <3>1. i \in 1 .. n /\ i \in 1 .. Len(z) /\ ~(n + 1 < Len(one) + i)
      BY <1>0, <1>2, <2>1
    <3> QED BY <1>0, <1>1, <3>1 DEF PaddedAt
  <2>2. CASE ~(i <= n)
    <3> DEFINE j == i - n
    <3>1. /\ j \in 1 .. Len(chars) /\ Len(z) + j = i /\ n + 1 < Len(one) + i
          /\ Len(one) + i <= n + 1 + Len(chars) /\ Len(one) + i - (n + 1) = j
      BY <1>0, <1>1, <1>2, <2>2
    <3> HIDE DEF j
    <3>2. fraction[i] = chars[j]
      BY <1>1, <3>1
    <3> QED BY <3>1, <3>2 DEF PaddedAt
  <2> QED BY <2>1, <2>2
<1>5. n + 1 \in Nat /\ Len(one) >= 1 /\ n + 1 + Len(chars) <= Len(one) + Len(fraction)
  BY <1>0, <1>1, <1>2
<1>6. Padded(one, fraction, chars, n + 1)
  BY <1>1, <1>2, <1>3, <1>4, <1>5 DEF Padded
<1> QED BY <1>2, <1>6 DEF one, fraction, z, chars

(* A decimal shows its exponent with the point, or writes it.              *)
Laid(text, whole, fraction, p, e) ==
  \/ text = Pointed(whole, fraction) /\ Len(whole) - p - 1 = e
  \/ text = Pointed(whole, fraction) \o ExponentText(e) /\ Len(whole) - p - 1 = 0

(* Every branch of the rendering lays out the digits so.                   *)
LEMMA DecimalLaid ==
  ASSUME NEW ds \in Seq(Digits), ds # <<>>, NEW e \in Int
  PROVE  \E whole, fraction, p :
           Padded(whole, fraction, Shown(ds), p) /\ Laid(Decimal(Shown(ds), e), whole, fraction, p, e)
<1> DEFINE chars == Shown(ds)
<1>0. Len(ds) \in Nat /\ Len(ds) >= 1 /\ Len(chars) = Len(ds) /\ chars \in Seq(DigitSet)
  BY ShownTyped, LenProperties
<1>1. CASE e \in 0 .. 16 /\ Len(ds) <= e + 1
  <2> DEFINE n == e + 1 - Len(ds)  whole == chars \o Zeros(n)
  <2>1. n \in Nat /\ Len(ds) + n >= 1 /\ Len(ds) + n - 0 - 1 = e /\ ~(Len(ds) > e + 1) /\ e \notin -4 .. -1
    BY <1>0, <1>1
  <2>2. Padded(whole, <<"0">>, chars, 0) /\ Len(whole) = Len(ds) + n
    <3> HIDE DEF n
    <3> QED BY <2>1, WholePadded
  <2>3. Decimal(chars, e) = Pointed(whole, <<"0">>)
    BY <1>0, <1>1, <2>1 DEF Decimal
  <2> HIDE DEF whole, chars, n
  <2>4. Laid(Decimal(chars, e), whole, <<"0">>, 0, e)
    BY <2>1, <2>2, <2>3 DEF Laid
  <2> QED BY <2>2, <2>4 DEF chars
<1>2. CASE e \in 0 .. 16 /\ ~(Len(ds) <= e + 1)
  <2> DEFINE n == e + 1  whole == SubSeq(chars, 1, n)  fraction == After(chars, n)
  <2>1. n \in Nat /\ 1 <= n /\ n < Len(ds) /\ n - 0 - 1 = e /\ Len(ds) > e + 1 /\ e \notin -4 .. -1
    BY <1>0, <1>2
  <2>2. Padded(whole, fraction, chars, 0) /\ Len(whole) = n
    <3> HIDE DEF n
    <3> QED BY <2>1, SplitPadded
  <2>3. Decimal(chars, e) = Pointed(whole, fraction)
    BY <1>0, <1>2, <2>1 DEF Decimal
  <2> HIDE DEF whole, fraction, chars, n
  <2>4. Laid(Decimal(chars, e), whole, fraction, 0, e)
    BY <2>1, <2>2, <2>3 DEF Laid
  <2> QED BY <2>2, <2>4 DEF chars
<1>3. CASE e \in -4 .. -1
  <2> DEFINE n == -e - 1  fraction == Zeros(n) \o chars  one == <<"0">>
  <2>1. n \in Nat /\ 1 - (n + 1) - 1 = e /\ e \notin 0 .. 16
    BY <1>3
  <2>2. Padded(one, fraction, chars, n + 1) /\ Len(one) = 1
    <3> HIDE DEF n
    <3> QED BY <2>1, FractionPadded
  <2>3. Decimal(chars, e) = Pointed(one, fraction)
    BY <1>3, <2>1 DEF Decimal, ZerosAfterPoint
  <2> HIDE DEF one, fraction, chars, n
  <2>4. Laid(Decimal(chars, e), one, fraction, n + 1, e)
    BY <2>1, <2>2, <2>3 DEF Laid
  <2> QED BY <2>2, <2>4 DEF chars
<1>4. CASE e \notin -4 .. 16
  <2>0. e \notin 0 .. 16 /\ e \notin -4 .. -1
    BY <1>4
  <2>1. CASE Len(ds) > 1
    <3> DEFINE whole == <<chars[1]>>  fraction == After(chars, 1)  split == SubSeq(chars, 1, 1)
    <3>1. Padded(split, fraction, chars, 0) /\ Len(split) = 1
      <4>1. 1 \in Nat /\ 1 <= 1 /\ 1 < Len(ds)
        BY <1>0, <2>1
      <4> QED BY <4>1, SplitPadded
    <3>2. split = whole
      <4>1. chars[1] \in DigitSet
        BY <1>0, ElementOfSeq
      <4> HIDE DEF chars
      <4>2. whole \in Seq(DigitSet) /\ Len(whole) = 1 /\ whole[1] = chars[1]
        BY <4>1
      <4>3. Len(split) = 1 /\ split \in Seq(DigitSet)
        BY <3>1 DEF Padded
      <4>4. split[1] = chars[1]
        <5>1. 1 \in 1 .. Len(split) /\ 0 < 1 /\ 1 <= 0 + Len(chars) /\ 1 - 0 = 1
          BY <1>0, <4>3
        <5>2. split[1] = PaddedAt(chars, 0, 1)
          BY <3>1, <5>1 DEF Padded
        <5> QED BY <5>1, <5>2 DEF PaddedAt
      <4> HIDE DEF split, whole
      <4> QED BY <4>2, <4>3, <4>4, SeqEqual
    <3>3. Decimal(chars, e) = Pointed(whole, fraction) \o ExponentText(e)
      BY <1>0, <2>0, <2>1 DEF Decimal
    <3> HIDE DEF whole, fraction, chars, split
    <3>4. Laid(Decimal(chars, e), whole, fraction, 0, e)
      <4>1. Len(whole) - 0 - 1 = 0
        BY <3>1, <3>2
      <4> QED BY <3>3, <4>1 DEF Laid
    <3>5. Padded(whole, fraction, chars, 0)
      BY <3>1, <3>2
    <3> QED BY <3>4, <3>5 DEF chars
  <2>2. CASE ~(Len(ds) > 1)
    <3> DEFINE whole == <<chars[1]>>  none == Zeros(0)  padded == chars \o none
    <3>1. Padded(padded, <<"0">>, chars, 0) /\ Len(padded) = Len(ds) + 0
      <4>1. 0 \in Nat /\ Len(ds) + 0 >= 1
        BY <1>0
      <4> QED BY <4>1, WholePadded
    <3>2. padded = whole
      <4>1. Len(ds) = 1 /\ none = <<>>
        <5>1. none \in Seq(DigitSet) /\ Len(none) = 0
          BY ZerosTyped
        <5> HIDE DEF none
        <5> QED BY <1>0, <2>2, <5>1, EmptySeq
      <4>2. chars \o <<>> = chars
        BY <1>0, ConcatEmptySeq
      <4>3. chars = <<chars[1]>>
        <5>1. chars[1] \in DigitSet
          BY <1>0, ElementOfSeq
        <5> HIDE DEF chars
        <5> QED BY <1>0, <4>1, <5>1, SeqEqual
      <4> QED BY <4>1, <4>2, <4>3
    <3>3. Decimal(chars, e) = Pointed(whole, <<"0">>) \o ExponentText(e)
      BY <1>0, <2>0, <2>2 DEF Decimal
    <3> HIDE DEF whole, chars, padded
    <3>4. Padded(whole, <<"0">>, chars, 0) /\ Len(whole) - 0 - 1 = 0
      <4>1. Len(ds) = 1
        BY <1>0, <2>2
      <4> QED BY <3>1, <3>2, <4>1
    <3>5. Laid(Decimal(chars, e), whole, <<"0">>, 0, e)
      BY <3>3, <3>4 DEF Laid
    <3> QED BY <3>4, <3>5 DEF chars
  <2> QED BY <2>1, <2>2
<1>5. e \in 0 .. 16 \/ e \in -4 .. -1 \/ e \notin -4 .. 16
  OBVIOUS
<1> QED BY <1>1, <1>2, <1>3, <1>4, <1>5

RealSet == MantissaSet \cup {"e", "+", "-"}

(* What stands in front of an exponent holds no "e".                       *)
LEMMA MantissaApart == "e" \notin MantissaSet /\ "-" \notin MantissaSet
BY CharsApart DEF MantissaSet

(* Without an exponent everything is mantissa.                             *)
LEMMA PlainRead ==
  ASSUME NEW m \in Seq(MantissaSet)
  PROVE  Mantissa(m) = m /\ Power(m) = 0
<1>1. Where(m, {"e"}) = {}
  <2>1. DOMAIN m = 1 .. Len(m) /\ \A i \in 1 .. Len(m) : m[i] \in MantissaSet
    BY LenProperties, ElementOfSeq
  <2> QED BY <2>1, MantissaApart DEF Where
<1> QED BY <1>1 DEF Mantissa, Power

(* The digits of an exponent, read again.                                  *)
LEMMA TwoDigits ==
  ASSUME NEW n \in 0 .. 99
  PROVE  LET w == Shown(<<n \div 10, n % 10>>) IN w \in Seq(DigitSet) /\ NumberOf(w) = n
<1> DEFINE ds == <<n \div 10, n % 10>>  w == Shown(ds)
<1>1. n \div 10 \in 0 .. 9 /\ n % 10 \in 0 .. 9 /\ 10 * (n \div 10) + (n % 10) = n
  OBVIOUS
<1>2. ds \in Seq(Digits) /\ Len(ds) = 2 /\ ds[1] = n \div 10 /\ ds[2] = n % 10
  BY <1>1 DEF Digits
<1> HIDE DEF ds
<1>3. w \in Seq(DigitSet) /\ Len(w) = 2 /\ DigitOf(w[1]) = ds[1] /\ DigitOf(w[2]) = ds[2]
  <2>1. 1 \in 1 .. Len(ds) /\ 2 \in 1 .. Len(ds)
    BY <1>2
  <2> QED BY <1>2, <2>1, ShownTyped
<1> HIDE DEF w
<1>4. NumberOf(w) = 10 * DigitOf(w[1]) + DigitOf(w[2])
  BY <1>3 DEF NumberOf
<1> QED BY <1>1, <1>2, <1>3, <1>4 DEF w, ds

(* Three digits of an exponent.                                            *)
LEMMA ThreeDigits ==
  ASSUME NEW n \in 0 .. 999
  PROVE  LET w == Shown(<<n \div 100, (n \div 10) % 10, n % 10>>)
         IN w \in Seq(DigitSet) /\ NumberOf(w) = n
<1> DEFINE a == n \div 100  b == (n \div 10) % 10  c == n % 10
           ds == <<a, b, c>>  w == Shown(ds)
<1>1. a \in 0 .. 9 /\ b \in 0 .. 9 /\ c \in 0 .. 9 /\ 100 * a + 10 * b + c = n
  <2> DEFINE t == n \div 10
  <2>1. t \in 0 .. 99 /\ 10 * t + c = n /\ c \in 0 .. 9
    OBVIOUS
  <2>2. t \div 10 = n \div 100 /\ b = t % 10
    OBVIOUS
  <2> HIDE DEF t, b, c
  <2>3. t \div 10 \in 0 .. 9 /\ t % 10 \in 0 .. 9 /\ 10 * (t \div 10) + (t % 10) = t
    BY <2>1
  <2> QED BY <2>1, <2>2, <2>3
<1> HIDE DEF a, b, c
<1>2. ds \in Seq(Digits) /\ Len(ds) = 3 /\ ds[1] = a /\ ds[2] = b /\ ds[3] = c
  BY <1>1 DEF Digits
<1> HIDE DEF ds
<1>3. w \in Seq(DigitSet) /\ Len(w) = 3 /\ DigitOf(w[1]) = a /\ DigitOf(w[2]) = b /\ DigitOf(w[3]) = c
  <2>1. 1 \in 1 .. Len(ds) /\ 2 \in 1 .. Len(ds) /\ 3 \in 1 .. Len(ds)
    BY <1>2
  <2> QED BY <1>2, <2>1, ShownTyped
<1> HIDE DEF w
<1>4. NumberOf(w) = 100 * DigitOf(w[1]) + 10 * DigitOf(w[2]) + DigitOf(w[3])
  BY <1>3 DEF NumberOf
<1>5. w \in Seq(DigitSet) /\ NumberOf(w) = n
  BY <1>1, <1>3, <1>4
<1> QED BY <1>5 DEF w, ds, a, b, c

SignOf(e) == <<IF e < 0 THEN "-" ELSE "+">>

(* An exponent has a sign and digits that denote it.                       *)
LEMMA ExponentIs ==
  ASSUME NEW e \in Int, Abs(e) <= 999
  PROVE  \E w \in Seq(DigitSet) : ExponentText(e) = <<"e">> \o (SignOf(e) \o w) /\ NumberOf(w) = Abs(e)
<1> DEFINE n == Abs(e)
<1>1. n \in 0 .. 999
  BY DEF Abs
<1> HIDE DEF n
<1>2. CASE n < 100
  <2> DEFINE w == Shown(<<n \div 10, n % 10>>)
  <2>1. ExponentText(e) = <<"e">> \o (SignOf(e) \o w)
    BY <1>2 DEF ExponentText, SignOf, n
  <2>2. n \in 0 .. 99
    BY <1>1, <1>2
  <2>3. w \in Seq(DigitSet) /\ NumberOf(w) = n
    BY <2>2, TwoDigits
  <2> HIDE DEF w
  <2> QED BY <2>1, <2>3 DEF n
<1>3. CASE ~(n < 100)
  <2> DEFINE w == Shown(<<n \div 100, (n \div 10) % 10, n % 10>>)
  <2>1. ExponentText(e) = <<"e">> \o (SignOf(e) \o w)
    BY <1>3 DEF ExponentText, SignOf, n
  <2>3. w \in Seq(DigitSet) /\ NumberOf(w) = n
    BY <1>1, ThreeDigits
  <2> HIDE DEF w
  <2> QED BY <2>1, <2>3 DEF n
<1> QED BY <1>2, <1>3

(* The exponent behind a mantissa is cut off and read.                     *)
LEMMA ExponentRead ==
  ASSUME NEW m \in Seq(MantissaSet), NEW e \in Int, Abs(e) <= 999
  PROVE  LET text == m \o ExponentText(e)
         IN Mantissa(text) = m /\ Power(text) = e /\ text \in Seq(RealSet)
<1>1. PICK w \in Seq(DigitSet) : ExponentText(e) = <<"e">> \o (SignOf(e) \o w) /\ NumberOf(w) = Abs(e)
  BY ExponentIs
<1> DEFINE mark == <<"e">>  sign == SignOf(e)  tail == sign \o w  front == m \o mark
           text == m \o (mark \o tail)
<1>2. /\ m \in Seq(RealSet) /\ mark \in Seq(RealSet) /\ sign \in Seq(RealSet) /\ w \in Seq(RealSet)
      /\ Len(mark) = 1 /\ mark[1] = "e" /\ Len(sign) = 1 /\ Len(m) \in Nat
      /\ sign[1] = IF e < 0 THEN "-" ELSE "+"
  <2>1. MantissaSet \subseteq RealSet /\ DigitSet \subseteq RealSet /\ {"e", "+", "-"} \subseteq RealSet
    BY DEF RealSet, MantissaSet
  <2>2. m \in Seq(RealSet) /\ w \in Seq(RealSet)
    BY <2>1, SeqMonotonic
  <2> QED BY <2>1, <2>2, LenProperties DEF SignOf
<1> HIDE DEF mark, sign
<1>3. tail \in Seq(RealSet) /\ Joins(tail, sign, w)
  BY <1>2, JoinedIs
<1>4. After(tail, 1) = w
  BY <1>2, AfterCat
<1> HIDE DEF tail
<1>5. mark \o tail \in Seq(RealSet) /\ front \in Seq(RealSet) /\ Joins(front, m, mark)
  BY <1>2, <1>3, JoinedIs
<1>6. text = front \o tail
  <2>1. \A p, q, r \in Seq(RealSet) : (p \o q) \o r = p \o (q \o r)
    BY ConcatAssociative
  <2> HIDE DEF tail
  <2> QED BY <1>2, <1>3, <2>1, Zenon
<1> HIDE DEF front
<1>7. SubSeq(text, 1, Len(m)) = m
  BY <1>2, <1>5, PrefixCut
<1> HIDE DEF text
<1>8. After(text, Len(front)) = tail /\ text \in Seq(RealSet) /\ Joins(text, front, tail)
  BY <1>3, <1>5, <1>6, AfterCat, JoinedIs
<1>9. Len(front) = Len(m) + 1 /\ front[Len(m) + 1] = "e" /\ \A i \in 1 .. Len(m) : front[i] = m[i]
  <2>1. 1 \in 1 .. Len(mark)
    BY <1>2
  <2> QED BY <1>2, <1>5, <2>1 DEF Joins
<1>10. text[Len(m) + 1] = "e" /\ Len(m) + 1 \in 1 .. Len(text) /\ \A i \in 1 .. Len(m) : text[i] = m[i]
  <2>1. Len(m) + 1 \in 1 .. Len(front) /\ \A i \in 1 .. Len(m) : i \in 1 .. Len(front)
    BY <1>2, <1>9
  <2>2. Len(text) = Len(front) + Len(tail) /\ Len(tail) \in Nat
    BY <1>3, <1>8, LenProperties DEF Joins
  <2> QED BY <1>2, <1>8, <1>9, <2>1, <2>2 DEF Joins
<1> DEFINE es == Where(text, {"e"})
<1>11. Len(m) + 1 \in es /\ es \subseteq Int /\ \A y \in es : Len(m) + 1 <= y
  <2>1. DOMAIN text = 1 .. Len(text) /\ Len(text) \in Nat
    BY <1>8, LenProperties
  <2>2. ASSUME NEW y \in es, y < Len(m) + 1 PROVE FALSE
    <3>1. y \in 1 .. Len(text) /\ text[y] = "e"
      BY <2>1 DEF Where
    <3>2. y \in 1 .. Len(m)
      BY <1>2, <2>2, <3>1
    <3>3. m[y] \in MantissaSet
      BY <3>2, ElementOfSeq
    <3> QED BY <1>10, <3>1, <3>2, <3>3, MantissaApart
  <2>3. Len(m) + 1 \in es /\ es \subseteq Int
    BY <1>10, <2>1 DEF Where
  <2>4. ASSUME NEW y \in es PROVE Len(m) + 1 <= y
    BY <1>2, <2>2, <2>3
  <2> QED BY <2>3, <2>4
<1> HIDE DEF es
<1>12. Least(es) = Len(m) + 1 /\ es # {} /\ Len(m) + 1 - 1 = Len(m)
  <2> DEFINE k == Len(m) + 1
  <2>1. k \in es /\ es \subseteq Int /\ (\A y \in es : k <= y) /\ k - 1 = Len(m)
    BY <1>2, <1>11
  <2> HIDE DEF k
  <2>2. Least(es) = k
    BY <2>1, LeastIs
  <2> QED BY <2>1, <2>2 DEF k
<1>13. Mantissa(text) = m
  BY <1>7, <1>12 DEF Mantissa, es
<1>14. tail[1] = IF e < 0 THEN "-" ELSE "+"
  <2>1. 1 \in 1 .. Len(sign)
    BY <1>2
  <2> QED BY <1>2, <1>3, <2>1 DEF Joins
<1>15. Power(text) = IF tail[1] = "-" THEN -NumberOf(After(tail, 1)) ELSE NumberOf(After(tail, 1))
  BY <1>8, <1>9, <1>12 DEF Power, es
<1>16. Power(text) = e
  <2>1. Power(text) = IF e < 0 THEN -Abs(e) ELSE Abs(e)
    BY <1>1, <1>4, <1>14, <1>15
  <2> QED BY <2>1 DEF Abs
<1>17. text = m \o ExponentText(e)
  BY <1>1 DEF text, mark, tail, sign
<1> QED BY <1>8, <1>13, <1>16, <1>17

(* The parts of a decimal that is read.                                    *)
DecimalReads(text, ds, e) ==
  /\ ValueOf(Mantissa(text)).digits = ds /\ ValueOf(Mantissa(text)).exponent + Power(text) = e
  /\ text \in Seq(RealSet) /\ Len(text) >= 1 /\ text[1] # "-"
  /\ \E i \in 1 .. Len(text) : text[i] = "."

(* What is between the point and the exponent is what was shown.           *)
LEMMA DecimalRead ==
  ASSUME NEW ds \in Seq(Digits), ds # <<>>, ds[1] # 0, ds[Len(ds)] # 0, NEW e \in Int, Abs(e) <= 999
  PROVE  DecimalReads(Decimal(Shown(ds), e), ds, e)
<1>1. PICK whole, fraction, p :
        Padded(whole, fraction, Shown(ds), p) /\ Laid(Decimal(Shown(ds), e), whole, fraction, p, e)
  BY DecimalLaid
<1> DEFINE m == Pointed(whole, fraction)  text == Decimal(Shown(ds), e)  x == ExponentText(e)
<1>2. ValueOf(m) = [digits |-> ds, exponent |-> Len(whole) - p - 1]
  BY <1>1, ValueRead
<1>3. /\ whole \in Seq(DigitSet) /\ fraction \in Seq(DigitSet) /\ Len(whole) >= 1 /\ p \in Nat
      /\ Len(whole) \in Nat /\ Len(fraction) \in Nat
  BY <1>1, LenProperties DEF Padded
<1>4. /\ m \in Seq(MantissaSet) /\ Len(m) = Len(whole) + 1 + Len(fraction)
      /\ \A i \in 1 .. Len(whole) : m[i] = whole[i]
      /\ m[Len(whole) + 1] = "."
  BY <1>3, PointedIs
<1>5. \/ text = m /\ Len(whole) - p - 1 = e
      \/ text = m \o x /\ Len(whole) - p - 1 = 0
  BY <1>1 DEF Laid
<1> HIDE DEF m, text
<1>6. /\ ValueOf(m).digits = ds /\ ValueOf(m).exponent = Len(whole) - p - 1
      /\ m[1] # "-" /\ Len(m) >= 1 /\ Len(whole) + 1 \in 1 .. Len(m)
  <2>1. 1 \in 1 .. Len(whole) /\ Len(m) >= 1 /\ Len(whole) + 1 \in 1 .. Len(m)
    BY <1>3, <1>4
  <2>2. m[1] \in DigitSet
    BY <1>3, <1>4, <2>1, ElementOfSeq
  <2> QED BY <1>2, <2>1, <2>2, CharsApart
<1>7. m \in Seq(RealSet)
  <2>1. MantissaSet \subseteq RealSet
    BY DEF RealSet
  <2> QED BY <1>4, <2>1, SeqMonotonic
<1>8. CASE text = m /\ Len(whole) - p - 1 = e
  <2>1. Mantissa(text) = m /\ Power(text) = 0
    BY <1>4, <1>8, PlainRead
  <2> QED BY <1>4, <1>6, <1>7, <1>8, <2>1 DEF DecimalReads, text
<1>9. CASE text = m \o x /\ Len(whole) - p - 1 = 0
  <2>1. Mantissa(text) = m /\ Power(text) = e /\ text \in Seq(RealSet)
    BY <1>4, <1>9, ExponentRead
  <2>2. Len(text) >= Len(m) /\ \A i \in 1 .. Len(m) : text[i] = m[i]
    <3>1. PICK w \in Seq(DigitSet) : x = <<"e">> \o (SignOf(e) \o w)
      BY ExponentIs
    <3>2. DigitSet \subseteq RealSet /\ {"e", "+", "-"} \subseteq RealSet
      BY DEF RealSet, MantissaSet
    <3>3. w \in Seq(RealSet) /\ SignOf(e) \in Seq(RealSet) /\ <<"e">> \in Seq(RealSet)
      <4>1. w \in Seq(RealSet)
        BY <3>2, SeqMonotonic
      <4> QED BY <3>2, <4>1 DEF SignOf
    <3>4. SignOf(e) \o w \in Seq(RealSet)
      BY <3>3, JoinedIs
    <3>5. x \in Seq(RealSet)
      BY <3>1, <3>3, <3>4, JoinedIs
    <3> HIDE DEF x
    <3>6. Joins(m \o x, m, x) /\ Len(x) \in Nat
      BY <1>7, <3>5, JoinedIs, LenProperties
    <3>7. Joins(text, m, x)
      BY <1>9, <3>6
    <3> QED BY <1>3, <1>4, <3>6, <3>7 DEF Joins
  <2>3. 1 \in 1 .. Len(m) /\ Len(text) \in Nat /\ \A i \in 1 .. Len(m) : i \in 1 .. Len(text)
    BY <1>3, <1>4, <2>1, <2>2, LenProperties
  <2> QED BY <1>4, <1>6, <1>9, <2>1, <2>2, <2>3 DEF DecimalReads, text
<1> QED BY <1>5, <1>8, <1>9

(* A REAL: without trailing or leading zeros, and zero without exponent.   *)
RealShape(v) ==
  /\ v = [kind |-> "finite", negative |-> v.negative, digits |-> v.digits, exponent |-> v.exponent]
  /\ v.negative \in BOOLEAN /\ v.digits \in Seq(0 .. 9) /\ v.exponent \in -999 .. 999
  /\ v.digits = <<>> => v.exponent = 0
  /\ v.digits # <<>> => v.digits[1] # 0 /\ v.digits[Len(v.digits)] # 0

(* A REAL shown has a point, and is read back as what it is.               *)
LEMMA RealReads ==
  ASSUME NEW v, RealShape(v)
  PROVE  /\ "." \in {render_real(v)[i] : i \in DOMAIN render_real(v)}
         /\ ReadReal(render_real(v)) = IF v.digits = <<>> THEN [v EXCEPT !.negative = FALSE] ELSE v
<1> DEFINE ds == v.digits  e == v.exponent  text == render_real(v)
<1>0. /\ ds \in Seq(Digits) /\ v.negative \in BOOLEAN /\ e \in Int /\ Abs(e) <= 999 /\ v.kind = "finite"
      /\ v = [kind |-> "finite", negative |-> v.negative, digits |-> ds, exponent |-> e]
  <2> DEFINE n == v.negative
  <2>1. ds \in Seq(Digits) /\ n \in BOOLEAN /\ e \in -999 .. 999
    BY DEF RealShape, Digits
  <2>2. v = [kind |-> "finite", negative |-> n, digits |-> ds, exponent |-> e]
    BY DEF RealShape
  <2> HIDE DEF n, ds, e
  <2>3. v.kind = "finite"
    BY <2>2
  <2>4. e \in Int /\ Abs(e) <= 999
    BY <2>1 DEF Abs
  <2> QED BY <2>1, <2>2, <2>3, <2>4 DEF n
<1>1. CASE ds = <<>>
  <2> DEFINE zero == <<"0">>  m == Pointed(zero, zero)
  <2>1. text = m
    BY <1>0, <1>1 DEF render_real
  <2>2. zero \in Seq(DigitSet) /\ Len(zero) = 1 /\ zero[1] = "0"
    BY CharsApart
  <2>3. Padded(zero, zero, Shown(ds), 0)
    <3>1. Len(Shown(ds)) = 0
      BY <1>0, <1>1, ShownTyped
    <3>2. \A i \in 1 .. 1 : i = 1
      OBVIOUS
    <3> HIDE DEF zero
    <3>3. \A i \in Nat : PaddedAt(Shown(ds), 0, i) = "0"
      BY <3>1 DEF PaddedAt
    <3> QED BY <2>2, <3>1, <3>2, <3>3 DEF Padded
  <2>4. ValueOf(m) = [digits |-> <<>>, exponent |-> 0]
    BY <1>0, <1>1, <2>3, ValueRead
  <2>5. m \in Seq(MantissaSet) /\ Len(m) = 3 /\ m[1] = "0" /\ m[2] = "."
    <3>1. /\ m \in Seq(MantissaSet) /\ Len(m) = Len(zero) + 1 + Len(zero)
          /\ \A i \in 1 .. Len(zero) : m[i] = zero[i]
          /\ m[Len(zero) + 1] = "."
      BY <2>2, PointedIs
    <3> HIDE DEF m, zero
    <3>2. 1 \in 1 .. Len(zero) /\ Len(zero) + 1 = 2 /\ Len(zero) + 1 + Len(zero) = 3
      BY <2>2
    <3> QED BY <2>2, <3>1, <3>2
  <2> HIDE DEF m
  <2>6. Mantissa(m) = m /\ m[1] # "-"
    BY <2>5, PlainRead, CharsApart
  <2>7. ReadReal(m) = [kind |-> "finite", negative |-> FALSE, digits |-> <<>>, exponent |-> 0]
    BY <2>4, <2>6 DEF ReadReal
  <2>8. [v EXCEPT !.negative = FALSE] = [kind |-> "finite", negative |-> FALSE, digits |-> <<>>, exponent |-> 0]
    <3>1. e = 0
      BY <1>1 DEF RealShape
    <3> DEFINE n == v.negative
    <3> HIDE DEF ds, e, n
    <3>2. v = [kind |-> "finite", negative |-> n, digits |-> <<>>, exponent |-> 0]
      BY <1>0, <1>1, <3>1 DEF n
    <3>3. \A f : [v EXCEPT !.negative = f] = [kind |-> "finite", negative |-> f, digits |-> <<>>, exponent |-> 0]
      BY <3>2
    <3> QED BY <3>3, Zenon
  <2>9. 2 \in DOMAIN m
    BY <2>5, LenProperties
  <2> HIDE DEF text
  <2>10. "." \in {text[i] : i \in DOMAIN text}
    BY <2>1, <2>5, <2>9
  <2>11. ReadReal(text) = [v EXCEPT !.negative = FALSE]
    BY <2>1, <2>7, <2>8
  <2> QED BY <1>1, <2>10, <2>11 DEF text
<1>2. CASE ds # <<>>
  <2> DEFINE decimal == Decimal(Shown(ds), e)  minus == <<"-">>
  <2>1. DecimalReads(decimal, ds, e)
    <3>1. ds[1] # 0 /\ ds[Len(ds)] # 0
      BY <1>2 DEF RealShape
    <3> QED BY <1>0, <1>2, <3>1, DecimalRead
  <2>2. text = (IF v.negative THEN minus ELSE <<>>) \o decimal
    BY <1>0, <1>2 DEF render_real
  <2> HIDE DEF decimal, text, ds, e
  <2>3. decimal \in Seq(RealSet) /\ Len(decimal) >= 1 /\ decimal[1] # "-" /\ Len(decimal) \in Nat
    BY <2>1, LenProperties DEF DecimalReads
  <2>4. PICK k \in 1 .. Len(decimal) : decimal[k] = "."
    BY <2>1 DEF DecimalReads
  <2>5. \A u : u = decimal => LET value == ValueOf(Mantissa(u))
                              IN value.digits = ds /\ value.exponent + Power(u) = e
    BY <2>1 DEF DecimalReads
  <2>6. CASE v.negative
    <3>1. minus \in Seq(RealSet) /\ Len(minus) = 1 /\ minus[1] = "-"
      BY DEF RealSet
    <3>2. text = minus \o decimal
      BY <2>2, <2>6
    <3> HIDE DEF minus
    <3>3. Joins(minus \o decimal, minus, decimal) /\ minus \o decimal \in Seq(RealSet)
      BY <2>3, <3>1, JoinedIs
    <3>4. After(minus \o decimal, Len(minus)) = decimal
      BY <2>3, <3>1, AfterCat
    <3>5. Joins(text, minus, decimal) /\ text \in Seq(RealSet) /\ After(text, 1) = decimal
      BY <3>1, <3>2, <3>3, <3>4
    <3>6. text[1] = "-" /\ text[1 + k] = "." /\ 1 + k \in DOMAIN text
      <4>1. 1 \in 1 .. Len(minus) /\ 1 + k \in 1 .. Len(minus) + Len(decimal)
        BY <2>3, <3>1
      <4> QED BY <3>1, <3>5, <2>4, <4>1, LenProperties DEF Joins
    <3>7. ReadReal(text) = [kind |-> "finite", negative |-> TRUE, digits |-> ds, exponent |-> e]
      BY <1>2, <2>5, <3>5, <3>6 DEF ReadReal
    <3>8. "." \in {text[i] : i \in DOMAIN text}
      BY <3>6
    <3>9. ReadReal(text) = v
      BY <1>0, <2>6, <3>7
    <3> QED BY <1>2, <3>8, <3>9 DEF text, ds
  <2>7. CASE ~v.negative
    <3>1. text = decimal
      <4>1. <<>> \o decimal = decimal
        BY <2>3, ConcatEmptySeq
      <4> QED BY <2>2, <2>7, <4>1
    <3>2. text[1] # "-" /\ text[k] = "." /\ k \in DOMAIN text
      BY <2>3, <2>4, <3>1, LenProperties
    <3>3. ReadReal(text) = [kind |-> "finite", negative |-> FALSE, digits |-> ds, exponent |-> e]
      BY <1>2, <2>5, <3>1, <3>2 DEF ReadReal
    <3>4. "." \in {text[i] : i \in DOMAIN text}
      BY <3>2
    <3>5. ReadReal(text) = v
      <4>1. v.negative = FALSE
        BY <1>0, <2>7
      <4> QED BY <1>0, <3>3, <4>1
    <3> QED BY <1>2, <3>4, <3>5 DEF text, ds
  <2> QED BY <2>6, <2>7
<1> QED BY <1>1, <1>2

---------------------------------------------------------------------------
(* Sequences that are kept, mapped, flattened and compared.                *)

(* Sequences of one and of two elements.                                   *)
LEMMA TwoTyped == ASSUME NEW X, NEW a \in X, NEW b \in X
  PROVE /\ <<a>> \in Seq(X) /\ <<b>> \in Seq(X) /\ <<a, b>> \in Seq(X)
        /\ Len(<<a>>) = 1 /\ Len(<<b>>) = 1 /\ Len(<<a, b>>) = 2
        /\ <<a, b>>[1] = a /\ <<a,b>>[2] = b
  OBVIOUS

(* One element and another one.                                            *)
LEMMA TwoJoined == ASSUME NEW X, NEW a \in X, NEW b \in X
  PROVE <<a>> \o <<b>> = <<a,b>>
<1> DEFINE p == <<a>> q == <<b>> r == <<a, b>>
<1>1. /\ p \in Seq(X) /\ q \in Seq(X) /\ r \in Seq(X) /\ Len(p) = 1 /\ Len(q) = 1 /\ Len(r) = 2
      /\ r[1] = a /\ r[2] = b /\ p[1] = a /\ q[1] = b
  OBVIOUS
<1> HIDE DEF p, q, r
<1>2. \A i \in 1 .. Len(p) : r[i] = p[i]
  BY <1>1
<1>3. \A i \in 1 .. Len(q) : r[Len(p) + i] = q[i]
  BY <1>1
<1>4. Len(r) = Len(p) + Len(q)
  BY <1>1
<1>5. r = p \o q
  BY <1>1, <1>2, <1>3, <1>4, CatEqual
<1> QED BY <1>5 DEF p, q, r

(* A function of 1 alone is a sequence of one element.                     *)
LEMMA OneIs == ASSUME NEW X, NEW x \in X PROVE [i \in {1} |-> x] = <<x>>
<1> DEFINE f == [i \in 1 .. 1 |-> x]  t == <<x>>
<1>1. f \in Seq(X) /\ Len(f) = 1 /\ f[1] = x
  OBVIOUS
<1>2. t \in Seq(X) /\ Len(t) = 1 /\ t[1] = x
  BY TwoTyped
<1> HIDE DEF f, t
<1>3. \A i \in 1 .. Len(f) : f[i] = t[i]
  BY <1>1, <1>2
<1>4. f = t
  BY <1>1, <1>2, <1>3, SeqEqual
<1>5. 1 .. 1 = {1}
  OBVIOUS
<1> QED BY <1>4, <1>5 DEF f, t

(* What is kept of a sequence: the elements of the set, where they stood.  *)
LEMMA PlacesNumbers ==
  ASSUME NEW X, NEW s \in Seq(X), NEW S
  PROVE  /\ Places(s, S) \in SUBSET Nat /\ IsFiniteSet(Places(s, S))
         /\ Places(s, S) \subseteq 1 .. Len(s) /\ DOMAIN s = 1 .. Len(s) /\ Len(s) \in Nat
         /\ Lists(Ascending(Places(s, S)), Places(s, S))
<1>1. DOMAIN s = 1 .. Len(s) /\ Len(s) \in Nat
  BY LenProperties
<1>2. Places(s, S) \subseteq 1 .. Len(s)
  BY <1>1 DEF Places
<1>3. Places(s, S) \in SUBSET Nat
  BY <1>1, <1>2
<1>4. IsFiniteSet(1 .. Len(s))
  BY <1>1, FS_Interval
<1>5. IsFiniteSet(Places(s, S))
  BY <1>2, <1>4, FS_Subset
<1> QED BY <1>1, <1>2, <1>3, <1>5, AscendingLists

(* It keeps the elements of the set and no others.                         *)
LEMMA KeptElements ==
  ASSUME NEW X, NEW s \in Seq(X), NEW S
  PROVE  Kept(s, S) \in Seq(X) /\ ToSet(Kept(s, S)) = ToSet(s) \cap S
<1> DEFINE at == Places(s, S)
           nth == Ascending(at)
           n == Cardinality(at)
<1>1. /\ at \in SUBSET Nat /\ IsFiniteSet(at) /\ at \subseteq 1 .. Len(s)
      /\ DOMAIN s = 1 .. Len(s) /\ Len(s) \in Nat /\ Lists(nth, at)
  BY PlacesNumbers
<1>2. at = {i \in 1 .. Len(s) : s[i] \in S}
  BY <1>1 DEF Places
<1>3. CASE at = DOMAIN s
  <2>1. Kept(s, S) = s
    BY <1>3 DEF Kept
  <2>2. ToSet(s) \subseteq S
    BY <1>1, <1>2, <1>3 DEF ToSet
  <2> QED BY <2>1, <2>2
<1>4. CASE at # DOMAIN s
  <2>1. n \in Nat
    BY <1>1, FS_CardinalityType
  <2>2. nth \in [1 .. n -> at] /\ \A a \in at : \E i \in 1 .. n : nth[i] = a
    BY <1>1 DEF Lists
  <2> HIDE DEF nth, n
  <2>3. Kept(s, S) = [k \in 1 .. n |-> s[nth[k]]]
    BY <1>4, <2>2 DEF Kept, nth
  <2> HIDE DEF at
  <2>4. \A k \in 1 .. n : nth[k] \in 1 .. Len(s) /\ s[nth[k]] \in X
    BY <1>2, <2>2, ElementOfSeq
  <2>5. Kept(s, S) \in Seq(X)
    BY <2>1, <2>3, <2>4
  <2>6. \A k \in 1 .. n : s[nth[k]] \in ToSet(s) \cap S
    BY <1>1, <1>2, <2>2 DEF ToSet
  <2>7. \A x \in ToSet(s) \cap S : \E k \in 1 .. n : s[nth[k]] = x
    <3> SUFFICES ASSUME NEW x \in ToSet(s) \cap S PROVE \E k \in 1 .. n : s[nth[k]] = x
      OBVIOUS
    <3>1. PICK i \in 1 .. Len(s) : s[i] = x
      BY <1>1 DEF ToSet
    <3>2. PICK k \in 1 .. n : nth[k] = i
      BY <1>2, <2>2, <3>1
    <3> QED BY <3>1, <3>2
  <2>8. ToSet(Kept(s, S)) = {s[nth[k]] : k \in 1 .. n}
    BY <2>3 DEF ToSet
  <2> QED BY <2>5, <2>6, <2>7, <2>8
<1> QED BY <1>3, <1>4

(* As many are kept as have a place, each where its place is counted.      *)
LEMMA KeptAt ==
  ASSUME NEW X, NEW s \in Seq(X), NEW S, NEW i \in Places(s, S)
  PROVE  /\ Len(Kept(s, S)) = Cardinality(Places(s, S))
         /\ Kept(s, S)[Cardinality({j \in Places(s, S) : j <= i})] = s[i]
<1> DEFINE at == Places(s, S)
           nth == Ascending(at)
           n == Cardinality(at)
           upto == {j \in at : j <= i}
<1>1. /\ at \in SUBSET Nat /\ IsFiniteSet(at) /\ at \subseteq 1 .. Len(s)
      /\ DOMAIN s = 1 .. Len(s) /\ Len(s) \in Nat /\ Lists(nth, at)
  BY PlacesNumbers
<1>2. i \in Nat /\ i \in 1 .. Len(s) /\ n \in Nat
  BY <1>1, FS_CardinalityType
<1>3. CASE at = DOMAIN s
  <2>1. Kept(s, S) = s /\ upto = 1 .. i
    BY <1>1, <1>2, <1>3 DEF Kept
  <2>2. Cardinality(1 .. i) = i /\ Cardinality(1 .. Len(s)) = Len(s)
    BY <1>1, <1>2, FS_Interval
  <2> QED BY <1>1, <1>3, <2>1, <2>2
<1>4. CASE at # DOMAIN s
  <2>1. nth \in [1 .. n -> at] /\ \A a \in at : \E k \in 1 .. n : nth[k] = a
    BY <1>1 DEF Lists
  <2>2. PICK k \in 1 .. n : nth[k] = i
    BY <2>1
  <2>3. \E a \in at : Cardinality(Below(a, at)) = k - 1
    <3>1. StrictOrder(Less(at), at)
      <4>1. \A a, b \in at : <<a, b>> \in Less(at) <=> a < b
        BY DEF Less
      <4> QED BY <1>1, <4>1 DEF StrictOrder
    <3>2. \E a \in at : Cardinality(Preceding(a, at, Less(at))) = k - 1
      BY <1>1, <3>1, SomeElementHasPlace
    <3>3. \A a \in at : Preceding(a, at, Less(at)) = Below(a, at)
      BY DEF Preceding, Below, Less
    <3> QED BY <3>2, <3>3
  <2>4. nth[k] = CHOOSE a \in at : Cardinality(Below(a, at)) = k - 1
    BY DEF Ascending
  <2>5. Cardinality(Below(i, at)) = k - 1
    BY <2>2, <2>3, <2>4
  <2>6. Cardinality(upto) = k
    <3>1. upto = Below(i, at) \cup {i} /\ i \notin Below(i, at)
      BY <1>1, <1>2 DEF Below
    <3>2. IsFiniteSet(Below(i, at))
      BY <1>1, FS_Subset DEF Below
    <3>3. Cardinality(upto) = Cardinality(Below(i, at)) + 1
      BY <3>1, <3>2, FS_AddElement
    <3> QED BY <1>2, <2>5, <3>3
  <2> HIDE DEF nth, n, upto
  <2>7. Kept(s, S) = [m \in 1 .. n |-> s[nth[m]]]
    BY <1>4, <2>1 DEF Kept, nth
  <2> QED BY <1>2, <2>2, <2>6, <2>7 DEF n, upto
<1> QED BY <1>3, <1>4

(* The elements of a concatenation, and of a flattened sequence.           *)
LEMMA ElementsCat ==
  ASSUME NEW X, NEW p \in Seq(X), NEW q \in Seq(X) PROVE ToSet(p \o q) = ToSet(p) \cup ToSet(q)
<1>1. /\ Len(p) \in Nat /\ Len(q) \in Nat /\ DOMAIN p = 1 .. Len(p) /\ DOMAIN q = 1 .. Len(q)
      /\ DOMAIN (p \o q) = 1 .. Len(p) + Len(q)
      /\ \A i \in 1 .. Len(p) + Len(q) : (p \o q)[i] = IF i <= Len(p) THEN p[i] ELSE q[i - Len(p)]
  BY ConcatProperties, LenProperties
<1>2. ASSUME NEW i \in 1 .. Len(p) + Len(q) PROVE (p \o q)[i] \in ToSet(p) \cup ToSet(q)
  <2>1. CASE i <= Len(p)
    BY <1>1, <2>1 DEF ToSet
  <2>2. CASE ~(i <= Len(p))
    <3>1. i - Len(p) \in 1 .. Len(q)
      BY <1>1, <2>2
    <3> QED BY <1>1, <2>2, <3>1 DEF ToSet
  <2> QED BY <2>1, <2>2
<1>3. ASSUME NEW i \in 1 .. Len(p) PROVE \E j \in 1 .. Len(p) + Len(q) : (p \o q)[j] = p[i]
  BY <1>1
<1>4. ASSUME NEW i \in 1 .. Len(q) PROVE \E j \in 1 .. Len(p) + Len(q) : (p \o q)[j] = q[i]
  <2>1. Len(p) + i \in 1 .. Len(p) + Len(q) /\ ~(Len(p) + i <= Len(p)) /\ (Len(p) + i) - Len(p) = i
    BY <1>1
  <2> QED BY <1>1, <2>1
<1> DEFINE r == p \o q
           n == Len(p) + Len(q)
<1>5. /\ ToSet(r) = {r[i] : i \in 1 .. n}
      /\ ToSet(p) = {p[i] : i \in 1 .. Len(p)} /\ ToSet(q) = {q[i] : i \in 1 .. Len(q)}
  BY <1>1 DEF ToSet
<1>6. /\ \A i \in 1 .. n : r[i] \in ToSet(p) \cup ToSet(q)
      /\ \A i \in 1 .. Len(p) : \E j \in 1 .. n : r[j] = p[i]
      /\ \A i \in 1 .. Len(q) : \E j \in 1 .. n : r[j] = q[i]
  BY <1>2, <1>3, <1>4
<1>7. ToSet(r) = ToSet(p) \cup ToSet(q)
  <2> HIDE DEF r, n
  <2> QED BY <1>5, <1>6
<1> QED BY <1>7

(* One more element.                                                       *)
LEMMA ElementsAppend ==
  ASSUME NEW X, NEW p \in Seq(X), NEW x \in X PROVE ToSet(Append(p, x)) = ToSet(p) \cup {x}
<1>1. /\ Len(p) \in Nat /\ DOMAIN p = 1 .. Len(p) /\ DOMAIN Append(p, x) = 1 .. Len(p) + 1
      /\ Append(p, x)[Len(p) + 1] = x /\ \A i \in 1 .. Len(p) : Append(p, x)[i] = p[i]
  BY AppendProperties, LenProperties
<1>2. \A i \in 1 .. Len(p) + 1 : i \in 1 .. Len(p) \/ i = Len(p) + 1
  BY <1>1
<1>3. \A i \in 1 .. Len(p) : i \in 1 .. Len(p) + 1
  BY <1>1
<1>4. Len(p) + 1 \in 1 .. Len(p) + 1
  BY <1>1
<1> QED BY <1>1, <1>2, <1>3, <1>4 DEF ToSet

(* A flattened sequence has the elements of its parts.                     *)
LEMMA ElementsFlat ==
  ASSUME NEW X, NEW parts \in Seq(Seq(X))
  PROVE  ToSet(FlattenSeq(parts)) = UNION {ToSet(part) : part \in ToSet(parts)}
<1> DEFINE S == {t \in Seq(Seq(X)) : ToSet(FlattenSeq(t)) = UNION {ToSet(part) : part \in ToSet(t)}}
<1>1. <<>> \in S
  <2>1. ToSet(<<>>) = {}
    BY DEF ToSet
  <2> QED BY <2>1, FlattenEmpty, EmptySeq
<1>2. ASSUME NEW t \in Seq(Seq(X)), NEW x \in Seq(X), t \in S PROVE Append(t, x) \in S
  <2>1. FlattenSeq(Append(t, x)) = FlattenSeq(t) \o x /\ FlattenSeq(t) \in Seq(X)
    BY FlattenAppend, FlattenType
  <2>2. ToSet(FlattenSeq(t) \o x) = ToSet(FlattenSeq(t)) \cup ToSet(x)
    BY <2>1, ElementsCat
  <2>3. ToSet(Append(t, x)) = ToSet(t) \cup {x} /\ Append(t, x) \in Seq(Seq(X))
    BY ElementsAppend, AppendProperties
  <2>4. UNION {ToSet(part) : part \in ToSet(t) \cup {x}}
          = (UNION {ToSet(part) : part \in ToSet(t)}) \cup ToSet(x)
    OBVIOUS
  <2> QED BY <1>2, <2>1, <2>2, <2>3, <2>4
<1>3. Seq(Seq(X)) \subseteq S
  <2> HIDE DEF S
  <2> QED BY <1>1, <1>2, BackInduction
<1> QED BY <1>3

(* A function applied to every element.                                    *)
Mapped(s, g) == [i \in DOMAIN s |-> g[s[i]]]

(* The images are as many as the elements.                                 *)
LEMMA MappedTyped ==
  ASSUME NEW X, NEW Y, NEW g \in [X -> Y], NEW s \in Seq(X)
  PROVE  Mapped(s, g) \in Seq(Y) /\ Len(Mapped(s, g)) = Len(s)
<1>1. DOMAIN s = 1 .. Len(s) /\ Len(s) \in Nat /\ \A i \in 1 .. Len(s) : g[s[i]] \in Y
  BY LenProperties, ElementOfSeq
<1> QED BY <1>1 DEF Mapped

(* The image of one more element is appended.                              *)
LEMMA MappedAppend ==
  ASSUME NEW X, NEW Y, NEW g \in [X -> Y], NEW s \in Seq(X), NEW x \in X
  PROVE  Mapped(Append(s, x), g) = Append(Mapped(s, g), g[x])
<1> DEFINE t == Append(s, x)  m == Mapped(s, g)  y == g[x]
<1>1. /\ t \in Seq(X) /\ Len(t) = Len(s) + 1 /\ t[Len(s) + 1] = x
      /\ \A i \in 1 .. Len(s) : t[i] = s[i]
  BY AppendProperties
<1>2. m \in Seq(Y) /\ Len(m) = Len(s) /\ Mapped(t, g) \in Seq(Y) /\ Len(Mapped(t, g)) = Len(t) /\ y \in Y
  <2>1. g[x] \in Y
    OBVIOUS
  <2>2. Mapped(s, g) \in Seq(Y) /\ Len(Mapped(s, g)) = Len(s)
    <3> HIDE DEF t, m, y
    <3> QED BY <1>1, MappedTyped
  <2>3. Mapped(t, g) \in Seq(Y) /\ Len(Mapped(t, g)) = Len(t)
    <3> HIDE DEF t
    <3> QED BY <1>1, MappedTyped
  <2> QED BY <2>1, <2>2, <2>3
<1>3. /\ Append(m, y) \in Seq(Y) /\ Len(Append(m, y)) = Len(s) + 1
      /\ Append(m, y)[Len(s) + 1] = y /\ \A i \in 1 .. Len(s) : Append(m, y)[i] = m[i]
  <2> HIDE DEF m, y
  <2> QED BY <1>2, AppendProperties
<1>4. /\ \A i \in 1 .. Len(s) : m[i] = g[s[i]]
      /\ \A i \in 1 .. Len(s) + 1 : Mapped(t, g)[i] = g[t[i]]
  BY <1>1, LenProperties DEF Mapped
<1> HIDE DEF t, m, y
<1>5. \A i \in 1 .. Len(s) + 1 : Mapped(t, g)[i] = Append(m, y)[i]
  <2> SUFFICES ASSUME NEW i \in 1 .. Len(s) + 1 PROVE Mapped(t, g)[i] = Append(m, y)[i]
    OBVIOUS
  <2>1. CASE i = Len(s) + 1
    BY <1>1, <1>3, <1>4, <2>1 DEF y
  <2>2. CASE i # Len(s) + 1
    <3>1. i \in 1 .. Len(s)
      BY <2>2, LenProperties
    <3> QED BY <1>1, <1>3, <1>4, <3>1
  <2> QED BY <2>1, <2>2
<1> QED BY <1>1, <1>2, <1>3, <1>5, SeqEqual DEF t, m, y

(* A concatenation is mapped part by part.                                 *)
LEMMA MappedCat ==
  ASSUME NEW X, NEW Y, NEW g \in [X -> Y], NEW s \in Seq(X), NEW t \in Seq(X)
  PROVE  Mapped(s \o t, g) = Mapped(s, g) \o Mapped(t, g)
<1> DEFINE S == {w \in Seq(X) : Mapped(s \o w, g) = Mapped(s, g) \o Mapped(w, g)}
<1>1. <<>> \in S
  <2>1. s \o <<>> = s /\ Mapped(<<>>, g) = <<>> /\ Mapped(s, g) \in Seq(Y)
    BY ConcatEmptySeq, MappedTyped DEF Mapped
  <2>2. Mapped(s, g) \o <<>> = Mapped(s, g)
    BY <2>1, ConcatEmptySeq
  <2> QED BY <2>1, <2>2, EmptySeq
<1>2. ASSUME NEW w \in Seq(X), NEW x \in X, w \in S PROVE Append(w, x) \in S
  <2>1. s \o Append(w, x) = Append(s \o w, x) /\ s \o w \in Seq(X) /\ Append(w, x) \in Seq(X)
    OBVIOUS
  <2>2. /\ Mapped(Append(s \o w, x), g) = Append(Mapped(s \o w, g), g[x])
        /\ Mapped(Append(w, x), g) = Append(Mapped(w, g), g[x])
    BY <2>1, MappedAppend
  <2>3. \A p, q \in Seq(Y) : \A y \in Y : Append(p \o q, y) = p \o Append(q, y)
    <3> SUFFICES ASSUME NEW p \in Seq(Y), NEW q \in Seq(Y), NEW y \in Y
                 PROVE  Append(p \o q, y) = p \o Append(q, y)
      OBVIOUS
    <3>1. p \o Append(q, y) = Append(p \o q, y) /\ p \o q \in Seq(Y) /\ Append(q, y) \in Seq(Y)
      OBVIOUS
    <3> QED BY <3>1
  <2>4. Mapped(s, g) \in Seq(Y) /\ Mapped(w, g) \in Seq(Y) /\ g[x] \in Y
    BY MappedTyped
  <2>5. Append(Mapped(s, g) \o Mapped(w, g), g[x]) = Mapped(s, g) \o Append(Mapped(w, g), g[x])
    BY <2>3, <2>4, Zenon
  <2> QED BY <1>2, <2>1, <2>2, <2>5
<1>3. Seq(X) \subseteq S
  <2> HIDE DEF S
  <2> QED BY <1>1, <1>2, BackInduction
<1> QED BY <1>3

(* What is made of each part of a flattened sequence, one after another.   *)
LEMMA FlatMade ==
  ASSUME NEW X, NEW Y, NEW h \in [Seq(X) -> Seq(Y)], h[<<>>] = <<>>,
         \A p, q \in Seq(X) : h[p \o q] = h[p] \o h[q],
         NEW parts \in Seq(Seq(X))
  PROVE  h[FlattenSeq(parts)] = FlattenSeq(Mapped(parts, h))
<1> DEFINE S == {t \in Seq(Seq(X)) : h[FlattenSeq(t)] = FlattenSeq(Mapped(t, h))}
<1>1. <<>> \in S
  <2>1. Mapped(<<>>, h) = <<>>
    BY DEF Mapped
  <2> QED BY <2>1, FlattenEmpty, EmptySeq
<1>2. ASSUME NEW t \in Seq(Seq(X)), NEW x \in Seq(X), t \in S PROVE Append(t, x) \in S
  <2>1. FlattenSeq(Append(t, x)) = FlattenSeq(t) \o x /\ FlattenSeq(t) \in Seq(X)
        /\ Append(t, x) \in Seq(Seq(X))
    BY FlattenAppend, FlattenType, AppendProperties
  <2>2. Mapped(Append(t, x), h) = Append(Mapped(t, h), h[x]) /\ Mapped(t, h) \in Seq(Seq(Y))
        /\ h[x] \in Seq(Y)
    BY MappedAppend, MappedTyped
  <2>3. FlattenSeq(Append(Mapped(t, h), h[x])) = FlattenSeq(Mapped(t, h)) \o h[x]
    BY <2>2, FlattenAppend
  <2>4. h[FlattenSeq(t) \o x] = h[FlattenSeq(t)] \o h[x]
    BY <2>1
  <2> QED BY <1>2, <2>1, <2>2, <2>3, <2>4
<1>3. Seq(Seq(X)) \subseteq S
  <2> HIDE DEF S
  <2> QED BY <1>1, <1>2, BackInduction
<1> QED BY <1>3

(* A sequence of sequences of one element each, flattened.                 *)
LEMMA FlattenSingles ==
  ASSUME NEW X, NEW s \in Seq(X) PROVE FlattenSeq([i \in DOMAIN s |-> <<s[i]>>]) = s
<1> DEFINE g == [x \in X |-> <<x>>]
           S == {t \in Seq(X) : FlattenSeq(Mapped(t, g)) = t}
<1>1. g \in [X -> Seq(X)] /\ \A x \in X : g[x] = <<x>>
  BY TwoTyped
<1> HIDE DEF g
<1>2. <<>> \in S
  <2>1. Mapped(<<>>, g) = <<>>
    BY DEF Mapped
  <2> QED BY <2>1, FlattenEmpty, EmptySeq
<1>3. ASSUME NEW t \in Seq(X), NEW x \in X, t \in S PROVE Append(t, x) \in S
  <2>1. Mapped(Append(t, x), g) = Append(Mapped(t, g), g[x]) /\ Mapped(t, g) \in Seq(Seq(X)) /\ g[x] \in Seq(X)
    BY <1>1, MappedAppend, MappedTyped
  <2>2. FlattenSeq(Append(Mapped(t, g), g[x])) = FlattenSeq(Mapped(t, g)) \o g[x]
    BY <2>1, FlattenAppend
  <2>3. t \o <<x>> = Append(t, x) /\ Append(t, x) \in Seq(X)
    BY AppendIsConcat, AppendProperties
  <2> QED BY <1>1, <1>3, <2>1, <2>2, <2>3
<1>4. s \in S
  <2> HIDE DEF S
  <2> QED BY <1>2, <1>3, BackInduction
<1>5. Mapped(s, g) = [i \in DOMAIN s |-> <<s[i]>>]
  <2>1. \A i \in DOMAIN s : s[i] \in X
    BY LenProperties, ElementOfSeq
  <2> QED BY <1>1, <2>1 DEF Mapped
<1> QED BY <1>4, <1>5

(* A text begins with another one.                                         *)
LEMMA PrefixIs ==
  ASSUME NEW X, NEW s \in Seq(X), NEW t \in Seq(X)
  PROVE  IsPrefix(s, t) <=> Len(s) <= Len(t) /\ \A i \in 1 .. Len(s) : s[i] = t[i]
<1> DEFINE n == Len(s)  p == SubSeq(s, 1, n)  q == SubSeq(t, 1, n)
<1>1. n \in Nat /\ Len(t) \in Nat /\ \A i \in 1 .. n : s[i] \in X
  BY LenProperties, ElementOfSeq
<1>2. n <= Len(t) => \A i \in 1 .. n : t[i] \in X
  BY <1>1, ElementOfSeq
<1>3. 1 \in Int /\ n \in Int /\ n - 1 + 1 = n /\ (IF 1 <= n THEN n - 1 + 1 ELSE 0) = n
      /\ \A i \in 1 .. n : 1 + i - 1 = i
  BY <1>1
<1> HIDE DEF n
<1>4. p \in Seq(X) /\ Len(p) = n /\ \A i \in 1 .. n : p[i] = s[i]
  <2> HIDE DEF p
  <2>1. /\ p \in Seq(X) /\ Len(p) = (IF 1 <= n THEN n - 1 + 1 ELSE 0)
        /\ \A i \in 1 .. n - 1 + 1 : p[i] = s[1 + i - 1]
    BY <1>1, <1>3, SubSeqProperties DEF p
  <2> QED BY <1>3, <2>1
<1>5. n <= Len(t) => q \in Seq(X) /\ Len(q) = n /\ \A i \in 1 .. n : q[i] = t[i]
  <2> SUFFICES ASSUME n <= Len(t) PROVE q \in Seq(X) /\ Len(q) = n /\ \A i \in 1 .. n : q[i] = t[i]
    OBVIOUS
  <2> HIDE DEF q
  <2>1. /\ q \in Seq(X) /\ Len(q) = (IF 1 <= n THEN n - 1 + 1 ELSE 0)
        /\ \A i \in 1 .. n - 1 + 1 : q[i] = t[1 + i - 1]
    BY <1>2, <1>3, SubSeqProperties DEF q
  <2> QED BY <1>3, <2>1
<1> HIDE DEF p, q
<1>6. n <= Len(t) => (p = q <=> \A i \in 1 .. n : s[i] = t[i])
  <2>1. ASSUME n <= Len(t), \A i \in 1 .. n : s[i] = t[i] PROVE p = q
    <3>1. Len(p) = Len(q) /\ \A i \in 1 .. Len(p) : p[i] = q[i]
      BY <1>4, <1>5, <2>1
    <3> QED BY <1>4, <1>5, <2>1, <3>1, SeqEqual
  <2>2. ASSUME n <= Len(t), p = q PROVE \A i \in 1 .. n : s[i] = t[i]
    BY <1>4, <1>5, <2>2
  <2> QED BY <2>1, <2>2
<1>7. IsPrefix(s, t) <=> n <= Len(t) /\ p = q
  BY DEF IsPrefix, n, p, q
<1> QED BY <1>6, <1>7 DEF n

(* A text begins with one character.                                       *)
LEMMA BeginsOne ==
  ASSUME NEW X, NEW a \in X, NEW t \in Seq(X)
  PROVE  IsPrefix(<<a>>, t) <=> t # <<>> /\ t[1] = a
<1> DEFINE s == <<a>>
<1>1. s \in Seq(X) /\ Len(s) = 1 /\ s[1] = a /\ Len(t) \in Nat /\ (t # <<>> <=> Len(t) >= 1)
  BY LenProperties, TwoTyped, EmptySeq
<1> HIDE DEF s
<1>2. IsPrefix(s, t) <=> Len(s) <= Len(t) /\ \A i \in 1 .. Len(s) : s[i] = t[i]
  BY <1>1, PrefixIs
<1>3. IsPrefix(s, t) <=> t # <<>> /\ t[1] = a
  BY <1>1, <1>2
<1> QED BY <1>3 DEF s

(* A text begins with two characters.                                      *)
LEMMA BeginsTwo ==
  ASSUME NEW X, NEW a \in X, NEW b \in X, NEW t \in Seq(X)
  PROVE  IsPrefix(<<a, b>>, t) <=> Len(t) >= 2 /\ t[1] = a /\ t[2] = b
<1> DEFINE s == <<a, b>>
<1>1. s \in Seq(X) /\ Len(s) = 2 /\ s[1] = a /\ s[2] = b /\ Len(t) \in Nat
  BY LenProperties, TwoTyped
<1> HIDE DEF s
<1>2. IsPrefix(s, t) <=> Len(s) <= Len(t) /\ \A i \in 1 .. Len(s) : s[i] = t[i]
  BY <1>1, PrefixIs
<1>3. IsPrefix(s, t) <=> Len(t) >= 2 /\ t[1] = a /\ t[2] = b
  BY <1>1, <1>2
<1> QED BY <1>3 DEF s

(* The beginnings of two texts that are equal place by place.              *)
LEMMA SameBeginning ==
  ASSUME NEW X, NEW s \in Seq(X), NEW t \in Seq(X), NEW k \in Nat, k <= Len(s), k <= Len(t),
         \A i \in 1 .. k : s[i] = t[i]
  PROVE  SubSeq(s, 1, k) = SubSeq(t, 1, k)
<1> DEFINE p == SubSeq(s, 1, k)  q == SubSeq(t, 1, k)
<1>1. /\ Len(s) \in Nat /\ Len(t) \in Nat
      /\ \A i \in 1 .. k : s[i] \in X /\ t[i] \in X
  BY LenProperties, ElementOfSeq
<1>2. 1 \in Int /\ k \in Int /\ (IF 1 <= k THEN k - 1 + 1 ELSE 0) = k /\ k - 1 + 1 = k
      /\ \A i \in 1 .. k : 1 + i - 1 = i
  OBVIOUS
<1>3. p \in Seq(X) /\ Len(p) = k /\ \A i \in 1 .. k : p[i] = s[i]
  <2> HIDE DEF p
  <2>1. /\ p \in Seq(X) /\ Len(p) = (IF 1 <= k THEN k - 1 + 1 ELSE 0)
        /\ \A i \in 1 .. k - 1 + 1 : p[i] = s[1 + i - 1]
    BY <1>1, <1>2, SubSeqProperties DEF p
  <2> QED BY <1>2, <2>1
<1>4. q \in Seq(X) /\ Len(q) = k /\ \A i \in 1 .. k : q[i] = t[i]
  <2> HIDE DEF q
  <2>1. /\ q \in Seq(X) /\ Len(q) = (IF 1 <= k THEN k - 1 + 1 ELSE 0)
        /\ \A i \in 1 .. k - 1 + 1 : q[i] = t[1 + i - 1]
    BY <1>1, <1>2, SubSeqProperties DEF q
  <2> QED BY <1>2, <2>1
<1> HIDE DEF p, q
<1>5. Len(p) = Len(q) /\ \A i \in 1 .. Len(p) : p[i] = q[i]
  BY <1>3, <1>4
<1>6. p = q
  BY <1>3, <1>4, <1>5, SeqEqual
<1> QED BY <1>6 DEF p, q
=============================================================================
