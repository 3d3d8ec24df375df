----------------------------- MODULE TraceProofs -----------------------------
(* Proofs for every value of the constants about the SQL logger             *)
(* (GormSlogLogger): where the tokens of a statement stand in what GORM     *)
(* renders, which branch of redactSQLValues each one takes and where that   *)
(* branch leaves off, and so that the preview lists what it has to show.    *)
EXTENDS GormSlogLogger, Recursion
-----------------------------------------------------------------------------
(* What a preview is made of, and what a statement is spelt with.           *)
Text == {"a", "e", "=", "$", Space, Wide}
Glyphs == Text \cup {"?"}
Runes == STRING \cup Text \cup {"1", ".", "'", "\\"}

(* An element comes after all that precede it, and every place in the list  *)
(* is that of some element.                                                 *)
LEMMA RankPlaces ==
  ASSUME NEW m \in Nat, NEW K \in SUBSET (1..m)
  PROVE  /\ Rank(K, m) = Cardinality(K)
         /\ \A i \in K, n \in Nat : n < i => Rank(K, n) < Rank(K, i)
         /\ \A n \in 0..m : \A r \in 1..Rank(K, n) : \E i \in K : i <= n /\ Rank(K, i) = r
<1>0. \A j \in K : j \in Nat /\ j \in 1..m /\ j <= m /\ j - 1 \in Nat
  OBVIOUS
<1>1. Rank(K, m) = Cardinality(K)
  <2>1. {j \in K : j <= m} = K
    BY <1>0, Zenon
  <2>. QED  BY <2>1, Zenon DEF Rank
<1>2. ASSUME NEW i \in K, NEW n \in Nat, n < i PROVE Rank(K, n) < Rank(K, i)
  <2>1. n <= i - 1
    BY <1>0, <1>2
  <2>2. Rank(K, i) = Rank(K, i - 1) + 1 /\ Rank(K, n) <= Rank(K, i - 1) /\ Rank(K, n) \in Nat /\ Rank(K, i - 1) \in Nat
    BY <1>0, <2>1, RankFacts, Zenon
  <2>. QED  BY <2>2
<1>. DEFINE T == {n \in 0..m : \A r \in 1..Rank(K, n) : \E i \in K : i <= n /\ Rank(K, i) = r}
<1>3. 0 \in T
  <2>1. 0 \in 0..m /\ \A r \in 1..0 : FALSE
    OBVIOUS
  <2>2. Rank(K, 0) = 0
    BY RankFacts, Zenon
  <2>. QED  BY <2>1, <2>2, Zenon
<1>4. ASSUME NEW n \in 0..m - 1, n \in T PROVE n + 1 \in T
  <2>0. n + 1 \in 1..m /\ n + 1 \in 0..m /\ (n + 1) - 1 = n /\ n \in Nat /\ n <= n + 1 /\ n + 1 <= n + 1
    OBVIOUS
  <2>. SUFFICES ASSUME NEW r \in 1..Rank(K, n + 1) PROVE \E i \in K : i <= n + 1 /\ Rank(K, i) = r
    BY <2>0, Zenon
  <2>1. Rank(K, n) \in Nat /\ (n + 1 \in K => Rank(K, n + 1) = Rank(K, n) + 1) /\ (n + 1 \notin K => Rank(K, n + 1) = Rank(K, n))
    <3>1. /\ \A k \in 1..m : k \in K => Rank(K, k) = Rank(K, k - 1) + 1
          /\ \A k \in 1..m : k \notin K => Rank(K, k) = Rank(K, k - 1)
          /\ Rank(K, n) \in Nat
      BY <2>0, RankFacts, Zenon
    <3>. QED  BY <2>0, <3>1, Zenon
  <2>2. CASE r \in 1..Rank(K, n)
    <3>1. PICK i \in K : i <= n /\ Rank(K, i) = r
      BY <1>4, <2>2, Zenon
    <3>2. i <= n + 1
      BY <1>0, <2>0, <3>1
    <3>. QED  BY <3>1, <3>2, Zenon
  <2>3. CASE r \notin 1..Rank(K, n)
    <3>1. n + 1 \in K /\ r = Rank(K, n + 1)
      BY <2>1, <2>3
    <3>. QED  BY <2>0, <3>1, Zenon
  <2>. QED  BY <2>2, <2>3, Zenon
<1>. HIDE DEF T
<1>5. 0..m \subseteq T
  BY <1>3, <1>4, InductionUpTo, Zenon
<1>. QED  BY <1>1, <1>2, <1>5, Zenon DEF T

(* What redactSQLValues writes of a statement that shows t: a space only    *)
(* after something that is none.                                            *)
Written(t) == {i \in DOMAIN t : t[i] = Space => i > 1 /\ t[i - 1] # Space}

(* L is the last of the first n that is no space, 0 if there is none.       *)
LastSolid(t, n, L) ==
  L \in 0..n /\ (L > 0 => t[L] # Space) /\ \A j \in 1..n : t[j] # Space => j <= L

(* There is one.                                                            *)
LEMMA LastSolidExists ==
  ASSUME NEW n \in Nat, NEW t
  PROVE  \E L : LastSolid(t, n, L)
<1>. DEFINE S == {j \in 1..n : t[j] # Space}
<1>1. CASE S = {}
  <2>1. 0 \in 0..n /\ ~(0 > 0)
    OBVIOUS
  <2>2. LastSolid(t, n, 0)
    BY <1>1, <2>1, Zenon DEF LastSolid
  <2>. QED  BY <2>2, Zenon
<1>2. CASE S # {}
  <2>1. S \in SUBSET (1..n)
    BY Zenon
  <2>2. Max(S) \in S /\ \A x \in S : x <= Max(S)
    <3>. HIDE DEF S
    <3>. QED  BY <1>2, <2>1, MaxOfIndices, Zenon
  <2>3. \A j \in 1..n : j \in 0..n
    OBVIOUS
  <2>4. LastSolid(t, n, Max(S))
    BY <2>2, <2>3, Zenon DEF LastSolid
  <2>. QED  BY <2>4, Zenon
<1>. QED  BY <1>1, <1>2, Zenon

(* What is written of no solid glyph is nothing.                            *)
LEMMA NothingWritten ==
  ASSUME NEW N \in Nat, NEW t, DOMAIN t = 1..N, NEW n \in 0..N, LastSolid(t, n, 0)
  PROVE  Rank(Written(t), n) = 0
<1>. DEFINE W == Written(t)
<1>1. \A i \in 1..n : i \in 1..N /\ (i > 1 => i - 1 \in 1..n) /\ ~(i <= 0)
  OBVIOUS
<1>2. ASSUME NEW i \in W, i <= n PROVE FALSE
  <2>1. i \in 1..N /\ (t[i] = Space => i > 1 /\ t[i - 1] # Space)
    BY Zenon DEF Written
  <2>2. i \in 1..n
    BY <1>2, <2>1
  <2>. QED  BY <1>1, <2>1, <2>2, Zenon DEF LastSolid
<1>3. {j \in W : j <= n} = {}
  BY <1>2, Zenon
<1>. QED  BY <1>3, FS_EmptySet, Zenon DEF Rank

(* strings.TrimSpace cuts what was written behind the last solid glyph; in  *)
(* front there is nothing to cut.                                           *)
LEMMA Trimmed ==
  ASSUME NEW N \in Nat, NEW t \in [1..N -> Glyphs], NEW n \in 0..N, NEW o,
         Line(Glyphs, t, Written(t), o, n), NEW L, LastSolid(t, n, L)
  PROVE  TrimSpace(o) = SubSeq(o, 1, Rank(Written(t), L)) /\ Rank(Written(t), L) \in 0..Len(o)
<1>. DEFINE W == Written(t)
            solid == {r \in DOMAIN o : o[r] # Space}
            R == Rank(W, L)
<1>0. W \in SUBSET (1..N) /\ DOMAIN t = 1..N /\ \A i \in W : i \in Nat /\ i - 1 \in Nat
  <2>1. W \in SUBSET (1..N) /\ DOMAIN t = 1..N
    BY Zenon DEF Written
  <2>. HIDE DEF W
  <2>. QED  BY <2>1
<1>1. o \in Seq(Glyphs) /\ Len(o) = Rank(W, n) /\ \A i \in W : i <= n => o[Rank(W, i)] = t[i]
  BY Zenon DEF Line
<1>2. n \in Nat /\ L \in Nat /\ L <= n
  BY DEF LastSolid
<1>a. Len(o) \in Nat /\ DOMAIN o = 1..Len(o)
  BY <1>1
<1>3. R \in Nat /\ R <= Len(o)
  <2>1. W \in SUBSET (1..N) /\ Len(o) = Rank(W, n)
    BY <1>0, <1>1, Zenon
  <2>. HIDE DEF W
  <2>2. R \in Nat /\ R <= Rank(W, n)
    BY <1>2, <2>1, RankFacts, Zenon
  <2>. QED  BY <2>1, <2>2, Zenon
<1>4. CASE L = 0
  <2>1. Rank(W, n) = 0 /\ Rank(W, 0) = 0
    BY <1>0, <1>4, NothingWritten, RankFacts, ZenonT(30)
  <2>2. DOMAIN o = {} /\ SubSeq(o, 1, 0) = <<>>
    BY <1>1, <1>a, <2>1
  <2>3. TrimSpace(o) = <<>>
    BY <2>2, Zenon DEF TrimSpace
  <2>4. R \in 0..Len(o)
    BY <1>3
  <2>. QED  BY <1>4, <2>1, <2>2, <2>3, <2>4, Zenon
<1>5. CASE L # 0
  <2>1. L \in 1..n /\ L \in 1..N /\ t[L] # Space
    BY <1>2, <1>5 DEF LastSolid
  <2>2. L \in W
    BY <1>0, <2>1, Zenon DEF Written
  <2>3. R >= 1
    <3>1. Rank(W, L) = Rank(W, L - 1) + 1 /\ Rank(W, L - 1) \in Nat
      BY <1>0, <2>2, RankFacts, Zenon
    <3>. QED  BY <3>1
  <2>4. R \in solid
    <3>1. R \in 1..Len(o)
      BY <1>3, <1>a, <2>3
    <3>. QED  BY <1>1, <1>2, <1>a, <2>1, <2>2, <3>1, Zenon
  <2>p. \A r \in 1..Len(o) : \E i \in W : i <= n /\ Rank(W, i) = r
    <3>1. \A l \in 0..N : \A r \in 1..Rank(W, l) : \E i \in W : i <= l /\ Rank(W, i) = r
      BY <1>0, RankPlaces, Zenon
    <3>. QED  BY <1>1, <3>1, Zenon
  <2>5. ASSUME NEW r \in solid PROVE r <= R
    <3>1. PICK i \in W : i <= n /\ Rank(W, i) = r
      BY <1>a, <2>p, Zenon
    <3>2. i \in 1..n /\ t[i] # Space
      <4>1. i \in 1..n
        BY <1>0, <1>2, <3>1
      <4>. QED  BY <1>1, <3>1, <4>1, Zenon
    <3>3. i <= L
      BY <3>2, Zenon DEF LastSolid
    <3>. QED  BY <1>0, <1>2, <3>1, <3>3, RankFacts, Zenon
  <2>6. 1 \in solid /\ \A r \in solid : 1 <= r
    <3>1. 1 \in 1..Len(o) /\ \A r \in 1..Len(o) : 1 <= r
      BY <1>3, <1>a, <2>3
    <3>2. PICK i \in W : i <= n /\ Rank(W, i) = 1
      BY <2>p, <3>1, Zenon
    <3>3. ASSUME t[i] = Space PROVE FALSE
      <4>1. i > 1 /\ t[i - 1] # Space /\ i \in 1..N
        BY <1>0, <3>3, Zenon DEF Written
      <4>2. i - 1 \in 1..N /\ (i - 1) - 1 \in Nat
        BY <4>1
      <4>3. i - 1 \in W
        BY <1>0, <4>1, <4>2, Zenon DEF Written
      <4>4. /\ Rank(W, i) = Rank(W, i - 1) + 1
            /\ Rank(W, i - 1) = Rank(W, (i - 1) - 1) + 1 /\ Rank(W, (i - 1) - 1) \in Nat
        BY <1>0, <4>2, <4>3, RankFacts, Zenon
      <4>. QED  BY <3>2, <4>4
    <3>. QED  BY <1>1, <1>a, <3>1, <3>2, <3>3, Zenon
  <2>7. TrimSpace(o) = SubSeq(o, Min(solid), Max(solid))
    BY <2>4, Zenon DEF TrimSpace
  <2>8. solid \in SUBSET (1..Len(o))
    BY <1>a, Zenon
  <2>. HIDE DEF solid, R
  <2>9. Max(solid) = R
    <3>1. Max(solid) \in solid /\ \A x \in solid : x <= Max(solid)
      BY <1>a, <2>4, <2>8, MaxOfIndices, Zenon
    <3>2. R <= Max(solid) /\ Max(solid) <= R /\ Max(solid) \in 1..Len(o)
      BY <2>4, <2>5, <2>8, <3>1, Zenon
    <3>. QED  BY <1>3, <3>2
  <2>10. Min(solid) = 1
    <3>1. Min(solid) \in solid /\ \A x \in solid : Min(solid) <= x
      BY <2>6, Zenon DEF Min
    <3>2. Min(solid) <= 1 /\ Min(solid) \in 1..Len(o)
      BY <2>6, <2>8, <3>1, Zenon
    <3>. QED  BY <3>2
  <2>11. R \in 0..Len(o)
    BY <1>3, <1>a
  <2>. QED  BY <2>7, <2>9, <2>10, <2>11, Zenon DEF R
<1>. QED  BY <1>4, <1>5, Zenon

(* What a preview may keep is what is written up to the last solid glyph.   *)
LEMMA KeptIsWritten ==
  ASSUME NEW N \in Nat, NEW t \in [1..N -> Glyphs], NEW E, LastSolid(t, N, E)
  PROVE  Kept(t) = {i \in Written(t) : i <= E}
<1>0. DOMAIN t = 1..N /\ Len(t) = N
  OBVIOUS
<1>1. E \in 0..N /\ (E > 0 => t[E] # Space) /\ \A j \in 1..N : t[j] # Space => j <= E
  BY Zenon DEF LastSolid
<1>2. ASSUME NEW i \in 1..N PROVE (t[i] = Space => \E j \in i..N : t[j] # Space) <=> i <= E
  <2>1. ASSUME NEW j \in i..N, t[j] # Space PROVE i <= E
    <3>1. j \in 1..N /\ i <= j
      OBVIOUS
    <3>2. j <= E
      BY <1>1, <2>1, <3>1, Zenon
    <3>. QED  BY <1>1, <3>1, <3>2
  <2>2. ASSUME i <= E PROVE E \in i..N /\ E > 0
    BY <1>1, <2>2
  <2>. QED  BY <1>1, <2>1, <2>2, Zenon
<1>3. ASSUME NEW i \in 1..N PROVE i \in Kept(t) <=> i \in Written(t) /\ i <= E
  BY <1>0, <1>2, Zenon DEF Kept, Written
<1>4. Kept(t) \subseteq 1..N /\ Written(t) \subseteq 1..N
  BY <1>0, Zenon DEF Kept, Written
<1>. QED  BY <1>3, <1>4, Zenon

(* Up to E, what is kept of K up to E is counted as in K.                   *)
LEMMA RankUpTo ==
  ASSUME NEW m \in Nat, NEW K \in SUBSET (1..m), NEW E \in Nat, NEW i \in 1..m, i <= E
  PROVE  Rank({j \in K : j <= E}, i) = Rank(K, i)
<1>1. \A j \in K : j <= i => j <= E
  OBVIOUS
<1>2. {l \in {j \in K : j <= E} : l <= i} = {j \in K : j <= i}
  BY <1>1, Zenon
<1>. QED  BY <1>2, Zenon DEF Rank

(* The first k glyphs written, none behind the last solid one, begin what   *)
(* the statement shows.                                                     *)
LEMMA PreviewStarts ==
  ASSUME NEW N \in Nat, NEW t \in [1..N -> Glyphs], NEW n \in 0..N, NEW o,
         Line(Glyphs, t, Written(t), o, n), NEW L, LastSolid(t, n, L),
         NEW k \in 0..Rank(Written(t), L)
  PROVE  /\ ListsStart(SubSeq(o, 1, k), t, Kept(t))
         /\ n = N /\ k = Rank(Written(t), L) => Lists(SubSeq(o, 1, k), t, Kept(t))
<1>. DEFINE W == Written(t)
            b == SubSeq(o, 1, k)
<1>1. PICK E : LastSolid(t, N, E)
  BY LastSolidExists, Zenon
<1>. DEFINE J == {i \in W : i <= E}
<1>2. Kept(t) = J
  BY <1>1, KeptIsWritten, Zenon
<1>0. W \in SUBSET (1..N)
  BY Zenon DEF Written
<1>a. \A i \in W : i \in Nat /\ i \in 1..N
  <2>. HIDE DEF W
  <2>. QED  BY <1>0
<1>3. n \in Nat /\ L \in Nat /\ L <= n /\ E \in Nat /\ n <= N
  <2>1. L \in 0..n /\ E \in 0..N
    BY <1>1, Zenon DEF LastSolid
  <2>. QED  BY <2>1
<1>4. L <= E
  <2>1. CASE L > 0
    <3>1. L \in 1..N
      BY <1>3, <2>1
    <3>2. t[L] # Space
      BY <2>1, Zenon DEF LastSolid
    <3>. QED  BY <1>1, <3>1, <3>2, Zenon DEF LastSolid
  <2>2. CASE ~(L > 0)
    BY <1>3, <2>2
  <2>. QED  BY <2>1, <2>2, Zenon
<1>5. Line(Glyphs, t, W, o, n)
  OBVIOUS
<1>. HIDE DEF W
<1>6. o \in Seq(Glyphs) /\ Len(o) = Rank(W, n) /\ \A i \in W : i <= n => o[Rank(W, i)] = t[i]
  BY <1>5, Zenon DEF Line
<1>7. /\ Rank(W, L) \in Nat /\ Rank(W, n) \in Nat /\ Rank(W, E) \in Nat
      /\ Rank(W, L) <= Rank(W, n) /\ Rank(W, L) <= Rank(W, E)
  BY <1>0, <1>3, <1>4, RankFacts, Zenon
<1>8. Cardinality(J) = Rank(W, E)
  BY Zenon DEF Rank
<1>9. k \in Nat /\ k <= Rank(W, L) /\ k <= Len(o)
  BY <1>6, <1>7 DEF W
<1>10. Len(b) = k /\ \A r \in 1..k : b[r] = o[r]
  BY <1>6, <1>9
<1>11. \A i \in J : Rank(J, i) = Rank(W, i) /\ Rank(W, i) \in Nat /\ Rank(W, i) >= 1
  <2>. SUFFICES ASSUME NEW i \in W, i <= E
                PROVE  Rank(J, i) = Rank(W, i) /\ Rank(W, i) \in Nat /\ Rank(W, i) >= 1
    BY Zenon
  <2>1. Rank(J, i) = Rank(W, i)
    BY <1>0, <1>3, <1>a, RankUpTo, ZenonT(30)
  <2>2. i - 1 \in Nat
    BY <1>a
  <2>3. Rank(W, i) = Rank(W, i - 1) + 1 /\ Rank(W, i - 1) \in Nat
    BY <1>0, <1>a, <2>2, RankFacts, Zenon
  <2>. QED  BY <2>1, <2>3
<1>12. ASSUME NEW i \in J, Rank(J, i) <= k PROVE b[Rank(J, i)] = t[i]
  <2>1. i \in W /\ Rank(J, i) = Rank(W, i) /\ Rank(W, i) \in 1..k
    BY <1>9, <1>11, <1>12
  <2>2. i <= n
    <3>. SUFFICES ASSUME n < i PROVE FALSE
      BY <1>3, <1>a, <2>1
    <3>1. Rank(W, n) < Rank(W, i)
      BY <1>0, <1>3, <2>1, RankPlaces, Zenon
    <3>. QED  BY <1>7, <1>9, <2>1, <3>1
  <2>. QED  BY <1>6, <1>10, <2>1, <2>2, Zenon
<1>13. ListsStart(b, t, J)
  <2>1. Len(b) <= Cardinality(J)
    BY <1>7, <1>8, <1>9, <1>10
  <2>. QED  BY <1>10, <1>12, <2>1, Zenon DEF ListsStart
<1>14. ASSUME n = N, k = Rank(W, L) PROVE Lists(b, t, J)
  <2>1. E <= L
    <3>1. CASE E > 0
      <4>1. E \in 1..N
        <5>1. E \in 0..N
          BY <1>1, Zenon DEF LastSolid
        <5>. QED  BY <3>1, <5>1
      <4>2. t[E] # Space
        BY <1>1, <3>1, Zenon DEF LastSolid
      <4>. QED  BY <1>14, <4>1, <4>2, Zenon DEF LastSolid
    <3>2. CASE ~(E > 0)
      BY <1>3, <3>2
    <3>. QED  BY <3>1, <3>2, Zenon
  <2>2. E = L
    BY <1>3, <1>4, <2>1
  <2>3. \A i \in J : Rank(J, i) <= k
    <3>1. \A i \in J : i \in Nat /\ i <= L
      BY <1>a, <2>2, Zenon
    <3>2. \A i \in J : Rank(W, i) <= Rank(W, L)
      BY <1>0, <1>3, <3>1, RankFacts, Zenon
    <3>. QED  BY <1>11, <1>14, <3>2, Zenon
  <2>4. Len(b) = Cardinality(J)
    BY <1>8, <1>10, <1>14, <2>2, Zenon
  <2>. QED  BY <1>12, <2>3, <2>4, Zenon DEF Lists
<1>. QED  BY <1>2, <1>13, <1>14, Zenon DEF W

(* The runes of more than one byte.                                         *)
WideAt(s) == {i \in DOMAIN s : s[i] \in {Wide, Marker}}

(* The marker adds three bytes.                                             *)
LEMMA MarkerBytes ==
  ASSUME NEW V, NEW u \in Seq(V)
  PROVE  Bytes(u) \in Nat /\ Bytes(<<>>) = 0 /\ Bytes(Append(u, Marker)) = Bytes(u) + 3
<1>. DEFINE a == Append(u, Marker)
            n == Len(u)
<1>1. n \in Nat /\ DOMAIN u = 1..n /\ DOMAIN a = 1..n + 1 /\ Len(a) = n + 1 /\ a[n + 1] = Marker
  OBVIOUS
<1>2. \A i \in 1..n : a[i] = u[i]
  OBVIOUS
<1>. HIDE DEF a, n
<1>3. WideAt(a) = WideAt(u) \cup {n + 1} /\ n + 1 \notin WideAt(u)
  <2>1. n + 1 \notin 1..n /\ \A i : i \in 1..n + 1 <=> i \in 1..n \/ i = n + 1
    BY <1>1
  <2>2. n + 1 \notin WideAt(u)
    BY <1>1, <2>1, Zenon DEF WideAt
  <2>3. \A i : i \in WideAt(a) <=> i \in WideAt(u) \/ i = n + 1
    BY <1>1, <1>2, <2>1, Zenon DEF WideAt
  <2>. QED  BY <2>2, <2>3, Zenon
<1>4. IsFiniteSet(WideAt(u)) /\ Cardinality(WideAt(u)) \in Nat
  <2>1. IsFiniteSet(1..n)
    BY <1>1, FS_Interval
  <2>2. WideAt(u) \subseteq 1..n
    BY <1>1, Zenon DEF WideAt
  <2>3. IsFiniteSet(WideAt(u))
    BY <2>1, <2>2, FS_Subset, Zenon
  <2>. QED  BY <2>3, FS_CardinalityType, Zenon
<1>5. Cardinality(WideAt(a)) = Cardinality(WideAt(u)) + 1
  BY <1>3, <1>4, FS_AddElement, Zenon
<1>6. Bytes(u) = n + 2 * Cardinality(WideAt(u)) /\ Bytes(a) = (n + 1) + 2 * Cardinality(WideAt(a))
  BY <1>1, Zenon DEF Bytes, WideAt, n
<1>7. Bytes(<<>>) = 0
  <2>1. DOMAIN <<>> = {} /\ Len(<<>>) = 0
    OBVIOUS
  <2>2. WideAt(<<>>) = {}
    BY <2>1, Zenon DEF WideAt
  <2>3. Cardinality(WideAt(<<>>)) = 0
    BY <2>2, FS_EmptySet, Zenon
  <2>4. Bytes(<<>>) = 0 + 2 * 0
    BY <2>1, <2>3, Zenon DEF Bytes, WideAt
  <2>. QED  BY <2>4
<1>8. Bytes(u) \in Nat /\ Bytes(a) = Bytes(u) + 3
  BY <1>1, <1>4, <1>5, <1>6, SMTT(30)
<1>. QED  BY <1>7, <1>8, Zenon DEF a

(* A set of numbers up to n that has 0 in it has a greatest element.        *)
LEMMA MaxUpTo ==
  ASSUME NEW n \in Nat, NEW T \in SUBSET (0..n), 0 \in T
  PROVE  Max(T) \in T
<1>. DEFINE S == T \ {0}
<1>1. CASE S = {}
  <2>1. 0 >= 0
    OBVIOUS
  <2>2. T = {0}
    BY <1>1, Zenon
  <2>. QED  BY <2>1, <2>2, Zenon DEF Max
<1>2. CASE S # {}
  <2>1. S \in SUBSET (1..n)
    OBVIOUS
  <2>. HIDE DEF S
  <2>2. Max(S) \in S /\ \A x \in S : x <= Max(S)
    BY <1>2, <2>1, MaxOfIndices, Zenon
  <2>3. \A x \in S : Max(S) >= x
    BY <2>1, <2>2
  <2>4. Max(S) \in T /\ Max(S) >= 0
    <3>1. Max(S) \in 1..n
      BY <2>1, <2>2, Zenon
    <3>2. Max(S) >= 0
      BY <3>1
    <3>. QED  BY <2>2, <3>2, Zenon DEF S
  <2>5. \A x \in T : Max(S) >= x
    BY <2>3, <2>4, Zenon DEF S
  <2>. QED  BY <2>4, <2>5, Zenon DEF Max
<1>. QED  BY <1>1, <1>2, Zenon

(* truncateUTF8 keeps a text that fits, or its beginning and the marker,    *)
(* which fit.                                                               *)
LEMMA CutFits ==
  ASSUME NEW V, NEW s \in Seq(V), NEW l \in Nat, l >= 3
  PROVE  /\ Bytes(truncateUTF8(s, l)) <= l
         /\ \/ truncateUTF8(s, l) = s
            \/ \E k \in 0..Len(s) : truncateUTF8(s, l) = Append(SubSeq(s, 1, k), Marker)
<1>1. CASE Bytes(s) <= l
  BY <1>1, Zenon DEF truncateUTF8
<1>2. CASE ~(Bytes(s) <= l)
  <2>. DEFINE T == {k \in 0..Len(s) : Bytes(SubSeq(s, 1, k)) <= l - 3}
              end == Max(T)
  <2>1. truncateUTF8(s, l) = Append(SubSeq(s, 1, end), Marker)
    BY <1>2, Zenon DEF truncateUTF8
  <2>2. 0 \in T
    <3>1. SubSeq(s, 1, 0) = <<>> /\ 0 \in 0..Len(s) /\ 0 <= l - 3
      OBVIOUS
    <3>2. Bytes(<<>>) = 0
      BY MarkerBytes, Zenon
    <3>. QED  BY <3>1, <3>2, Zenon
  <2>3. Len(s) \in Nat /\ T \in SUBSET (0..Len(s))
    OBVIOUS
  <2>4. end \in T
    <3>. HIDE DEF T
    <3>. QED  BY <2>2, <2>3, MaxUpTo, Zenon
  <2>5. end \in 0..Len(s) /\ Bytes(SubSeq(s, 1, end)) <= l - 3
    BY <2>4, Zenon
  <2>. HIDE DEF end, T
  <2>6. SubSeq(s, 1, end) \in Seq(V)
    BY <2>5
  <2>. DEFINE u == SubSeq(s, 1, end)
  <2>. HIDE DEF u
  <2>7. Bytes(u) \in Nat /\ Bytes(Append(u, Marker)) = Bytes(u) + 3
    BY <2>6, MarkerBytes, Zenon DEF u
  <2>8. Bytes(u) <= l - 3
    BY <2>5, Zenon DEF u
  <2>9. Bytes(Append(u, Marker)) <= l
    BY <2>7, <2>8
  <2>. QED  BY <2>1, <2>5, <2>9, Zenon DEF u
<1>. QED  BY <1>1, <1>2, Zenon
-----------------------------------------------------------------------------
(* p holds what has been joined after each of the sequences ss.             *)
Spelt(p, ss) ==
  /\ p \in [0..Len(ss) -> Seq(Runes)] /\ p[0] = <<>>
  /\ \A k \in 1..Len(ss) : p[k] = p[k - 1] \o ss[k]

JoinStep == [x \in Seq(Runes) \X Seq(Runes) |-> Joined(x[1], x[2])]

JoinTable(h, ss) ==
  h = [t \in SUBSET DOMAIN ss |-> IF t = {} THEN <<>> ELSE Joined(h[t \ {Max(t)}], ss[Max(t)])]

(* Concatenated joins one sequence after the other.                         *)
LEMMA Concatenation ==
  ASSUME NEW ss \in Seq(Seq(Runes))
  PROVE  \E p : Spelt(p, ss) /\ Concatenated(ss) = p[Len(ss)]
<1>. DEFINE V == Seq(Runes)
<1>0. <<>> \in V /\ ss \in Seq(V) /\ \A u, v \in V : u \o v \in V
  OBVIOUS
<1>9. JoinStep \in [V \X V -> V] /\ \A u, v \in V : JoinStep[<<u, v>>] = Joined(u, v)
  <2>1. \A x \in V \X V : Joined(x[1], x[2]) \in V
    BY <1>0, Zenon DEF Joined
  <2>2. JoinStep = [x \in V \X V |-> Joined(x[1], x[2])]
    BY Zenon DEF JoinStep
  <2>. QED  BY <2>1, <2>2, Zenon
<1>. HIDE DEF V
<1>2. \A t \in SUBSET DOMAIN ss : t # {} => Max(t) \in DOMAIN ss /\ ss[Max(t)] \in V
  BY <1>0, ElementAtMax, Zenon
<1>3. \E h : JoinTable(h, ss)
  <2>1. PICK h \in [SUBSET DOMAIN ss -> V] : FoldTable(h, ss, <<>>, JoinStep)
    BY <1>0, <1>9, FoldExists, Zenon
  <2>2. \A t \in SUBSET DOMAIN ss : h[t] = IF t = {} THEN <<>> ELSE Joined(h[t \ {Max(t)}], ss[Max(t)])
    <3>. SUFFICES ASSUME NEW t \in SUBSET DOMAIN ss
                  PROVE  h[t] = IF t = {} THEN <<>> ELSE Joined(h[t \ {Max(t)}], ss[Max(t)])
      BY Zenon
    <3>1. h[t \ {Max(t)}] \in V
      BY Zenon
    <3>2. h[t] = IF t = {} THEN <<>> ELSE JoinStep[<<h[t \ {Max(t)}], ss[Max(t)]>>]
      BY <2>1, Zenon DEF FoldTable
    <3>. QED  BY <1>2, <1>9, <3>1, <3>2, Zenon
  <2>. QED  BY <2>2, Zenon DEF JoinTable
<1>. DEFINE h == CHOOSE h : JoinTable(h, ss)
<1>4. JoinTable(h, ss)
  BY <1>3, Zenon
<1>5. Concatenated(ss) = h[DOMAIN ss]
  BY Zenon DEF Concatenated, InOrder, MapThenFoldSet, JoinTable
<1>. HIDE DEF h
<1>6. h[{}] = <<>>
  BY <1>4, Zenon DEF JoinTable
<1>7. \A t \in SUBSET DOMAIN ss : t # {} /\ h[t \ {Max(t)}] \in V =>
        h[t] = JoinStep[<<h[t \ {Max(t)}], ss[Max(t)]>>]
  <2>1. \A t \in SUBSET DOMAIN ss : t # {} => h[t] = Joined(h[t \ {Max(t)}], ss[Max(t)])
    BY <1>4, Zenon DEF JoinTable
  <2>. QED  BY <1>2, <1>9, <2>1, Zenon
<1>8. Folded(h[DOMAIN ss], ss, V, <<>>, JoinStep)
  BY <1>0, <1>6, <1>7, <1>9, FoldIsFolded, Zenon
<1>10. PICK p : FoldPath(p, ss, V, <<>>, JoinStep) /\ h[DOMAIN ss] = p[Len(ss)]
  BY <1>8, Zenon DEF Folded
<1>11. p \in [0..Len(ss) -> V] /\ p[0] = <<>> /\ \A k \in 1..Len(ss) : p[k] = JoinStep[<<p[k - 1], ss[k]>>]
  BY <1>10, Zenon DEF FoldPath
<1>12. \A k \in 1..Len(ss) : k - 1 \in 0..Len(ss) /\ ss[k] \in V
  BY <1>0
<1>13. \A k \in 1..Len(ss) : p[k] = p[k - 1] \o ss[k]
  BY <1>9, <1>11, <1>12, Zenon DEF Joined
<1>14. Spelt(p, ss)
  BY <1>11, <1>13, Zenon DEF Spelt, V
<1>. QED  BY <1>5, <1>10, <1>14, Zenon

(* r stands in q from position i on.                                        *)
Here(q, i, r) ==
  /\ i \in Nat /\ 1 <= i /\ i + Len(r) - 1 <= Len(q)
  /\ \A j \in 1..Len(r) : q[i + j - 1] = r[j]

(* What stands in a part of q stands in q.                                  *)
LEMMA HereWithin ==
  ASSUME NEW q \in Seq(Runes), NEW r \in Seq(Runes), NEW u \in Seq(Runes),
         NEW i, NEW j, Here(q, i, r), Here(r, j, u)
  PROVE  Here(q, i + j - 1, u)
BY DEF Here

(* Both halves of what stands in q do.                                      *)
LEMMA HereHalves ==
  ASSUME NEW q \in Seq(Runes), NEW u \in Seq(Runes), NEW v \in Seq(Runes), NEW i, Here(q, i, u \o v)
  PROVE  Here(q, i, u) /\ Here(q, i + Len(u), v)
<1>. DEFINE w == u \o v
<1>1. w \in Seq(Runes) /\ Len(w) = Len(u) + Len(v) /\ Len(u) \in Nat /\ Len(v) \in Nat /\ Len(q) \in Nat
  OBVIOUS
<1>2. \A j \in 1..Len(u) : w[j] = u[j]
  OBVIOUS
<1>3. \A j \in 1..Len(v) : w[Len(u) + j] = v[j]
  OBVIOUS
<1>4. i \in Nat /\ 1 <= i /\ i + Len(w) - 1 <= Len(q) /\ \A j \in 1..Len(w) : q[i + j - 1] = w[j]
  BY Zenon DEF Here
<1>. HIDE DEF w
<1>5. \A j \in 1..Len(u) : q[i + j - 1] = u[j]
  <2>1. \A j \in 1..Len(u) : j \in 1..Len(w)
    BY <1>1
  <2>. QED  BY <1>2, <1>4, <2>1, Zenon
<1>6. \A j \in 1..Len(v) : q[(i + Len(u)) + j - 1] = v[j]
  <2>1. \A j \in 1..Len(v) : Len(u) + j \in 1..Len(w) /\ i + (Len(u) + j) - 1 = (i + Len(u)) + j - 1
    BY <1>1, <1>4
  <2>. QED  BY <1>3, <1>4, <2>1, Zenon
<1>7. /\ i + Len(u) - 1 <= Len(q) /\ i + Len(u) \in Nat /\ 1 <= i + Len(u)
      /\ (i + Len(u)) + Len(v) - 1 <= Len(q)
  BY <1>1, <1>4
<1>. QED  BY <1>4, <1>5, <1>6, <1>7, Zenon DEF Here

(* What has been joined begins what is joined in the end, and the next      *)
(* sequence stands behind it.                                               *)
Placed(p, ss, N) ==
  /\ \A n \in 0..N : p[n] \in Seq(Runes) /\ Here(p[N], 1, p[n])
  /\ \A n \in 1..N : Len(p[n]) = Len(p[n - 1]) + Len(ss[n]) /\ Here(p[N], Len(p[n - 1]) + 1, ss[n])

(* That is where joining puts them.                                         *)
LEMMA SpeltFacts ==
  ASSUME NEW ss \in Seq(Seq(Runes)), NEW p, Spelt(p, ss)
  PROVE  Placed(p, ss, Len(ss))
<1>. DEFINE N == Len(ss)
<1>0. N \in Nat /\ ss \in [1..N -> Seq(Runes)]
  OBVIOUS
<1>1. p \in [0..N -> Seq(Runes)] /\ p[0] = <<>> /\ \A k \in 1..N : p[k] = p[k - 1] \o ss[k]
  BY Zenon DEF Spelt
<1>. HIDE DEF N
<1>. DEFINE P(n) == Here(p[N], 1, p[n])
            T == {m \in 0..N : P(N - m)}
<1>2. \A u \in Seq(Runes) : Here(u, 1, u) /\ Len(u) \in Nat
  BY DEF Here
<1>3. 0 \in T
  <2>1. 0 \in 0..N /\ N - 0 = N /\ N \in 0..N
    BY <1>0
  <2>. QED  BY <1>1, <1>2, <2>1, Zenon
<1>4. ASSUME NEW n \in 1..N, P(n)
      PROVE  /\ P(n - 1) /\ Len(p[n]) = Len(p[n - 1]) + Len(ss[n])
             /\ Here(p[N], Len(p[n - 1]) + 1, ss[n])
  <2>1. N \in 0..N /\ n - 1 \in 0..N /\ n \in 0..N
    BY <1>0
  <2>2. p[n - 1] \in Seq(Runes) /\ ss[n] \in Seq(Runes) /\ p[N] \in Seq(Runes) /\ p[n] = p[n - 1] \o ss[n]
    BY <1>0, <1>1, <2>1, Zenon
  <2>. DEFINE u == p[n - 1]
              v == ss[n]
              q == p[N]
  <2>. HIDE DEF u, v, q
  <2>3. Here(p[N], 1, p[n - 1]) /\ Here(p[N], 1 + Len(p[n - 1]), ss[n])
    <3>1. u \in Seq(Runes) /\ v \in Seq(Runes) /\ q \in Seq(Runes) /\ Here(q, 1, u \o v)
      BY <1>4, <2>2, Zenon DEF u, v, q
    <3>2. Here(q, 1, u) /\ Here(q, 1 + Len(u), v)
      BY <3>1, HereHalves, Zenon
    <3>. QED  BY <3>2, Zenon DEF u, v, q
  <2>4. Len(p[n]) = Len(p[n - 1]) + Len(ss[n])
    <3>1. Len(u \o v) = Len(u) + Len(v)
      BY <2>2, ConcatFacts, Zenon DEF u, v
    <3>. QED  BY <2>2, <3>1, Zenon DEF u, v
  <2>5. 1 + Len(p[n - 1]) = Len(p[n - 1]) + 1
    <3>1. Len(p[n - 1]) \in Nat
      BY <1>2, <2>2, Zenon
    <3>. QED  BY <3>1
  <2>. QED  BY <2>3, <2>4, <2>5, Zenon
<1>5. ASSUME NEW m \in 0..N - 1, m \in T PROVE m + 1 \in T
  <2>1. N - m \in 1..N /\ (N - m) - 1 = N - (m + 1) /\ m + 1 \in 0..N
    BY <1>0
  <2>2. P(N - m)
    BY <1>5, Zenon
  <2>3. P((N - m) - 1)
    BY <1>4, <2>1, <2>2, Zenon
  <2>. QED  BY <2>1, <2>3, Zenon
<1>. HIDE DEF T
<1>6. 0..N \subseteq T
  BY <1>0, <1>3, <1>5, InductionUpTo, Zenon
<1>7. ASSUME NEW n \in 0..N PROVE P(n)
  <2>1. N - n \in 0..N /\ N - (N - n) = n
    BY <1>0
  <2>2. P(N - (N - n))
    BY <1>6, <2>1, Zenon DEF T
  <2>. QED  BY <2>1, <2>2, Zenon
<1>8. \A n \in 1..N : n \in 0..N
  OBVIOUS
<1>9. Placed(p, ss, N)
  BY <1>1, <1>4, <1>7, <1>8, Zenon DEF Placed
<1>. QED  BY <1>9, Zenon DEF N

(* The search g goes on behind r wherever it starts in front of it.         *)
Passes(g, i, r) == g[i + Len(r)] = g[i]
Keeps(g, q, r) == \A i \in Nat : Here(q, i, r) => Passes(g, i, r)

(* A function that is the same before and behind each of the sequences is   *)
(* the same before and behind all of them.                                  *)
LEMMA Walk ==
  ASSUME NEW ss \in Seq(Seq(Runes)), NEW p, Spelt(p, ss), NEW N, N = Len(ss),
         NEW q \in Seq(Runes), NEW a, Here(q, a, p[N]), NEW g,
         \A k \in 1..N : Keeps(g, q, ss[k])
  PROVE  Passes(g, a, p[N])
<1>0. N \in Nat /\ ss \in [1..N -> Seq(Runes)]
  OBVIOUS
<1>1. /\ \A n \in 0..N : p[n] \in Seq(Runes)
      /\ \A n \in 1..N : Len(p[n]) = Len(p[n - 1]) + Len(ss[n]) /\ Here(p[N], Len(p[n - 1]) + 1, ss[n])
  <2>1. Placed(p, ss, N)
    BY SpeltFacts, Zenon
  <2>. QED  BY <2>1, Zenon DEF Placed
<1>2. p[0] = <<>> /\ a \in Nat
  BY Zenon DEF Spelt, Here
<1>. DEFINE T == {n \in 0..N : g[a + Len(p[n])] = g[a]}
<1>3. 0 \in T
  <2>1. 0 \in 0..N /\ a + Len(<<>>) = a
    BY <1>0, <1>2
  <2>. QED  BY <1>2, <2>1, Zenon
<1>4. ASSUME NEW n \in 0..N - 1, n \in T PROVE n + 1 \in T
  <2>1. n + 1 \in 1..N /\ (n + 1) - 1 = n /\ n + 1 \in 0..N /\ n \in 0..N /\ N \in 0..N
    BY <1>0
  <2>. DEFINE r == ss[n + 1]
              l == Len(p[n])
  <2>2. r \in Seq(Runes) /\ p[n] \in Seq(Runes) /\ p[N] \in Seq(Runes)
    BY <1>0, <1>1, <2>1, Zenon
  <2>3. Len(p[n + 1]) = l + Len(r) /\ Here(p[N], l + 1, r)
    BY <1>1, <2>1, Zenon
  <2>. HIDE DEF r
  <2>4. Here(q, a + (l + 1) - 1, r)
    BY <2>2, <2>3, HereWithin, Zenon
  <2>5. Len(r) \in Nat /\ l \in Nat
    BY <2>2
  <2>. HIDE DEF l
  <2>6. a + (l + 1) - 1 = a + l /\ a + l \in Nat /\ (a + l) + Len(r) = a + (l + Len(r))
    BY <1>2, <2>5
  <2>7. g[(a + l) + Len(r)] = g[a + l]
    <3>1. Keeps(g, q, r)
      BY <2>1, Zenon DEF r
    <3>. QED  BY <2>4, <2>6, <3>1, Zenon DEF Keeps, Passes
  <2>. QED  BY <1>4, <2>1, <2>3, <2>6, <2>7, Zenon DEF l
<1>. HIDE DEF T
<1>5. 0..N \subseteq T
  BY <1>0, <1>3, <1>4, InductionUpTo, Zenon
<1>6. N \in 0..N
  BY <1>0
<1>. QED  BY <1>5, <1>6, Zenon DEF T, Passes

(* A search that goes forward, up to n, to a place to stop at.              *)
Searches(f, n, stop, hop) ==
  \A i \in Nat : f[i] = IF i > n THEN i ELSE IF i \in stop THEN i + 1 ELSE f[hop[i]]

(* It comes to an end.                                                      *)
LEMMA SearchExists ==
  ASSUME NEW n \in Nat, NEW stop, NEW hop \in [Nat -> Nat], \A i \in Nat : hop[i] > i
  PROVE  \E f \in [Nat -> Nat] : Searches(f, n, stop, hop)
<1>. DEFINE E(f, i) == f[i] = IF i > n THEN i ELSE IF i \in stop THEN i + 1 ELSE f[hop[i]]
            T == {m \in 0..n + 1 : \E f \in [Nat -> Nat] : \A i \in Nat : i > n - m => E(f, i)}
<1>1. 0 \in T
  <2>. DEFINE f == [i \in Nat |-> i]
  <2>1. 0 \in 0..n + 1 /\ n - 0 = n
    OBVIOUS
  <2>2. f \in [Nat -> Nat] /\ \A i \in Nat : f[i] = i
    BY Zenon
  <2>. HIDE DEF f
  <2>. QED  BY <2>1, <2>2, Zenon
<1>2. ASSUME NEW m \in 0..n, m \in T PROVE m + 1 \in T
  <2>1. PICK f \in [Nat -> Nat] : \A i \in Nat : i > n - m => E(f, i)
    BY <1>2, Zenon
  <2>. DEFINE j == n - m
              v == IF j > n THEN j ELSE IF j \in stop THEN j + 1 ELSE f[hop[j]]
              h == [i \in Nat |-> IF i = j THEN v ELSE f[i]]
  <2>2. j \in Nat /\ m + 1 \in 0..n + 1 /\ \A i \in Nat : i > n - (m + 1) <=> i > j \/ i = j
    OBVIOUS
  <2>3. v \in Nat
    <3>. HIDE DEF j
    <3>1. j + 1 \in Nat /\ hop[j] \in Nat /\ f[hop[j]] \in Nat
      BY <2>2
    <3>. QED  BY <2>2, <3>1, Zenon
  <2>. HIDE DEF v
  <2>4. h \in [Nat -> Nat] /\ h[j] = v /\ \A i \in Nat : i # j => h[i] = f[i]
    BY <2>2, <2>3, Zenon
  <2>. HIDE DEF h
  <2>5. ASSUME NEW i \in Nat, i > j PROVE E(h, i)
    <3>1. i # j /\ hop[i] \in Nat /\ hop[i] # j
      BY <2>2, <2>5
    <3>2. E(f, i)
      BY <2>1, <2>5, Zenon
    <3>. QED  BY <2>4, <3>1, <3>2, Zenon
  <2>6. E(h, j)
    <3>1. hop[j] \in Nat /\ hop[j] # j
      BY <2>2
    <3>2. h[hop[j]] = f[hop[j]]
      BY <2>4, <3>1, Zenon
    <3>. QED  BY <2>4, <3>2, Zenon DEF v
  <2>7. \A i \in Nat : i > n - (m + 1) => E(h, i)
    <3>. HIDE DEF j
    <3>. QED  BY <2>2, <2>5, <2>6, Zenon
  <2>. QED  BY <2>2, <2>4, <2>7, Zenon
<1>. HIDE DEF T
<1>3. 0..n + 1 \subseteq T
  <2>1. n + 1 \in Nat /\ \A m \in 0..(n + 1) - 1 : m \in 0..n
    OBVIOUS
  <2>. QED  BY <1>1, <1>2, <2>1, InductionUpTo, Zenon
<1>4. n + 1 \in 0..n + 1 /\ \A i \in Nat : i > n - (n + 1)
  OBVIOUS
<1>5. PICK f \in [Nat -> Nat] : \A i \in Nat : i > n - (n + 1) => E(f, i)
  BY <1>3, <1>4, Zenon DEF T
<1>. QED  BY <1>4, <1>5, Zenon DEF Searches

(* Replaced joins what the runes are replaced by.                           *)
Unit(c, by) == IF c \in DOMAIN by THEN by[c] ELSE <<c>>

ReplacedBy(r, b, by) ==
  \E ss \in Seq(Seq(Runes)) : \E p :
    /\ Spelt(p, ss) /\ r = p[Len(ss)] /\ Len(ss) = Len(b)
    /\ \A k \in 1..Len(b) : ss[k] = Unit(b[k], by)

(* That is what Replaced is.                                                *)
LEMMA ReplacedIsSpelt ==
  ASSUME NEW b \in Seq(Runes), NEW by, \A c \in DOMAIN by : by[c] \in Seq(Runes)
  PROVE  ReplacedBy(Replaced(b, by), b, by) /\ Replaced(b, by) \in Seq(Runes)
<1>. DEFINE e(i) == IF b[i] \in DOMAIN by THEN by[b[i]] ELSE <<b[i]>>
            n == Len(b)
            ss == [i \in 1..n |-> e(i)]
<1>1. n \in Nat /\ DOMAIN b = 1..n /\ \A i \in 1..n : <<b[i]>> \in Seq(Runes)
  OBVIOUS
<1>2. ss \in [1..n -> Seq(Runes)]
  BY <1>1, Zenon
<1>3. Replaced(b, by) = Concatenated(ss) /\ \A k \in 1..n : ss[k] = e(k)
  BY <1>1, Zenon DEF Replaced
<1>. HIDE DEF ss, n
<1>4. ss \in Seq(Seq(Runes)) /\ Len(ss) = n
  BY <1>1, <1>2
<1>5. PICK p : Spelt(p, ss) /\ Concatenated(ss) = p[Len(ss)]
  BY <1>4, Concatenation, Zenon
<1>6. p[Len(ss)] \in Seq(Runes)
  <2>1. Len(ss) \in 0..Len(ss)
    BY <1>1, <1>4
  <2>. QED  BY <1>5, <2>1, Zenon DEF Spelt
<1>7. ReplacedBy(Replaced(b, by), b, by)
  BY <1>3, <1>4, <1>5, Zenon DEF ReplacedBy, Unit, n
<1>. QED  BY <1>3, <1>5, <1>6, <1>7, Zenon

(* What stands between the quotes of a literal, for a search g that each    *)
(* rune, as it was replaced, keeps going.                                   *)
LEMMA BodyWalk ==
  ASSUME NEW q \in Seq(Runes), NEW b \in Seq(Runes), NEW by, NEW r, ReplacedBy(r, b, by),
         NEW a, Here(q, a, r), NEW g,
         \A c \in Runes : Keeps(g, q, Unit(c, by))
  PROVE  Passes(g, a, r)
<1>1. PICK ss \in Seq(Seq(Runes)) : \E p :
        /\ Spelt(p, ss) /\ r = p[Len(ss)] /\ Len(ss) = Len(b)
        /\ \A k \in 1..Len(b) : ss[k] = Unit(b[k], by)
  BY Zenon DEF ReplacedBy
<1>2. PICK p : /\ Spelt(p, ss) /\ r = p[Len(ss)] /\ Len(ss) = Len(b)
               /\ \A k \in 1..Len(b) : ss[k] = Unit(b[k], by)
  BY <1>1, Zenon
<1>3. \A k \in 1..Len(b) : b[k] \in Runes
  OBVIOUS
<1>4. \A k \in 1..Len(ss) : Keeps(g, q, ss[k])
  BY <1>2, <1>3, Zenon
<1>5. Here(q, a, p[Len(ss)])
  BY <1>2, Zenon
<1>6. Passes(g, a, p[Len(ss)])
  <2>. DEFINE N == Len(ss)
  <2>1. N = Len(ss) /\ Here(q, a, p[N]) /\ \A k \in 1..N : Keeps(g, q, ss[k])
    BY <1>4, <1>5, Zenon
  <2>. HIDE DEF N
  <2>2. Passes(g, a, p[N])
    BY <1>2, <2>1, Walk, Zenon
  <2>. QED  BY <2>2, Zenon DEF N
<1>. QED  BY <1>2, <1>6, Zenon

(* The search of skipQuotedLiteral.                                         *)
QuotedTable(g, q) ==
  g = [i \in Nat |-> IF i > Len(q) THEN i
                     ELSE IF q[i] # "'" THEN g[i + 1]
                     ELSE IF i < Len(q) /\ q[i + 1] = "'" THEN g[i + 2] ELSE i + 1]

(* It ends, and so is what skipQuotedLiteral returns.                       *)
LEMMA QuotedSearch ==
  ASSUME NEW q \in Seq(Runes)
  PROVE  \E g : QuotedTable(g, q) /\ \A a : skipQuotedLiteral(q, a) = g[a]
<1>. DEFINE n == Len(q)
            twice(i) == i < n /\ q[i + 1] = "'"
            stop == {i \in Nat : q[i] = "'" /\ ~twice(i)}
            hop == [i \in Nat |-> IF q[i] # "'" THEN i + 1 ELSE i + 2]
<1>1. n \in Nat
  OBVIOUS
<1>. HIDE DEF n
<1>2. hop \in [Nat -> Nat] /\ \A i \in Nat : hop[i] > i /\ hop[i] = IF q[i] # "'" THEN i + 1 ELSE i + 2
  OBVIOUS
<1>. HIDE DEF hop
<1>3. PICK f \in [Nat -> Nat] : Searches(f, n, stop, hop)
  BY <1>1, <1>2, SearchExists, Zenon
<1>4. \A i \in Nat : f[i] = IF i > n THEN i ELSE IF q[i] # "'" THEN f[i + 1] ELSE IF twice(i) THEN f[i + 2] ELSE i + 1
  BY <1>2, <1>3, ZenonT(30) DEF Searches
<1>5. QuotedTable(f, q)
  BY <1>4, Zenon DEF QuotedTable, n
<1>. DEFINE g == CHOOSE g : QuotedTable(g, q)
<1>6. QuotedTable(g, q)
  BY <1>5, Zenon
<1>7. \A a : skipQuotedLiteral(q, a) = g[a]
  BY Zenon DEF skipQuotedLiteral, QuotedTable
<1>. HIDE DEF g
<1>. QED  BY <1>6, <1>7, Zenon

(* A rune stands at i, ...                                                  *)
LEMMA HereOne ==
  ASSUME NEW q \in Seq(Runes), NEW i, NEW c, Here(q, i, <<c>>)
  PROVE  i \in Nat /\ 1 <= i /\ i <= Len(q) /\ ~(i > Len(q)) /\ q[i] = c
BY DEF Here

(* ... or two of them do.                                                   *)
LEMMA HereTwo ==
  ASSUME NEW q \in Seq(Runes), NEW i, NEW c, NEW d, Here(q, i, <<c, d>>)
  PROVE  i \in Nat /\ 1 <= i /\ i < Len(q) /\ ~(i > Len(q)) /\ q[i] = c /\ q[i + 1] = d
BY DEF Here

(* How long they are.                                                       *)
LEMMA Lengths == \A c : Len(<<c>>) = 1 /\ \A d : Len(<<c, d>>) = 2
OBVIOUS

(* r stands in quotes at i and is what b is rendered as; the search ends at *)
(* z.                                                                       *)
QuotedAt(q, i, r, b) ==
  r = Replaced(b, [c \in {"'"} |-> <<c, c>>]) /\ Here(q, i, <<"'">> \o r \o <<"'">>)

QuotedEnds(q, i, z) == skipQuotedLiteral(q, i + 1) = z

(* skipQuotedLiteral finds the end of a quoted literal with any value, as   *)
(* long as no quote follows at once.                                        *)
LEMMA QuotedSkipped ==
  ASSUME NEW q \in Seq(Runes), NEW b \in Seq(Runes), NEW i, NEW r,
         QuotedAt(q, i, r, b), NEW z, z = i + Len(r) + 2, z <= Len(q) => q[z] # "'"
  PROVE  QuotedEnds(q, i, z)
<1>. USE DEF QuotedAt
<1>. DEFINE by == [c \in {"'"} |-> <<c, c>>]
            Q == <<"'">>
<1>0. Q \in Seq(Runes) /\ Len(Q) = 1
  <2>1. "'" \in Runes
    BY Zenon DEF Runes
  <2>. QED  BY <2>1
<1>1. \A c \in DOMAIN by : by[c] \in Seq(Runes)
  <2>1. "'" \in Runes
    BY Zenon DEF Runes
  <2>2. <<"'", "'">> \in Seq(Runes)
    BY <2>1
  <2>. QED  BY <2>2, Zenon
<1>2. DOMAIN by = {"'"} /\ by["'"] = <<"'", "'">> /\ ReplacedBy(r, b, by) /\ r \in Seq(Runes)
  <2>1. ReplacedBy(Replaced(b, by), b, by) /\ Replaced(b, by) \in Seq(Runes)
    <3>. HIDE DEF by
    <3>. QED  BY <1>1, ReplacedIsSpelt, Zenon
  <2>. QED  BY <2>1, Zenon
<1>. HIDE DEF by
<1>3. Q \o r \in Seq(Runes) /\ Len(Q \o r) = 1 + Len(r) /\ Len(r) \in Nat /\ Here(q, i, (Q \o r) \o Q)
  <2>1. Q \o r \in Seq(Runes) /\ Len(Q \o r) = 1 + Len(r) /\ Len(r) \in Nat
    BY <1>0, <1>2
  <2>. QED  BY <2>1, Zenon
<1>. HIDE DEF Q
<1>4. Here(q, i, Q \o r) /\ Here(q, i + Len(Q \o r), Q)
  BY <1>0, <1>3, HereHalves, Zenon
<1>5. Here(q, i + Len(Q), r)
  BY <1>0, <1>2, <1>4, HereHalves, Zenon
<1>6. PICK g : QuotedTable(g, q) /\ \A a : skipQuotedLiteral(q, a) = g[a]
  BY QuotedSearch, Zenon
<1>7. \A j \in Nat : g[j] = IF j > Len(q) THEN j ELSE IF q[j] # "'" THEN g[j + 1]
                            ELSE IF j < Len(q) /\ q[j + 1] = "'" THEN g[j + 2] ELSE j + 1
  BY <1>6, Zenon DEF QuotedTable
<1>8. ASSUME NEW c \in Runes, NEW j \in Nat, Here(q, j, Unit(c, by))
      PROVE  g[j + Len(Unit(c, by))] = g[j]
  <2>1. CASE c = "'"
    <3>1. Unit(c, by) = <<"'", "'">>
      BY <1>2, <2>1, Zenon DEF Unit
    <3>2. Here(q, j, <<"'", "'">>)
      BY <1>8, <3>1, Zenon
    <3>3. j < Len(q) /\ ~(j > Len(q)) /\ q[j] = "'" /\ q[j + 1] = "'"
      BY <3>2, HereTwo, Zenon
    <3>. QED  BY <1>7, <3>1, <3>3, Lengths, Zenon
  <2>2. CASE c # "'"
    <3>1. Unit(c, by) = <<c>>
      BY <1>2, <2>2, Zenon DEF Unit
    <3>2. Here(q, j, <<c>>)
      BY <1>8, <3>1, Zenon
    <3>3. ~(j > Len(q)) /\ q[j] = c
      BY <3>2, HereOne, Zenon
    <3>. QED  BY <1>7, <2>2, <3>1, <3>3, Lengths, Zenon
  <2>. QED  BY <2>1, <2>2, Zenon
<1>9. g[(i + Len(Q)) + Len(r)] = g[i + Len(Q)]
  <2>1. \A c \in Runes : Keeps(g, q, Unit(c, by))
    BY <1>8, Zenon DEF Keeps, Passes
  <2>. DEFINE a == i + Len(Q)
  <2>2. Here(q, a, r)
    BY <1>5, Zenon
  <2>. HIDE DEF a
  <2>3. Passes(g, a, r)
    BY <1>2, <2>1, <2>2, BodyWalk, Zenon
  <2>. QED  BY <2>3, Zenon DEF a, Passes
<1>. DEFINE y == i + Len(Q \o r)
<1>10. i \in Nat /\ y \in Nat /\ y <= Len(q) /\ q[y] = "'"
  <2>1. i \in Nat
    BY <1>4, Zenon DEF Here
  <2>2. Here(q, y, <<"'">>)
    BY <1>4, Zenon DEF Q
  <2>. HIDE DEF y
  <2>. QED  BY <2>1, <2>2, HereOne, Zenon
<1>11. (i + Len(Q)) + Len(r) = y /\ i + Len(Q) = i + 1 /\ z = y + 1
  BY <1>0, <1>3, <1>10, SMTT(30)
<1>. HIDE DEF y
<1>12. g[y] = y + 1
  <2>1. ~(y > Len(q)) /\ (y < Len(q) => z <= Len(q))
    BY <1>10, <1>11, SMTT(30)
  <2>. QED  BY <1>7, <1>10, <1>11, <2>1, Zenon
<1>. QED  BY <1>6, <1>9, <1>11, <1>12, Zenon DEF QuotedEnds

(* The search of skipEscapeQuotedLiteral.                                   *)
EscapeTable(g, q) ==
  g = [i \in Nat |-> IF i > Len(q) THEN i
                     ELSE IF q[i] = "\\" THEN g[IF i < Len(q) THEN i + 2 ELSE i + 1]
                     ELSE IF q[i] # "'" THEN g[i + 1]
                     ELSE IF i < Len(q) /\ q[i + 1] = "'" THEN g[i + 2] ELSE i + 1]

(* It ends, and so is what skipEscapeQuotedLiteral returns.                 *)
LEMMA EscapeSearch ==
  ASSUME NEW q \in Seq(Runes)
  PROVE  \E g : EscapeTable(g, q) /\ \A a : skipEscapeQuotedLiteral(q, a) = g[a]
<1>. DEFINE n == Len(q)
            twice(i) == i < n /\ q[i + 1] = "'"
            stop == {i \in Nat : q[i] # "\\" /\ q[i] = "'" /\ ~twice(i)}
            hop == [i \in Nat |-> IF q[i] = "\\" THEN IF i < n THEN i + 2 ELSE i + 1
                                  ELSE IF q[i] # "'" THEN i + 1 ELSE i + 2]
<1>1. n \in Nat
  OBVIOUS
<1>. HIDE DEF n
<1>2. hop \in [Nat -> Nat] /\ \A i \in Nat : hop[i] > i
  BY <1>1
<1>3. \A i \in Nat : hop[i] = IF q[i] = "\\" THEN IF i < n THEN i + 2 ELSE i + 1
                              ELSE IF q[i] # "'" THEN i + 1 ELSE i + 2
  BY Zenon
<1>. HIDE DEF hop
<1>4. PICK f \in [Nat -> Nat] : Searches(f, n, stop, hop)
  BY <1>1, <1>2, SearchExists, Zenon
<1>5. \A i \in Nat : f[i] = IF i > n THEN i ELSE IF i \in stop THEN i + 1 ELSE f[hop[i]]
  BY <1>4, Zenon DEF Searches
<1>6. \A i \in Nat : f[i] = IF i > n THEN i ELSE IF q[i] = "\\" THEN f[IF i < n THEN i + 2 ELSE i + 1]
                            ELSE IF q[i] # "'" THEN f[i + 1] ELSE IF twice(i) THEN f[i + 2] ELSE i + 1
  <2>. SUFFICES ASSUME NEW i \in Nat
                PROVE  f[i] = IF i > n THEN i ELSE IF q[i] = "\\" THEN f[IF i < n THEN i + 2 ELSE i + 1]
                              ELSE IF q[i] # "'" THEN f[i + 1] ELSE IF twice(i) THEN f[i + 2] ELSE i + 1
    BY Zenon
  <2>1. CASE q[i] = "\\"
    <3>1. i \notin stop /\ hop[i] = IF i < n THEN i + 2 ELSE i + 1
      BY <1>3, <2>1, Zenon
    <3>. QED  BY <1>5, <2>1, <3>1, Zenon
  <2>2. CASE q[i] # "\\" /\ q[i] # "'"
    <3>1. i \notin stop /\ hop[i] = i + 1
      BY <1>3, <2>2, Zenon
    <3>. QED  BY <1>5, <2>2, <3>1, Zenon
  <2>3. CASE q[i] # "\\" /\ q[i] = "'"
    <3>1. (i \in stop <=> ~twice(i)) /\ hop[i] = i + 2
      BY <1>3, <2>3, Zenon
    <3>. QED  BY <1>5, <2>3, <3>1, Zenon
  <2>. QED  BY <2>1, <2>2, <2>3, Zenon
<1>7. EscapeTable(f, q)
  BY <1>6, Zenon DEF EscapeTable, n
<1>. DEFINE g == CHOOSE g : EscapeTable(g, q)
<1>8. EscapeTable(g, q)
  BY <1>7, Zenon
<1>9. \A a : skipEscapeQuotedLiteral(q, a) = g[a]
  BY Zenon DEF skipEscapeQuotedLiteral, EscapeTable
<1>. HIDE DEF g
<1>. QED  BY <1>8, <1>9, Zenon

(* The length of an escape string.                                          *)
LEMMA EscapeLength == \A i, l \in Nat : (i + 2) + l = i + (2 + l) /\ i + l + 3 = (i + (2 + l)) + 1
OBVIOUS

(* The same for an escape string.                                           *)
EscapeAt(q, i, r, b) ==
  r = Replaced(b, [c \in {"'", "\\"} |-> <<"\\", c>>]) /\ Here(q, i, <<"e", "'">> \o r \o <<"'">>)

EscapeEnds(q, i, z) == skipEscapeQuotedLiteral(q, i + 2) = z

(* skipEscapeQuotedLiteral finds the end of an escape string with any       *)
(* value, as long as no quote follows at once.                              *)
LEMMA EscapeSkipped ==
  ASSUME NEW q \in Seq(Runes), NEW b \in Seq(Runes), NEW i, NEW r,
         EscapeAt(q, i, r, b), NEW z, z = i + Len(r) + 3, z <= Len(q) => q[z] # "'"
  PROVE  EscapeEnds(q, i, z)
<1>. USE DEF EscapeAt
<1>. DEFINE by == [c \in {"'", "\\"} |-> <<"\\", c>>]
            E == <<"e", "'">>
            Q == <<"'">>
<1>0. E \in Seq(Runes) /\ Len(E) = 2 /\ Q \in Seq(Runes)
  <2>1. "'" \in Runes /\ "e" \in Runes
    BY Zenon DEF Runes, Text
  <2>. QED  BY <2>1
<1>1. \A c \in DOMAIN by : by[c] \in Seq(Runes)
  <2>1. "'" \in Runes /\ "\\" \in Runes
    BY Zenon DEF Runes
  <2>2. <<"\\", "'">> \in Seq(Runes) /\ <<"\\", "\\">> \in Seq(Runes)
    BY <2>1
  <2>. QED  BY <2>2, Zenon
<1>2. DOMAIN by = {"'", "\\"} /\ (\A c \in {"'", "\\"} : by[c] = <<"\\", c>>) /\ ReplacedBy(r, b, by) /\ r \in Seq(Runes)
  <2>1. ReplacedBy(Replaced(b, by), b, by) /\ Replaced(b, by) \in Seq(Runes)
    <3>. HIDE DEF by
    <3>. QED  BY <1>1, ReplacedIsSpelt, Zenon
  <2>. QED  BY <2>1, Zenon
<1>. HIDE DEF by
<1>3. E \o r \in Seq(Runes) /\ Len(E \o r) = 2 + Len(r) /\ Len(r) \in Nat /\ Here(q, i, (E \o r) \o Q)
  <2>1. E \o r \in Seq(Runes) /\ Len(E \o r) = 2 + Len(r) /\ Len(r) \in Nat
    BY <1>0, <1>2
  <2>. QED  BY <2>1, Zenon
<1>. HIDE DEF E, Q
<1>4. Here(q, i, E \o r) /\ Here(q, i + Len(E \o r), Q)
  BY <1>0, <1>3, HereHalves, Zenon
<1>5. Here(q, i + Len(E), r)
  BY <1>0, <1>2, <1>4, HereHalves, Zenon
<1>6. PICK g : EscapeTable(g, q) /\ \A a : skipEscapeQuotedLiteral(q, a) = g[a]
  BY EscapeSearch, Zenon
<1>7. \A j \in Nat : g[j] = IF j > Len(q) THEN j ELSE IF q[j] = "\\" THEN g[IF j < Len(q) THEN j + 2 ELSE j + 1]
                            ELSE IF q[j] # "'" THEN g[j + 1]
                            ELSE IF j < Len(q) /\ q[j + 1] = "'" THEN g[j + 2] ELSE j + 1
  BY <1>6, Zenon DEF EscapeTable
<1>8. ASSUME NEW c \in Runes, NEW j \in Nat, Here(q, j, Unit(c, by))
      PROVE  g[j + Len(Unit(c, by))] = g[j]
  <2>1. CASE c \in {"'", "\\"}
    <3>1. Unit(c, by) = <<"\\", c>>
      BY <1>2, <2>1, Zenon DEF Unit
    <3>2. Here(q, j, <<"\\", c>>)
      BY <1>8, <3>1, Zenon
    <3>3. j < Len(q) /\ ~(j > Len(q)) /\ q[j] = "\\"
      BY <3>2, HereTwo, Zenon
    <3>. QED  BY <1>7, <3>1, <3>3, Lengths, Zenon
  <2>2. CASE c \notin {"'", "\\"}
    <3>1. Unit(c, by) = <<c>>
      BY <1>2, <2>2, Zenon DEF Unit
    <3>2. Here(q, j, <<c>>)
      BY <1>8, <3>1, Zenon
    <3>3. ~(j > Len(q)) /\ q[j] = c /\ c # "'" /\ c # "\\"
      BY <2>2, <3>2, HereOne, Zenon
    <3>. QED  BY <1>7, <3>1, <3>3, Lengths, Zenon
  <2>. QED  BY <2>1, <2>2, Zenon
<1>9. g[(i + Len(E)) + Len(r)] = g[i + Len(E)]
  <2>1. \A c \in Runes : Keeps(g, q, Unit(c, by))
    BY <1>8, Zenon DEF Keeps, Passes
  <2>. DEFINE a == i + Len(E)
  <2>2. Here(q, a, r)
    BY <1>5, Zenon
  <2>. HIDE DEF a
  <2>3. Passes(g, a, r)
    BY <1>2, <2>1, <2>2, BodyWalk, Zenon
  <2>. QED  BY <2>3, Zenon DEF a, Passes
<1>. DEFINE y == i + Len(E \o r)
<1>10. i \in Nat /\ y \in Nat /\ y <= Len(q) /\ q[y] = "'"
  <2>1. i \in Nat
    BY <1>4, Zenon DEF Here
  <2>2. Here(q, y, <<"'">>)
    BY <1>4, Zenon DEF Q
  <2>. HIDE DEF y
  <2>. QED  BY <2>1, <2>2, HereOne, Zenon
<1>11. (i + Len(E)) + Len(r) = y /\ i + Len(E) = i + 2 /\ z = y + 1
  <2>. DEFINE l == Len(r)
              m == Len(E \o r)
              e == Len(E)
  <2>1. i \in Nat /\ l \in Nat /\ m = 2 + l /\ e = 2 /\ z = i + l + 3
    BY <1>0, <1>3, <1>10, Zenon
  <2>. HIDE DEF l, m, e
  <2>2. (i + e) + l = i + m /\ i + e = i + 2 /\ z = (i + m) + 1
    BY <2>1, EscapeLength, Zenon
  <2>. QED  BY <2>2, Zenon DEF l, m, e
<1>. HIDE DEF y
<1>12. g[y] = y + 1
  <2>1. ~(y > Len(q)) /\ (y < Len(q) => z <= Len(q)) /\ "'" # "\\"
    BY <1>10, <1>11
  <2>. QED  BY <1>7, <1>10, <1>11, <2>1, Zenon
<1>. QED  BY <1>6, <1>9, <1>11, <1>12, Zenon DEF EscapeEnds

(* The smallest element.                                                    *)
LEMMA MinIs ==
  ASSUME NEW S \in SUBSET Int, NEW m \in S, \A x \in S : m <= x
  PROVE  Min(S) = m
<1>1. Min(S) \in S /\ \A x \in S : Min(S) <= x
  BY Zenon DEF Min
<1>2. Min(S) <= m /\ m <= Min(S) /\ Min(S) \in Int /\ m \in Int
  BY <1>1, Zenon
<1>. QED  BY <1>2

(* skipNumericLiteral finds the end of a number, as long as it does not go  *)
(* on.                                                                      *)
LEMMA NumberSkipped ==
  ASSUME NEW q \in Seq(Runes), NEW i, NEW r \in {<<"1">>, <<"1", ".", "1">>}, Here(q, i, r),
         NEW z, z = i + Len(r), z <= Len(q) => q[z] \notin {"1", "."}
  PROVE  skipNumericLiteral(q, i + 1) = z
<1>. DEFINE S == {j \in i + 1..Len(q) : q[j] \notin {"1", "."}}
<1>1. /\ i \in Nat /\ z \in Nat /\ z >= i + 1 /\ z <= Len(q) + 1 /\ Len(q) \in Nat
      /\ \A j \in i + 1..z - 1 : q[j] \in {"1", "."}
  <2>1. CASE r = <<"1">>
    <3>1. Len(r) = 1
      BY <2>1
    <3>. QED  BY <3>1 DEF Here
  <2>2. CASE r = <<"1", ".", "1">>
    <3>1. Len(r) = 3 /\ r[2] = "." /\ r[3] = "1"
      BY <2>2
    <3>2. i \in Nat /\ z = i + 3 /\ i + 3 - 1 <= Len(q) /\ \A j \in 1..3 : q[i + j - 1] = r[j]
      BY <3>1, Zenon DEF Here
    <3>3. q[i + 2 - 1] = "." /\ q[i + 3 - 1] = "1" /\ i + 2 - 1 = i + 1 /\ i + 3 - 1 = i + 2
      BY <3>1, <3>2
    <3>4. \A j \in i + 1..z - 1 : j = i + 1 \/ j = i + 2
      BY <3>2
    <3>5. \A j \in i + 1..z - 1 : q[j] \in {"1", "."}
      BY <3>3, <3>4, Zenon
    <3>. QED  BY <3>2, <3>5
  <2>. QED  BY <2>1, <2>2, Zenon
<1>2. S \in SUBSET Int
  BY <1>1
<1>3. CASE z <= Len(q)
  <2>1. z \in S
    BY <1>1, <1>3
  <2>2. \A j \in S : z <= j
    BY <1>1
  <2>3. Min(S) = z
    <3>. HIDE DEF S
    <3>. QED  BY <1>2, <2>1, <2>2, MinIs, Zenon
  <2>. QED  BY <2>1, <2>3, Zenon DEF skipNumericLiteral, FirstOr
<1>4. CASE ~(z <= Len(q))
  <2>1. z = Len(q) + 1 /\ S = {}
    BY <1>1, <1>4
  <2>. QED  BY <2>1, Zenon DEF skipNumericLiteral, FirstOr
<1>. QED  BY <1>3, <1>4, Zenon

(* What stands behind another stands with it.                               *)
LEMMA HereJoin ==
  ASSUME NEW q \in Seq(Runes), NEW u \in Seq(Runes), NEW v \in Seq(Runes), NEW i,
         Here(q, i, u), Here(q, i + Len(u), v)
  PROVE  Here(q, i, u \o v)
<1>. DEFINE w == u \o v
            l == Len(u)
            m == Len(v)
<1>1. Len(w) = l + m /\ l \in Nat /\ m \in Nat /\ Len(q) \in Nat
  OBVIOUS
<1>2. \A j \in 1..l + m : w[j] = IF j <= l THEN u[j] ELSE v[j - l]
  OBVIOUS
<1>. HIDE DEF w, l, m
<1>3. /\ i \in Nat /\ 1 <= i /\ (i + l) + m - 1 <= Len(q)
      /\ \A j \in 1..l : q[i + j - 1] = u[j]
      /\ \A j \in 1..m : q[(i + l) + j - 1] = v[j]
  BY Zenon DEF Here, l, m
<1>4. \A j \in 1..l + m : q[i + j - 1] = w[j]
  <2>. SUFFICES ASSUME NEW j \in 1..l + m PROVE q[i + j - 1] = w[j]
    BY Zenon
  <2>1. CASE j <= l
    <3>1. j \in 1..l
      BY <1>1, <2>1
    <3>. QED  BY <1>2, <1>3, <2>1, <3>1, Zenon
  <2>2. CASE ~(j <= l)
    <3>1. j - l \in 1..m /\ (i + l) + (j - l) - 1 = i + j - 1
      BY <1>1, <1>3, <2>2
    <3>. DEFINE k == j - l
    <3>. HIDE DEF k
    <3>2. q[(i + l) + k - 1] = v[k]
      BY <1>3, <3>1, Zenon DEF k
    <3>. QED  BY <1>2, <2>2, <3>1, <3>2, Zenon DEF k
  <2>. QED  BY <2>1, <2>2, Zenon
<1>5. i + (l + m) - 1 <= Len(q)
  BY <1>1, <1>3
<1>. QED  BY <1>1, <1>3, <1>4, <1>5, Zenon DEF Here, w

(* A part of a sequence of runes.                                           *)
LEMMA PartIs ==
  ASSUME NEW s \in Seq(Runes), NEW x \in Nat, NEW d \in Nat, x >= 1, x + d - 1 <= Len(s)
  PROVE  SubSeq(s, x, x + d - 1) = [k \in 1..d |-> s[x + k - 1]]
OBVIOUS

(* The search for the delimiter D ends at z.                                *)
DollarEnds(q, i, D, z) == skipDollarQuotedLiteral(q, i + Len(D), D) = z

(* skipDollarQuotedLiteral finds the end of a dollar-quoted literal, whose  *)
(* body does not contain the delimiter.                                     *)
LEMMA DollarSkipped ==
  ASSUME NEW q \in Seq(Runes), NEW b \in Seq(Runes), NEW D \in Seq(Runes), NEW i, Here(q, i, D \o b \o D),
         Len(D) >= 1, Min(Occurs(b \o D, D)) = Len(b) + 1
  PROVE  DollarEnds(q, i, D, i + Len(D \o b \o D))
<1>. DEFINE w == b \o D
            a == i + Len(D)
            l == Len(b)
            d == Len(D)
            n == Len(q)
            Part(s, x) == SubSeq(s, x, x + d - 1)
<1>1. /\ D \o b \in Seq(Runes) /\ Len(D \o b) = d + l /\ Len(D \o b \o D) = d + l + d
      /\ w \in Seq(Runes) /\ Len(w) = l + d /\ l \in Nat /\ d \in Nat /\ n \in Nat
  OBVIOUS
<1>2. Here(q, i, D \o b) /\ Here(q, i + (d + l), D)
  <2>1. Here(q, i, D \o b) /\ Here(q, i + Len(D \o b), D)
    BY <1>1, HereHalves, Zenon
  <2>. QED  BY <1>1, <2>1, Zenon
<1>3. Here(q, a, b)
  BY <1>2, HereHalves, Zenon
<1>4. i \in Nat /\ a \in Nat /\ a + l = i + (d + l) /\ a >= 1
  BY <1>1, <1>2 DEF Here
<1>5. Here(q, a, w)
  <2>1. Here(q, a + Len(b), D)
    BY <1>2, <1>4, Zenon
  <2>. HIDE DEF a
  <2>. QED  BY <1>3, <2>1, HereJoin, Zenon
<1>. HIDE DEF a, l, n, d
<1>6. a + (l + d) - 1 <= n /\ \A j \in 1..l + d : q[a + j - 1] = w[j]
  BY <1>1, <1>5, Zenon DEF Here, n
<1>. HIDE DEF w
<1>7. ASSUME NEW j \in 1..l + 1 PROVE Part(q, a + j - 1) = Part(w, j)
  <2>0. a \in Nat /\ a >= 1 /\ l \in Nat /\ d \in Nat /\ n \in Nat /\ j \in 1..l + 1 /\ a + (l + d) - 1 <= n
    BY <1>1, <1>4, <1>6, Zenon
  <2>1. a + j - 1 \in Nat /\ a + j - 1 >= 1 /\ (a + j - 1) + d - 1 <= n /\ j >= 1 /\ j + d - 1 <= l + d
    BY <2>0
  <2>2. \A k \in 1..d : q[(a + j - 1) + k - 1] = w[j + k - 1]
    <3>. SUFFICES ASSUME NEW k \in 1..d PROVE q[(a + j - 1) + k - 1] = w[j + k - 1]
      BY Zenon
    <3>1. j + k - 1 \in 1..l + d /\ a + (j + k - 1) - 1 = (a + j - 1) + k - 1
      BY <1>1, <1>4, SMTT(30)
    <3>. QED  BY <1>6, <3>1, Zenon
  <2>. DEFINE x == a + j - 1
  <2>3. Part(q, x) = [k \in 1..d |-> q[x + k - 1]]
    <3>1. x \in Nat /\ x >= 1 /\ x + d - 1 <= Len(q) /\ d \in Nat
      BY <1>1, <2>1, Zenon DEF n
    <3>. HIDE DEF x
    <3>. QED  BY <3>1, PartIs, ZenonT(30)
  <2>4. Part(w, j) = [k \in 1..d |-> w[j + k - 1]]
    <3>1. j \in Nat /\ j >= 1 /\ j + d - 1 <= Len(w) /\ d \in Nat /\ w \in Seq(Runes)
      BY <1>1, <2>0, <2>1
    <3>. QED  BY <3>1, PartIs, ZenonT(30)
  <2>. QED  BY <2>2, <2>3, <2>4, Zenon
<1>8. /\ \A j : j \in Occurs(w, D) <=> j \in 1..((l + d) - d + 1) /\ Part(w, j) = D
      /\ \A j : j \in Occurs(q, D) <=> j \in 1..(n - d + 1) /\ Part(q, j) = D
  <2>1. Occurs(w, D) = {j \in 1..(Len(w) - d + 1) : Part(w, j) = D}
    BY Zenon DEF Occurs, d
  <2>2. Occurs(q, D) = {j \in 1..(n - d + 1) : Part(q, j) = D}
    BY Zenon DEF Occurs, n, d
  <2>3. Len(w) = l + d
    BY <1>1, Zenon DEF w
  <2>. HIDE DEF Part
  <2>4. Occurs(w, D) = {j \in 1..((l + d) - d + 1) : Part(w, j) = D}
    BY <2>1, <2>3, Zenon
  <2>5. \A j : j \in Occurs(w, D) <=> j \in 1..((l + d) - d + 1) /\ Part(w, j) = D
    BY <2>4, Zenon
  <2>6. \A j : j \in Occurs(q, D) <=> j \in 1..(n - d + 1) /\ Part(q, j) = D
    BY <2>2, Zenon
  <2>. QED  BY <2>5, <2>6, Zenon
<1>. HIDE DEF Part
<1>9. Part(w, l + 1) = D
  <2>1. w = b \o D /\ b \in Seq(Runes) /\ D \in Seq(Runes) /\ l = Len(b) /\ d = Len(D)
    BY Zenon DEF w, l, d
  <2>2. SubSeq(w, l + 1, (l + 1) + d - 1) = D
    BY <1>1, <2>1
  <2>. QED  BY <2>2, Zenon DEF Part
<1>10. Min(Occurs(w, D)) \in Occurs(w, D) /\ \A j \in Occurs(w, D) : l + 1 <= j
  <2>1. l + 1 \in Occurs(w, D) /\ Occurs(w, D) \subseteq 1..((l + d) - d + 1)
    <3>1. l + 1 \in 1..((l + d) - d + 1)
      BY <1>1
    <3>. QED  BY <1>8, <1>9, <3>1, Zenon
  <2>2. \E x \in Occurs(w, D) : \A y \in Occurs(w, D) : x <= y
    <3>. DEFINE O == Occurs(w, D)
    <3>1. O \in SUBSET Nat /\ O # {}
      BY <1>1, <2>1
    <3>. HIDE DEF O
    <3>2. \E x \in O : \A y \in O : x <= y
      BY <3>1, LeastNat, Zenon
    <3>. QED  BY <3>2, Zenon DEF O
  <2>3. Min(Occurs(w, D)) \in Occurs(w, D) /\ \A y \in Occurs(w, D) : Min(Occurs(w, D)) <= y
    BY <2>2, Zenon DEF Min
  <2>. QED  BY <2>3, Zenon DEF w, l
<1>. DEFINE ends == {j \in Occurs(q, D) : j >= a}
<1>11. a + l \in ends
  <2>1. a + l \in 1..(n - d + 1) /\ a + l >= a /\ l + 1 \in 1..l + 1 /\ a + (l + 1) - 1 = a + l
    BY <1>1, <1>4, <1>6
  <2>2. Part(q, a + l) = D
    BY <1>7, <1>9, <2>1, Zenon
  <2>. QED  BY <1>8, <2>1, <2>2, Zenon
<1>12. \A j \in ends : a + l <= j
  <2>. SUFFICES ASSUME NEW j \in ends, ~(a + l <= j) PROVE FALSE
    BY Zenon
  <2>1. j \in 1..(n - d + 1) /\ Part(q, j) = D /\ j >= a
    BY <1>8, Zenon
  <2>. DEFINE k == j - a + 1
  <2>2. k \in 1..l + 1 /\ a + k - 1 = j /\ k \in 1..((l + d) - d + 1) /\ ~(l + 1 <= k)
    BY <1>1, <1>4, <2>1
  <2>. HIDE DEF k
  <2>3. k \in Occurs(w, D)
    BY <1>7, <1>8, <2>1, <2>2, Zenon
  <2>. QED  BY <1>10, <2>2, <2>3, Zenon
<1>13. Min(ends) = a + l
  <2>1. ends \in SUBSET Int
    BY <1>1, <1>8
  <2>. HIDE DEF ends
  <2>. QED  BY <1>11, <1>12, <2>1, MinIs, Zenon
<1>14. skipDollarQuotedLiteral(q, a, D) = (a + l) + d
  BY <1>11, <1>13, Zenon DEF skipDollarQuotedLiteral, d
<1>15. (a + l) + d = i + (d + l + d)
  BY <1>1, <1>4
<1>. QED  BY <1>1, <1>14, <1>15, Zenon DEF a, d, DollarEnds

(* What stands at i is the part of q from i on.                             *)
LEMMA HerePart ==
  ASSUME NEW q \in Seq(Runes), NEW r \in Seq(Runes), NEW i, Here(q, i, r)
  PROVE  SubSeq(q, i, i + Len(r) - 1) = r
<1>1. i \in Nat /\ i >= 1 /\ Len(r) \in Nat /\ i + Len(r) - 1 <= Len(q) /\ \A j \in 1..Len(r) : q[i + j - 1] = r[j]
  BY DEF Here
<1>2. SubSeq(q, i, i + Len(r) - 1) = [k \in 1..Len(r) |-> q[i + k - 1]]
  BY <1>1, PartIs, Zenon
<1>3. r = [k \in 1..Len(r) |-> r[k]]
  OBVIOUS
<1>. QED  BY <1>1, <1>2, <1>3, Zenon

(* Where a $ starts a dollar quote: with an empty tag, ...                  *)
LEMMA DollarStarts ==
  ASSUME NEW q \in Seq(Runes), NEW i, Here(q, i, <<"$", "$">>)
  PROVE  dollarQuoteDelimiter(q, i) = <<"$", "$">>
<1>. DEFINE S == {j \in (i + 1)..Len(q) : q[j] = "$"}
<1>1. i \in Nat /\ 1 <= i /\ i < Len(q) /\ Len(q) \in Nat /\ q[i] = "$" /\ q[i + 1] = "$"
  BY HereTwo
<1>2. S \in SUBSET Int /\ i + 1 \in S /\ (\A j \in S : i + 1 <= j) /\ i + 1 > 0
  BY <1>1
<1>3. FirstOr(S, 0) = i + 1
  <2>. HIDE DEF S
  <2>1. Min(S) = i + 1
    BY <1>2, MinIs, Zenon
  <2>. QED  BY <1>2, <2>1, Zenon DEF FirstOr
<1>4. SubSeq(q, i, i + 1) = <<"$", "$">>
  <2>. DEFINE r == <<"$", "$">>
  <2>0. "$" \in Runes /\ "a" \in Runes
    BY Zenon DEF Runes, Text
  <2>1. r \in Seq(Runes) /\ Len(r) = 2
    BY <2>0
  <2>. HIDE DEF r
  <2>2. SubSeq(q, i, i + Len(r) - 1) = r
    BY <2>1, HerePart, Zenon DEF r
  <2>3. i + 2 - 1 = i + 1
    BY <1>1
  <2>. QED  BY <2>1, <2>2, <2>3, Zenon DEF r
<1>5. DOMAIN SubSeq(q, i + 1, (i + 1) - 1) = {}
  BY <1>1
<1>6. validDollarQuoteTag(SubSeq(q, i + 1, (i + 1) - 1))
  BY <1>5, Zenon DEF validDollarQuoteTag
<1>. QED  BY <1>1, <1>2, <1>3, <1>4, <1>6, Zenon DEF dollarQuoteDelimiter

(* ... or with one, ...                                                     *)
LEMMA TagStarts ==
  ASSUME NEW q \in Seq(Runes), NEW i, Here(q, i, <<"$", "a", "$">>)
  PROVE  dollarQuoteDelimiter(q, i) = <<"$", "a", "$">>
<1>. DEFINE S == {j \in (i + 1)..Len(q) : q[j] = "$"}
<1>1. /\ i \in Nat /\ 1 <= i /\ i + 2 <= Len(q) /\ Len(q) \in Nat
      /\ q[i] = "$" /\ q[i + 1] = "a" /\ q[i + 2] = "$"
  <2>. DEFINE r == <<"$", "a", "$">>
  <2>1. Len(r) = 3 /\ r[1] = "$" /\ r[2] = "a" /\ r[3] = "$"
    OBVIOUS
  <2>. HIDE DEF r
  <2>2. i \in Nat /\ 1 <= i /\ i + 3 - 1 <= Len(q) /\ \A j \in 1..3 : q[i + j - 1] = r[j]
    BY <2>1, Zenon DEF Here, r
  <2>3. q[i + 1 - 1] = "$" /\ q[i + 2 - 1] = "a" /\ q[i + 3 - 1] = "$"
    BY <2>1, <2>2
  <2>4. i + 1 - 1 = i /\ i + 2 - 1 = i + 1 /\ i + 3 - 1 = i + 2 /\ Len(q) \in Nat
    BY <2>2
  <2>. QED  BY <2>2, <2>3, <2>4, Zenon
<1>2. S \in SUBSET Int /\ i + 2 \in S /\ i + 2 > 0 /\ \A j \in S : i + 2 <= j
  <2>1. S \in SUBSET Int /\ i + 2 \in S /\ i + 2 > 0
    BY <1>1
  <2>2. ASSUME NEW j \in S PROVE i + 2 <= j
    <3>1. q[j] = "$" /\ j \in (i + 1)..Len(q) /\ "$" # "a"
      BY Zenon
    <3>2. j # i + 1
      BY <1>1, <3>1, Zenon
    <3>. QED  BY <1>1, <3>1, <3>2
  <2>. QED  BY <2>1, <2>2, Zenon
<1>3. FirstOr(S, 0) = i + 2
  <2>. HIDE DEF S
  <2>1. Min(S) = i + 2
    BY <1>2, MinIs, Zenon
  <2>. QED  BY <1>2, <2>1, Zenon DEF FirstOr
<1>4. SubSeq(q, i, i + 2) = <<"$", "a", "$">>
  <2>. DEFINE r == <<"$", "a", "$">>
  <2>0. "$" \in Runes /\ "a" \in Runes
    BY Zenon DEF Runes, Text
  <2>1. r \in Seq(Runes) /\ Len(r) = 3
    BY <2>0
  <2>. HIDE DEF r
  <2>2. SubSeq(q, i, i + Len(r) - 1) = r
    BY <2>1, HerePart, Zenon DEF r
  <2>3. i + 3 - 1 = i + 2
    BY <1>1
  <2>. QED  BY <2>1, <2>2, <2>3, Zenon DEF r
<1>5. DOMAIN SubSeq(q, i + 1, (i + 2) - 1) = {1} /\ SubSeq(q, i + 1, (i + 2) - 1)[1] = "a"
  BY <1>1
<1>6. validDollarQuoteTag(SubSeq(q, i + 1, (i + 2) - 1))
  <2>1. "a" \in Letters
    BY Zenon DEF Letters
  <2>. QED  BY <1>5, <2>1, Zenon DEF validDollarQuoteTag
<1>. QED  BY <1>1, <1>2, <1>3, <1>4, <1>6, Zenon DEF dollarQuoteDelimiter

(* ... and where it does not: at the end, or in front of a rune that no tag *)
(* has.                                                                     *)
LEMMA BareDollar ==
  ASSUME NEW q \in Seq(Runes), NEW i \in 1..Len(q), i + 1 <= Len(q) => q[i + 1] \in {Space, "="}
  PROVE  dollarQuoteDelimiter(q, i) = <<>>
<1>. DEFINE S == {j \in (i + 1)..Len(q) : q[j] = "$"}
            e == FirstOr(S, 0)
<1>1. i \in Nat /\ 1 <= i /\ Len(q) \in Nat /\ S \in SUBSET Nat
  OBVIOUS
<1>2. CASE S = {}
  <2>1. e = 0 /\ ~(0 > 0)
    <3>1. ~(0 > 0)
      OBVIOUS
    <3>. QED  BY <1>2, <3>1, Zenon DEF FirstOr
  <2>. QED  BY <2>1, Zenon DEF dollarQuoteDelimiter
<1>3. CASE S # {}
  <2>1. e \in S
    <3>. HIDE DEF S
    <3>1. \E x \in S : \A y \in S : x <= y
      BY <1>1, <1>3, LeastNat, Zenon
    <3>2. Min(S) \in S
      BY <3>1, Zenon DEF Min
    <3>. QED  BY <1>3, <3>2, Zenon DEF FirstOr
  <2>2. e \in (i + 1)..Len(q) /\ q[e] = "$"
    BY <2>1, Zenon
  <2>. DEFINE c == q[i + 1]
              t == SubSeq(q, i + 1, e - 1)
  <2>. HIDE DEF S, e
  <2>3. i + 1 <= Len(q)
    BY <1>1, <2>2
  <2>4. c \in {Space, "="}
    BY <2>3, Zenon
  <2>5. c # "$" /\ c \notin Letters /\ c # "1"
    BY <2>4, Zenon DEF Letters, Space
  <2>6. e # i + 1
    BY <2>2, <2>5, Zenon
  <2>7. 1 \in DOMAIN t /\ t[1] = c
    BY <1>1, <2>2, <2>6
  <2>. HIDE DEF t, c
  <2>8. ~validDollarQuoteTag(t)
    BY <2>5, <2>7, Zenon DEF validDollarQuoteTag
  <2>. QED  BY <2>8, Zenon DEF dollarQuoteDelimiter, t, e, S
<1>. QED  BY <1>2, <1>3, Zenon

(* No other rune starts one.                                                *)
LEMMA NoDollar == ASSUME NEW q, NEW i, q[i] # "$" PROVE dollarQuoteDelimiter(q, i) = <<>>
BY Zenon DEF dollarQuoteDelimiter
-----------------------------------------------------------------------------
(* The runes of literals and of text.                                       *)
LEMMA RuneFacts ==
  /\ \A b \in Literals : b \in Seq(Runes)
  /\ \A c \in Text : c \in Runes
  /\ "'" \in Runes /\ "e" \in Runes /\ "$" \in Runes /\ "a" \in Runes /\ "1" \in Runes /\ "." \in Runes /\ "\\" \in Runes
<1>1. \A b \in Literals : b \in Seq(Runes)
  <2>1. STRING \subseteq Runes /\ Literals \subseteq Seq(STRING)
    BY LogAssumption, Zenon DEF Runes
  <2>. DEFINE S == STRING
              R == Runes
  <2>2. S \subseteq R /\ Literals \subseteq Seq(S)
    BY <2>1, Zenon
  <2>. HIDE DEF S, R
  <2>3. \A b \in Literals : b \in Seq(R)
    BY <2>2
  <2>. QED  BY <2>3, Zenon DEF R
<1>2. /\ \A c \in Text : c \in Runes
      /\ "'" \in Runes /\ "e" \in Runes /\ "$" \in Runes /\ "a" \in Runes /\ "1" \in Runes /\ "." \in Runes /\ "\\" \in Runes
  BY Zenon DEF Runes, Text
<1>. QED  BY <1>1, <1>2, Zenon

(* What the kind of a token says of its body.                               *)
LEMMA TokenFacts ==
  ASSUME NEW t \in Token
  PROVE  /\ t.kind \in {"text", "number", "quoted", "escape", "dollar", "tagged"}
         /\ t.kind = "text" => \E c \in Text : t.body = <<c>>
         /\ t.kind = "number" => t.body \in {<<"1">>, <<"1", ".", "1">>}
         /\ t.kind \in {"quoted", "escape", "dollar", "tagged"} => t.body \in Literals
<1>1. CASE t \in [kind : {"text"}, body : {<<c>> : c \in Text}]
  BY <1>1, Zenon
<1>2. CASE t \in [kind : {"number"}, body : {<<"1">>, <<"1", ".", "1">>}]
  BY <1>2, Zenon
<1>3. CASE t \in [kind : {"quoted", "escape", "dollar", "tagged"}, body : Literals]
  BY <1>3, Zenon
<1>. QED  BY <1>1, <1>2, <1>3, Zenon DEF Token, Text

(* How each kind is rendered.                                               *)
LEMMA RenderIs ==
  ASSUME NEW t
  PROVE  /\ t.kind \in {"text", "number"} => Render(t) = t.body
         /\ t.kind = "quoted" => Render(t) = <<"'">> \o Replaced(t.body, [c \in {"'"} |-> <<c, c>>]) \o <<"'">>
         /\ t.kind = "escape" =>
              Render(t) = <<"e", "'">> \o Replaced(t.body, [c \in {"'", "\\"} |-> <<"\\", c>>]) \o <<"'">>
         /\ t.kind \in {"dollar", "tagged"} => Render(t) = Delimiter(t) \o t.body \o Delimiter(t)
         /\ t.kind = "dollar" => Delimiter(t) = <<"$", "$">>
         /\ t.kind = "tagged" => Delimiter(t) = <<"$", "a", "$">>
BY Zenon DEF Render, Delimiter

(* Three sequences, one behind the other.                                   *)
LEMMA ThreeJoined ==
  ASSUME NEW u \in Seq(Runes), NEW v \in Seq(Runes), NEW w \in Seq(Runes), Len(u) >= 1
  PROVE  /\ u \o v \o w \in Seq(Runes) /\ Len(u \o v \o w) = Len(u) + Len(v) + Len(w)
         /\ Len(u \o v \o w) >= 1 /\ (u \o v \o w)[1] = u[1]
<1>1. u \o v \in Seq(Runes) /\ Len(u \o v) = Len(u) + Len(v) /\ (u \o v)[1] = u[1] /\ Len(u \o v) >= 1
  OBVIOUS
<1>. DEFINE x == u \o v
<1>. HIDE DEF x
<1>2. x \o w \in Seq(Runes) /\ Len(x \o w) = Len(x) + Len(w) /\ (x \o w)[1] = x[1] /\ Len(x \o w) >= 1
  BY <1>1 DEF x
<1>. QED  BY <1>1, <1>2, Zenon DEF x

(* A token that sets off the next one; what may follow a token that does    *)
(* not; and the end of a dollar quote.                                      *)
Sep(t) == t.kind = "text" /\ t.body \in {<<Space>>, <<"=">>}

Follows(q, z, t) ==
  z <= Len(q) => /\ ~Sep(t) => q[z] \in Text
                 /\ t.kind = "text" /\ t.body = <<"$">> => q[z] \in {Space, "="}

Bounded(t) ==
  t.kind \in {"dollar", "tagged"} => Min(Occurs(t.body \o Delimiter(t), Delimiter(t))) = Len(t.body) + 1

(* No rune of text starts or ends a literal.                                *)
LEMMA TextFacts ==
  /\ "'" \notin Text /\ "1" \notin Text /\ "." \notin Text /\ "escape" \notin Text /\ "dollar" \notin Text
  /\ "e" # "$" /\ "'" # "e" /\ "'" # "$" /\ "1" # "e" /\ "1" # "$" /\ "$" # "e" /\ "e" # Space /\ "e" # "="
BY Zenon DEF Text, Space, Wide

(* Sequences of one rune.                                                   *)
LEMMA OneRune == \A a, b : <<a>> = <<b>> => a = b
OBVIOUS

(* The first rune of what stands at i.                                      *)
LEMMA HereFirst ==
  ASSUME NEW q, NEW i, NEW r, Here(q, i, r), Len(r) \in Nat, Len(r) >= 1
  PROVE  q[i] = r[1]
<1>1. i \in Nat /\ \A j \in 1..Len(r) : q[i + j - 1] = r[j]
  BY Zenon DEF Here
<1>2. 1 \in 1..Len(r) /\ i + 1 - 1 = i
  BY <1>1
<1>. QED  BY <1>1, <1>2, Zenon

(* A rune of text is taken for what it is.                                  *)
LEMMA TextSeen ==
  ASSUME query \in Seq(Runes), NEW c \in Text, NEW t, t.kind = "text", t.body = <<c>>,
         Here(query, pos, <<c>>), Follows(query, pos + 1, t)
  PROVE  TokenAt = c /\ query[pos] = c
<1>1. pos \in Nat /\ 1 <= pos /\ pos <= Len(query) /\ query[pos] = c
  BY HereOne, Zenon
<1>2. ~isEscapeStringStart(query, pos)
  <2>. SUFFICES ASSUME pos + 1 <= Len(query), c = "e", query[pos + 1] = "'" PROVE FALSE
    BY <1>1, Zenon DEF isEscapeStringStart
  <2>1. ~Sep(t)
    BY TextFacts, OneRune, Zenon DEF Sep
  <2>2. query[pos + 1] \in Text
    BY <2>1, Zenon DEF Follows
  <2>. QED  BY <2>2, TextFacts, Zenon
<1>3. dollarQuoteDelimiter(query, pos) = <<>>
  <2>1. CASE c = "$"
    <3>1. pos + 1 <= Len(query) => query[pos + 1] \in {Space, "="}
      BY <2>1, Zenon DEF Follows
    <3>2. pos \in 1..Len(query)
      BY <1>1
    <3>. QED  BY <3>1, <3>2, BareDollar, Zenon
  <2>2. CASE c # "$"
    BY <1>1, <2>2, NoDollar, Zenon
  <2>. QED  BY <2>1, <2>2, Zenon
<1>. QED  BY <1>1, <1>2, <1>3, Zenon DEF TokenAt

(* A number is seen and skipped.                                            *)
LEMMA NumberSeen ==
  ASSUME query \in Seq(Runes), NEW r \in {<<"1">>, <<"1", ".", "1">>}, Here(query, pos, r),
         NEW z, z = pos + Len(r), z <= Len(query) => query[z] \in Text
  PROVE  TokenAt = "1" /\ skipNumericLiteral(query, pos + 1) = z
<1>1. query[pos] = "1"
  <2>1. Len(r) >= 1 /\ Len(r) \in Nat /\ r[1] = "1"
    <3>1. CASE r = <<"1">>
      BY <3>1
    <3>2. CASE r = <<"1", ".", "1">>
      BY <3>2
    <3>. QED  BY <3>1, <3>2, Zenon
  <2>2. pos \in Nat /\ \A j \in 1..Len(r) : query[pos + j - 1] = r[j]
    BY Zenon DEF Here
  <2>3. 1 \in 1..Len(r) /\ pos + 1 - 1 = pos
    BY <2>1, <2>2
  <2>. QED  BY <2>1, <2>2, <2>3, Zenon
<1>2. TokenAt = "1"
  <2>1. ~isEscapeStringStart(query, pos)
    BY <1>1, TextFacts, Zenon DEF isEscapeStringStart
  <2>2. dollarQuoteDelimiter(query, pos) = <<>>
    BY <1>1, TextFacts, NoDollar, Zenon
  <2>. QED  BY <1>1, <2>1, <2>2, Zenon DEF TokenAt
<1>3. z <= Len(query) => query[z] \notin {"1", "."}
  BY TextFacts, Zenon
<1>4. skipNumericLiteral(query, pos + 1) = z
  BY <1>3, NumberSkipped, Zenon
<1>. QED  BY <1>2, <1>4, Zenon

(* What a value is rendered as is made of runes.                            *)
LEMMA ReplacedTypes ==
  ASSUME NEW b \in Seq(Runes)
  PROVE  /\ Replaced(b, [c \in {"'"} |-> <<c, c>>]) \in Seq(Runes)
         /\ Replaced(b, [c \in {"'", "\\"} |-> <<"\\", c>>]) \in Seq(Runes)
<1>1. \A c, d \in Runes : <<c, d>> \in Seq(Runes)
  OBVIOUS
<1>2. Replaced(b, [c \in {"'"} |-> <<c, c>>]) \in Seq(Runes)
  <2>. DEFINE by == [c \in {"'"} |-> <<c, c>>]
  <2>1. \A c \in DOMAIN by : by[c] \in Seq(Runes)
    BY <1>1, RuneFacts, Zenon
  <2>. HIDE DEF by
  <2>2. Replaced(b, by) \in Seq(Runes)
    BY <2>1, ReplacedIsSpelt, Zenon
  <2>. QED  BY <2>2, Zenon DEF by
<1>3. Replaced(b, [c \in {"'", "\\"} |-> <<"\\", c>>]) \in Seq(Runes)
  <2>. DEFINE by == [c \in {"'", "\\"} |-> <<"\\", c>>]
  <2>1. \A c \in DOMAIN by : by[c] \in Seq(Runes)
    BY <1>1, RuneFacts, Zenon
  <2>. HIDE DEF by
  <2>2. Replaced(b, by) \in Seq(Runes)
    BY <2>1, ReplacedIsSpelt, Zenon
  <2>. QED  BY <2>2, Zenon DEF by
<1>. QED  BY <1>2, <1>3, Zenon

(* Quotes around a value.                                                   *)
LEMMA QuotesAround ==
  ASSUME NEW r \in Seq(Runes)
  PROVE  /\ <<"'">> \o r \o <<"'">> \in Seq(Runes) /\ Len(<<"'">> \o r \o <<"'">>) = Len(r) + 2
         /\ (<<"'">> \o r \o <<"'">>)[1] = "'"
         /\ <<"e", "'">> \o r \o <<"'">> \in Seq(Runes) /\ Len(<<"e", "'">> \o r \o <<"'">>) = Len(r) + 3
         /\ (<<"e", "'">> \o r \o <<"'">>)[1] = "e" /\ (<<"e", "'">> \o r \o <<"'">>)[2] = "'"
<1>. DEFINE Q == <<"'">>
            E == <<"e", "'">>
<1>1. Q \in Seq(Runes) /\ Len(Q) = 1 /\ Q[1] = "'" /\ E \in Seq(Runes) /\ Len(E) = 2 /\ E[1] = "e" /\ E[2] = "'"
  BY RuneFacts
<1>. HIDE DEF Q, E
<1>2. Len(r) \in Nat
  OBVIOUS
<1>3. Q \o r \o Q \in Seq(Runes) /\ Len(Q \o r \o Q) = Len(r) + 2 /\ (Q \o r \o Q)[1] = "'"
  <2>1. Len(Q) >= 1
    BY <1>1
  <2>2. Q \o r \o Q \in Seq(Runes) /\ Len(Q \o r \o Q) = Len(Q) + Len(r) + Len(Q) /\ (Q \o r \o Q)[1] = Q[1]
    BY <1>1, <2>1, ThreeJoined, Zenon
  <2>3. Len(Q) + Len(r) + Len(Q) = Len(r) + 2
    BY <1>1, <1>2
  <2>. QED  BY <1>1, <2>2, <2>3, Zenon
<1>4. E \o r \o Q \in Seq(Runes) /\ Len(E \o r \o Q) = Len(r) + 3 /\ (E \o r \o Q)[1] = "e"
  <2>1. Len(E) >= 1
    BY <1>1
  <2>2. E \o r \o Q \in Seq(Runes) /\ Len(E \o r \o Q) = Len(E) + Len(r) + Len(Q) /\ (E \o r \o Q)[1] = E[1]
    BY <1>1, <2>1, ThreeJoined, Zenon
  <2>3. Len(E) + Len(r) + Len(Q) = Len(r) + 3
    BY <1>1, <1>2
  <2>. QED  BY <1>1, <2>2, <2>3, Zenon
<1>5. (E \o r \o Q)[2] = "'"
  <2>0. 2 \in 1..Len(E) + Len(r) /\ 2 <= Len(E) /\ Len(E) + Len(r) >= 2
    BY <1>1, <1>2
  <2>1. E \o r \in Seq(Runes) /\ Len(E \o r) >= 2 /\ (E \o r)[2] = "'"
    BY <1>1, <2>0, ConcatFacts, Zenon
  <2>. DEFINE x == E \o r
  <2>. HIDE DEF x
  <2>2. (x \o Q)[2] = x[2]
    BY <1>1, <2>1 DEF x
  <2>. QED  BY <2>1, <2>2, Zenon DEF x
<1>. QED  BY <1>3, <1>4, <1>5, Zenon DEF Q, E

(* A quoted literal is seen and skipped.                                    *)
LEMMA QuotedSeen ==
  ASSUME query \in Seq(Runes), NEW b \in Seq(Runes), NEW r, QuotedAt(query, pos, r, b),
         NEW z, z = pos + Len(<<"'">> \o r \o <<"'">>), z <= Len(query) => query[z] \in Text
  PROVE  TokenAt = "'" /\ QuotedEnds(query, pos, z)
<1>. DEFINE w == <<"'">> \o r \o <<"'">>
<1>1. r \in Seq(Runes) /\ Here(query, pos, w) /\ pos \in Nat /\ z = pos + Len(w)
  BY ReplacedTypes, Zenon DEF QuotedAt, Here
<1>2. w \in Seq(Runes) /\ Len(w) = Len(r) + 2 /\ w[1] = "'"
  BY <1>1, QuotesAround, Zenon
<1>. HIDE DEF w
<1>3. Len(r) \in Nat /\ Len(w) \in Nat /\ Len(w) >= 1 /\ z = pos + Len(r) + 2
  BY <1>1, <1>2
<1>4. query[pos] = "'"
  BY <1>1, <1>2, <1>3, HereFirst, Zenon
<1>5. z <= Len(query) => query[z] # "'"
  BY TextFacts, Zenon
<1>6. QuotedEnds(query, pos, z)
  BY <1>3, <1>5, QuotedSkipped, Zenon
<1>7. ~isEscapeStringStart(query, pos)
  BY <1>4, TextFacts, Zenon DEF isEscapeStringStart
<1>8. dollarQuoteDelimiter(query, pos) = <<>>
  BY <1>4, TextFacts, NoDollar, Zenon
<1>. QED  BY <1>4, <1>6, <1>7, <1>8, Zenon DEF TokenAt

(* An escape string is seen and skipped.                                    *)
LEMMA EscapeSeen ==
  ASSUME query \in Seq(Runes), NEW b \in Seq(Runes), NEW r, EscapeAt(query, pos, r, b),
         NEW z, z = pos + Len(<<"e", "'">> \o r \o <<"'">>), z <= Len(query) => query[z] \in Text
  PROVE  TokenAt = "escape" /\ EscapeEnds(query, pos, z)
<1>. DEFINE w == <<"e", "'">> \o r \o <<"'">>
<1>1. r \in Seq(Runes) /\ Here(query, pos, w) /\ pos \in Nat /\ z = pos + Len(w)
  BY ReplacedTypes, Zenon DEF EscapeAt, Here
<1>2. w \in Seq(Runes) /\ Len(w) = Len(r) + 3 /\ w[1] = "e" /\ w[2] = "'"
  BY <1>1, QuotesAround, Zenon
<1>. HIDE DEF w
<1>3. Len(r) \in Nat /\ Len(w) \in Nat /\ Len(w) >= 2 /\ Len(w) >= 1 /\ z = pos + Len(r) + 3
  BY <1>1, <1>2, SMTT(30)
<1>4. query[pos] = "e"
  BY <1>1, <1>2, <1>3, HereFirst, Zenon
<1>5. query[pos + 1] = "'" /\ pos + 1 <= Len(query)
  <2>1. pos + Len(w) - 1 <= Len(query) /\ \A j \in 1..Len(w) : query[pos + j - 1] = w[j]
    BY <1>1, Zenon DEF Here
  <2>2. 2 \in 1..Len(w) /\ pos + 2 - 1 = pos + 1
    BY <1>1, <1>3, SMTT(30)
  <2>3. query[pos + 1] = w[2]
    BY <2>1, <2>2, Zenon
  <2>4. pos + 1 <= Len(query)
    <3>1. Len(query) \in Nat
      OBVIOUS
    <3>. QED  BY <1>1, <1>3, <2>1, <3>1, SMTT(30)
  <2>. QED  BY <1>2, <2>3, <2>4, Zenon
<1>6. z <= Len(query) => query[z] # "'"
  BY TextFacts, Zenon
<1>7. EscapeEnds(query, pos, z)
  BY <1>3, <1>6, EscapeSkipped, Zenon
<1>. QED  BY <1>4, <1>5, <1>7, Zenon DEF TokenAt, isEscapeStringStart

(* The delimiters of dollar quotes.                                         *)
LEMMA DelimiterType ==
  ASSUME NEW D \in {<<"$", "$">>, <<"$", "a", "$">>}
  PROVE  D \in Seq(Runes) /\ Len(D) \in Nat /\ Len(D) >= 1 /\ D # <<>>
<1>0. "$" \in Runes /\ "a" \in Runes
  BY RuneFacts, Zenon
<1>1. CASE D = <<"$", "$">>
  BY <1>0, <1>1
<1>2. CASE D = <<"$", "a", "$">>
  BY <1>0, <1>2
<1>. QED  BY <1>1, <1>2, Zenon

(* A dollar-quoted literal is seen and skipped.                             *)
LEMMA DollarSeen ==
  ASSUME query \in Seq(Runes), NEW b \in Seq(Runes), NEW D \in {<<"$", "$">>, <<"$", "a", "$">>},
         Here(query, pos, D \o b \o D), Min(Occurs(b \o D, D)) = Len(b) + 1
  PROVE  /\ TokenAt = "dollar" /\ dollarQuoteDelimiter(query, pos) = D
         /\ DollarEnds(query, pos, D, pos + Len(D \o b \o D))
<1>1. D \in Seq(Runes) /\ Len(D) \in Nat /\ Len(D) >= 1 /\ D # <<>>
  BY DelimiterType, Zenon
<1>2. D \o b \in Seq(Runes) /\ Here(query, pos, D)
  <2>1. D \o b \in Seq(Runes)
    BY <1>1
  <2>2. Here(query, pos, D \o b)
    BY <1>1, <2>1, HereHalves, Zenon
  <2>. QED  BY <1>1, <2>1, <2>2, HereHalves, Zenon
<1>3. dollarQuoteDelimiter(query, pos) = D
  <2>1. CASE D = <<"$", "$">>
    BY <1>2, <2>1, DollarStarts, Zenon
  <2>2. CASE D = <<"$", "a", "$">>
    BY <1>2, <2>2, TagStarts, Zenon
  <2>. QED  BY <2>1, <2>2, Zenon
<1>4. query[pos] = "$"
  <2>1. D[1] = "$"
    OBVIOUS
  <2>. QED  BY <1>1, <1>2, <2>1, HereFirst, Zenon
<1>5. ~isEscapeStringStart(query, pos)
  BY <1>4, TextFacts, Zenon DEF isEscapeStringStart
<1>6. DollarEnds(query, pos, D, pos + Len(D \o b \o D))
  BY <1>1, DollarSkipped, Zenon
<1>. QED  BY <1>1, <1>3, <1>5, <1>6, Zenon DEF TokenAt

(* Every token is rendered as at least one rune, text as itself.            *)
LEMMA RenderType ==
  ASSUME NEW t \in Token
  PROVE  /\ Render(t) \in Seq(Runes) /\ Len(Render(t)) \in Nat /\ Len(Render(t)) >= 1
         /\ t.kind = "text" => Render(t)[1] \in Text /\ Render(t) = <<Render(t)[1]>>
                               /\ t.body = <<Render(t)[1]>> /\ Len(Render(t)) = 1
<1>1. CASE t.kind = "text"
  <2>1. PICK c \in Text : t.body = <<c>>
    BY <1>1, TokenFacts, Zenon
  <2>2. Render(t) = <<c>> /\ c \in Runes
    BY <1>1, <2>1, RenderIs, RuneFacts, Zenon
  <2>3. <<c>> \in Seq(Runes) /\ Len(<<c>>) = 1 /\ <<c>>[1] = c
    BY <2>2
  <2>4. Len(Render(t)) \in Nat /\ Len(Render(t)) >= 1
    BY <2>2, <2>3
  <2>. QED  BY <2>1, <2>2, <2>3, <2>4, Zenon
<1>2. CASE t.kind = "number"
  <2>1. Render(t) = t.body /\ t.body \in {<<"1">>, <<"1", ".", "1">>}
    BY <1>2, TokenFacts, RenderIs, Zenon
  <2>2. "1" \in Runes /\ "." \in Runes
    BY RuneFacts, Zenon
  <2>3. CASE t.body = <<"1">>
    BY <1>2, <2>1, <2>2, <2>3, SMTT(30)
  <2>4. CASE t.body = <<"1", ".", "1">>
    BY <1>2, <2>1, <2>2, <2>4, SMTT(30)
  <2>. QED  BY <2>1, <2>3, <2>4, Zenon
<1>3. CASE t.kind \in {"quoted", "escape"}
  <2>1. t.body \in Seq(Runes) /\ t.kind # "text"
    BY <1>3, TokenFacts, RuneFacts, Zenon
  <2>2. PICK r \in Seq(Runes) : \/ Render(t) = <<"'">> \o r \o <<"'">>
                                \/ Render(t) = <<"e", "'">> \o r \o <<"'">>
    BY <1>3, <2>1, RenderIs, ReplacedTypes, Zenon
  <2>3. Render(t) \in Seq(Runes) /\ (Len(Render(t)) = Len(r) + 2 \/ Len(Render(t)) = Len(r) + 3)
    BY <2>2, QuotesAround, Zenon
  <2>4. Len(r) \in Nat
    OBVIOUS
  <2>5. Len(Render(t)) \in Nat /\ Len(Render(t)) >= 1
    BY <2>3, <2>4, SMTT(30)
  <2>. QED  BY <2>1, <2>3, <2>5, Zenon
<1>4. CASE t.kind \in {"dollar", "tagged"}
  <2>. DEFINE D == Delimiter(t)
              b == t.body
  <2>1. b \in Seq(Runes) /\ D \in {<<"$", "$">>, <<"$", "a", "$">>} /\ Render(t) = D \o b \o D /\ t.kind # "text"
    BY <1>4, TokenFacts, RuneFacts, RenderIs, Zenon
  <2>. HIDE DEF D, b
  <2>2. D \in Seq(Runes) /\ Len(D) >= 1
    BY <2>1, DelimiterType, Zenon
  <2>3. D \o b \o D \in Seq(Runes) /\ Len(D \o b \o D) >= 1
    BY <2>1, <2>2, ThreeJoined, Zenon
  <2>4. Len(Render(t)) \in Nat
    BY <2>1, <2>3
  <2>. QED  BY <2>1, <2>3, <2>4, Zenon
<1>. QED  BY <1>1, <1>2, <1>3, <1>4, TokenFacts, Zenon

(* What the scanner takes a token for, and where it goes on.                *)
Recognizes(t, z) ==
  /\ t.kind = "text" => TokenAt = Render(t)[1] /\ query[pos] = TokenAt /\ z = pos + 1
  /\ t.kind = "number" => TokenAt = "1" /\ skipNumericLiteral(query, pos + 1) = z
  /\ t.kind = "quoted" => TokenAt = "'" /\ QuotedEnds(query, pos, z)
  /\ t.kind = "escape" => TokenAt = "escape" /\ EscapeEnds(query, pos, z)
  /\ t.kind \in {"dollar", "tagged"} =>
       TokenAt = "dollar" /\ DollarEnds(query, pos, dollarQuoteDelimiter(query, pos), z)

(* It takes each for what it is, and goes on behind it.                     *)
LEMMA Recognized ==
  ASSUME query \in Seq(Runes), NEW t \in Token, Bounded(t), Here(query, pos, Render(t)),
         NEW z, z = pos + Len(Render(t)), Follows(query, z, t)
  PROVE  Recognizes(t, z)
<1>0. t.kind # "text" => (z <= Len(query) => query[z] \in Text)
  BY Zenon DEF Follows, Sep
<1>1. CASE t.kind = "text"
  <2>. DEFINE c == Render(t)[1]
  <2>1. c \in Text /\ t.body = <<c>> /\ Here(query, pos, <<c>>) /\ z = pos + 1
    BY <1>1, RenderType, Zenon
  <2>. HIDE DEF c
  <2>2. TokenAt = c /\ query[pos] = c
    BY <1>1, <2>1, TextSeen, Zenon
  <2>. QED  BY <1>1, <2>1, <2>2, Zenon DEF Recognizes, c
<1>2. CASE t.kind = "number"
  <2>. DEFINE r == Render(t)
  <2>1. r \in {<<"1">>, <<"1", ".", "1">>} /\ Here(query, pos, r) /\ z = pos + Len(r)
    BY <1>2, TokenFacts, RenderIs, Zenon
  <2>2. z <= Len(query) => query[z] \in Text
    BY <1>0, <1>2, Zenon
  <2>. HIDE DEF r
  <2>3. TokenAt = "1" /\ skipNumericLiteral(query, pos + 1) = z
    BY <2>1, <2>2, NumberSeen, Zenon
  <2>. QED  BY <1>2, <2>3, Zenon DEF Recognizes
<1>3. CASE t.kind = "quoted"
  <2>. DEFINE b == t.body
              r == Replaced(b, [c \in {"'"} |-> <<c, c>>])
  <2>1. b \in Seq(Runes) /\ Render(t) = <<"'">> \o r \o <<"'">>
    BY <1>3, TokenFacts, RuneFacts, RenderIs, Zenon
  <2>2. QuotedAt(query, pos, r, b) /\ z = pos + Len(<<"'">> \o r \o <<"'">>)
    BY <2>1, Zenon DEF QuotedAt
  <2>3. z <= Len(query) => query[z] \in Text
    BY <1>0, <1>3, Zenon
  <2>. HIDE DEF r, b
  <2>4. TokenAt = "'" /\ QuotedEnds(query, pos, z)
    BY <2>1, <2>2, <2>3, QuotedSeen, Zenon
  <2>. QED  BY <1>3, <2>4, Zenon DEF Recognizes
<1>4. CASE t.kind = "escape"
  <2>. DEFINE b == t.body
              r == Replaced(b, [c \in {"'", "\\"} |-> <<"\\", c>>])
  <2>1. b \in Seq(Runes) /\ Render(t) = <<"e", "'">> \o r \o <<"'">>
    BY <1>4, TokenFacts, RuneFacts, RenderIs, Zenon
  <2>2. EscapeAt(query, pos, r, b) /\ z = pos + Len(<<"e", "'">> \o r \o <<"'">>)
    BY <2>1, Zenon DEF EscapeAt
  <2>3. z <= Len(query) => query[z] \in Text
    BY <1>0, <1>4, Zenon
  <2>. HIDE DEF r, b
  <2>4. TokenAt = "escape" /\ EscapeEnds(query, pos, z)
    BY <2>1, <2>2, <2>3, EscapeSeen, Zenon
  <2>. QED  BY <1>4, <2>4, Zenon DEF Recognizes
<1>5. CASE t.kind \in {"dollar", "tagged"}
  <2>. DEFINE D == Delimiter(t)
              b == t.body
  <2>1. b \in Seq(Runes) /\ D \in {<<"$", "$">>, <<"$", "a", "$">>} /\ Render(t) = D \o b \o D
    BY <1>5, TokenFacts, RuneFacts, RenderIs, Zenon
  <2>2. Min(Occurs(b \o D, D)) = Len(b) + 1 /\ Here(query, pos, D \o b \o D) /\ z = pos + Len(D \o b \o D)
    BY <1>5, <2>1, Zenon DEF Bounded
  <2>. HIDE DEF D, b
  <2>3. TokenAt = "dollar" /\ dollarQuoteDelimiter(query, pos) = D /\ DollarEnds(query, pos, D, pos + Len(D \o b \o D))
    BY <2>1, <2>2, DollarSeen, Zenon
  <2>. QED  BY <1>5, <2>2, <2>3, Zenon DEF Recognizes
<1>. QED  BY <1>1, <1>2, <1>3, <1>4, <1>5, TokenFacts, Zenon

(* What a token shows, and what it adds to the preview.                     *)
Glyph(t) == IF t.kind = "text" THEN t.body[1] ELSE "?"

Adds(g) == IF g = Space THEN IF lastWasSpace \/ out = <<>> THEN <<>> ELSE <<Space>> ELSE <<g>>

ScanNext ==
  ScanEscapeString \/ ScanDollarQuoted \/ ScanQuoted \/ ScanSpace \/ ScanNumber \/ ScanRune

(* The iteration that reads a token.                                        *)
Reads(t, z) == Emit(Adds(Glyph(t)), z) /\ lastWasSpace' = (Glyph(t) = Space)

(* Each iteration reads the token it is at.                                 *)
LEMMA TokenRead ==
  ASSUME NEW t \in Token, NEW z, Recognizes(t, z), ScanNext
  PROVE  Reads(t, z) /\ Glyph(t) \in Glyphs
<1>0. /\ "?" # Space /\ "?" # "'" /\ "escape" # "dollar" /\ "escape" # "'" /\ "escape" # Space /\ "escape" # "1"
      /\ "dollar" # "'" /\ "dollar" # Space /\ "dollar" # "1" /\ "'" # Space /\ "'" # "1" /\ "1" # Space
  BY Zenon DEF Space
<1>1. CASE t.kind = "text"
  <2>. DEFINE c == Render(t)[1]
  <2>1. c \in Text /\ t.body = <<c>> /\ TokenAt = c /\ query[pos] = c /\ z = pos + 1
    BY <1>1, RenderType, Zenon DEF Recognizes
  <2>. HIDE DEF c
  <2>2. <<c>>[1] = c
    OBVIOUS
  <2>3. Glyph(t) = c /\ c \in Glyphs
    BY <1>1, <2>1, <2>2, Zenon DEF Glyph, Glyphs
  <2>4. c # "escape" /\ c # "dollar" /\ c # "'" /\ c # "1"
    BY <2>1, TextFacts, Zenon
  <2>5. CASE c = Space
    <3>1. ScanSpace
      BY <2>1, <2>4, <2>5, Zenon DEF ScanNext, ScanEscapeString, ScanDollarQuoted, ScanQuoted, ScanNumber, ScanRune
    <3>. QED  BY <2>1, <2>3, <2>5, <3>1, Zenon DEF ScanSpace, Reads, Adds
  <2>6. CASE c # Space
    <3>1. ScanRune
      BY <2>1, <2>4, <2>6, Zenon DEF ScanNext, ScanEscapeString, ScanDollarQuoted, ScanQuoted, ScanNumber, ScanSpace
    <3>. QED  BY <2>1, <2>3, <2>6, <3>1, ZenonT(30) DEF ScanRune, Reads, Adds
  <2>. QED  BY <2>5, <2>6, Zenon
<1>2. ASSUME t.kind # "text" PROVE Glyph(t) = "?" /\ "?" \in Glyphs /\ Adds("?") = <<"?">>
  BY <1>0, <1>2, Zenon DEF Glyph, Glyphs, Adds
<1>3. CASE t.kind = "number"
  <2>1. TokenAt = "1" /\ skipNumericLiteral(query, pos + 1) = z /\ t.kind # "text"
    BY <1>3, Zenon DEF Recognizes
  <2>2. ScanNumber
    BY <1>0, <2>1, Zenon DEF ScanNext, ScanEscapeString, ScanDollarQuoted, ScanQuoted, ScanSpace, ScanRune
  <2>. QED  BY <1>0, <1>2, <2>1, <2>2, Zenon DEF ScanNumber, Reads
<1>4. CASE t.kind = "quoted"
  <2>1. TokenAt = "'" /\ skipQuotedLiteral(query, pos + 1) = z /\ t.kind # "text"
    BY <1>4, Zenon DEF Recognizes, QuotedEnds
  <2>2. ScanQuoted
    BY <1>0, <2>1, Zenon DEF ScanNext, ScanEscapeString, ScanDollarQuoted, ScanNumber, ScanSpace, ScanRune
  <2>. QED  BY <1>0, <1>2, <2>1, <2>2, Zenon DEF ScanQuoted, Reads
<1>5. CASE t.kind = "escape"
  <2>1. TokenAt = "escape" /\ skipEscapeQuotedLiteral(query, pos + 2) = z /\ t.kind # "text"
    BY <1>5, Zenon DEF Recognizes, EscapeEnds
  <2>2. ScanEscapeString
    BY <1>0, <2>1, Zenon DEF ScanNext, ScanQuoted, ScanDollarQuoted, ScanNumber, ScanSpace, ScanRune
  <2>. QED  BY <1>0, <1>2, <2>1, <2>2, Zenon DEF ScanEscapeString, Reads
<1>6. CASE t.kind \in {"dollar", "tagged"}
  <2>. DEFINE d == dollarQuoteDelimiter(query, pos)
  <2>1. TokenAt = "dollar" /\ skipDollarQuotedLiteral(query, pos + Len(d), d) = z /\ t.kind # "text"
    BY <1>6, Zenon DEF Recognizes, DollarEnds
  <2>2. ScanDollarQuoted
    BY <1>0, <2>1, Zenon DEF ScanNext, ScanQuoted, ScanEscapeString, ScanNumber, ScanSpace, ScanRune
  <2>. QED  BY <1>0, <1>2, <2>1, <2>2, Zenon DEF ScanDollarQuoted, Reads
<1>. QED  BY <1>1, <1>3, <1>4, <1>5, <1>6, TokenFacts, ZenonT(30)

(* Where the scanner is: the first n tokens of s, rendered as the query q,  *)
(* end before i.                                                            *)
Rendered(s) == [k \in DOMAIN s |-> Render(s[k])]

Reached(s, p, q, n, i) ==
  /\ Spelt(p, Rendered(s)) /\ q = p[Len(s)] /\ n \in 0..Len(s) /\ i = Len(p[n]) + 1

(* The token that comes next, when there is one.                            *)
NextToken(s, p, q, n, i) ==
  /\ n + 1 \in 1..Len(s) /\ s[n + 1] \in Token /\ Bounded(s[n + 1]) /\ Here(q, i, Render(s[n + 1]))
  /\ Follows(q, i + Len(Render(s[n + 1])), s[n + 1])
  /\ Reached(s, p, q, n + 1, i + Len(Render(s[n + 1])))

(* A rendered statement consists of runes.                                  *)
LEMMA RenderedType ==
  ASSUME NEW s \in Seq(Token)
  PROVE  Rendered(s) \in Seq(Seq(Runes)) /\ Len(Rendered(s)) = Len(s) /\ \A k \in 1..Len(s) : Rendered(s)[k] = Render(s[k])
<1>. DEFINE n == Len(s)
            f == [k \in 1..n |-> Render(s[k])]
<1>1. n \in Nat /\ DOMAIN s = 1..n /\ \A k \in 1..n : s[k] \in Token
  OBVIOUS
<1>. HIDE DEF n
<1>2. f \in [1..n -> Seq(Runes)] /\ \A k \in 1..n : f[k] = Render(s[k])
  BY <1>1, RenderType, Zenon
<1>3. Rendered(s) = f
  BY <1>1, Zenon DEF Rendered
<1>. HIDE DEF f
<1>4. f \in Seq(Seq(Runes)) /\ Len(f) = n
  BY <1>1, <1>2, SMTT(30)
<1>. QED  BY <1>2, <1>3, <1>4, Zenon DEF n

(* What comes behind the first n tokens is the next one.                    *)
LEMMA NextIsHere ==
  ASSUME NEW s \in Seq(Token), NEW p, NEW q, NEW n, NEW i, Reached(s, p, q, n, i), i <= Len(q)
  PROVE  /\ n \in Nat /\ n + 1 \in 1..Len(s) /\ s[n + 1] \in Token /\ Here(q, i, Render(s[n + 1]))
         /\ Reached(s, p, q, n + 1, i + Len(Render(s[n + 1])))
<1>. DEFINE N == Len(s)
            ss == Rendered(s)
<1>1. N \in Nat /\ ss \in Seq(Seq(Runes)) /\ Len(ss) = N /\ \A k \in 1..N : ss[k] = Render(s[k]) /\ s[k] \in Token
  <2>1. N \in Nat /\ \A k \in 1..N : s[k] \in Token
    OBVIOUS
  <2>. QED  BY <2>1, RenderedType, Zenon
<1>2. Spelt(p, ss) /\ q = p[N] /\ n \in 0..N /\ i = Len(p[n]) + 1
  BY Zenon DEF Reached
<1>. HIDE DEF ss
<1>3. Placed(p, ss, N)
  BY <1>1, <1>2, SpeltFacts, Zenon
<1>. HIDE DEF N
<1>4. p[n] \in Seq(Runes) /\ p[N] \in Seq(Runes)
  <2>1. N \in 0..N
    BY <1>1, SMTT(30)
  <2>. QED  BY <1>2, <1>3, <2>1, Zenon DEF Placed
<1>5. n \in Nat /\ n + 1 \in 1..N /\ (n + 1) - 1 = n /\ n + 1 \in 0..N
  <2>1. n # N
    <3>1. Len(p[N]) \in Nat
      BY <1>4
    <3>2. n = N => Len(p[N]) + 1 <= Len(p[N])
      BY <1>2, Zenon
    <3>. QED  BY <3>1, <3>2, SMTT(30)
  <2>. QED  BY <1>1, <1>2, <2>1, SMTT(30)
<1>. DEFINE m == n + 1
            l == Len(p[n])
            r == Render(s[m])
<1>6. s[m] \in Token /\ ss[m] = r
  BY <1>1, <1>5, Zenon
<1>7. Len(p[m]) = Len(p[m - 1]) + Len(ss[m]) /\ Here(p[N], Len(p[m - 1]) + 1, ss[m])
  <2>1. m \in 1..N
    BY <1>5, Zenon
  <2>. HIDE DEF m
  <2>. QED  BY <1>3, <2>1, Zenon DEF Placed
<1>8. Len(p[m]) = l + Len(r) /\ Here(q, i, r)
  BY <1>2, <1>5, <1>6, <1>7, Zenon
<1>9. l \in Nat /\ Len(r) \in Nat
  BY <1>4, <1>6, RenderType, SMTT(30)
<1>10. (l + 1) + Len(r) = (l + Len(r)) + 1
  <2>. HIDE DEF l, r
  <2>. QED  BY <1>9
<1>11. i + Len(r) = Len(p[m]) + 1
  BY <1>2, <1>8, <1>10, Zenon
<1>12. Reached(s, p, q, m, i + Len(r))
  BY <1>2, <1>5, <1>11, Zenon DEF Reached, ss, N
<1>. QED  BY <1>5, <1>6, <1>8, <1>12, ZenonT(30) DEF N

(* The next token, and that it ends where the one behind it begins.         *)
LEMMA TokenComes ==
  ASSUME NEW s \in Seq(Token), Statement(s), NEW p, NEW q, NEW n, NEW i, Reached(s, p, q, n, i), i <= Len(q)
  PROVE  n \in Nat /\ NextToken(s, p, q, n, i)
<1>. DEFINE t == s[n + 1]
            z == i + Len(Render(t))
<1>1. n \in Nat /\ n + 1 \in 1..Len(s) /\ t \in Token /\ Here(q, i, Render(t)) /\ Reached(s, p, q, n + 1, z)
  BY NextIsHere, Zenon
<1>2. DOMAIN s = 1..Len(s) /\ Len(s) \in Nat
  OBVIOUS
<1>3. Bounded(t)
  <2>1. n + 1 \in DOMAIN s
    BY <1>1, <1>2, Zenon
  <2>. QED  BY <2>1, Zenon DEF Statement, Bounded
<1>4. ASSUME z <= Len(q)
      PROVE  /\ ~Sep(t) => q[z] \in Text
             /\ t.kind = "text" /\ t.body = <<"$">> => q[z] \in {Space, "="}
  <2>. DEFINE m == n + 1
              u == s[m + 1]
  <2>0. Reached(s, p, q, m, z)
    BY <1>1, Zenon
  <2>. HIDE DEF m, z
  <2>1. m + 1 \in 1..Len(s) /\ u \in Token /\ Here(q, z, Render(u)) /\ m \in Nat
    BY <1>4, <2>0, NextIsHere, Zenon
  <2>2. m + 1 \in 2..Len(s) /\ (m + 1) - 1 = m
    BY <1>1, <1>2, <2>1 DEF m
  <2>3. \/ t.body \in {<<Space>>, <<"=">>} /\ t.kind = "text"
        \/ u.kind = "text" /\ t.body # <<"$">>
        \/ u.body \in {<<Space>>, <<"=">>} /\ u.kind = "text"
    <3>. DEFINE w == m + 1
    <3>1. w \in 2..Len(s) /\ s[w - 1] = t /\ s[w] = u
      BY <2>2, Zenon DEF m
    <3>. HIDE DEF w, u, t
    <3>2. \/ s[w - 1].body \in {<<Space>>, <<"=">>} /\ s[w - 1].kind = "text"
          \/ s[w].kind = "text" /\ s[w - 1].body # <<"$">>
          \/ s[w].body \in {<<Space>>, <<"=">>} /\ s[w].kind = "text"
      BY <3>1, Zenon DEF Statement
    <3>. QED  BY <3>1, <3>2, Zenon
  <2>. DEFINE c == Render(u)[1]
  <2>4. q[z] = c /\ (u.kind = "text" => c \in Text /\ u.body = <<c>>)
    BY <2>1, HereFirst, RenderType, ZenonT(30)
  <2>. HIDE DEF u, t, c
  <2>5. ~Sep(t) => q[z] \in Text
    BY <2>3, <2>4, Zenon DEF Sep
  <2>6. ASSUME t.kind = "text", t.body = <<"$">> PROVE q[z] \in {Space, "="}
    <3>1. "$" # Space /\ "$" # "="
      BY Zenon DEF Space
    <3>2. t.body \notin {<<Space>>, <<"=">>}
      BY <2>6, <3>1, OneRune, Zenon
    <3>3. u.body \in {<<Space>>, <<"=">>} /\ u.kind = "text"
      BY <2>3, <2>6, <3>2, Zenon
    <3>. QED  BY <2>4, <3>3, OneRune, Zenon
  <2>. QED  BY <2>5, <2>6, Zenon
<1>5. Follows(q, z, t)
  BY <1>4, Zenon DEF Follows
<1>. QED  BY <1>1, <1>3, <1>5, Zenon DEF NextToken

(* A preview without the marker.                                            *)
Body(p) == IF p # <<>> /\ p[Len(p)] = Marker THEN SubSeq(p, 1, Len(p) - 1) ELSE p

(* Glyphs contain no marker.                                                *)
LEMMA BodyOfGlyphs == ASSUME NEW p \in Seq(Glyphs) PROVE Body(p) = p
<1>1. Marker \notin Glyphs
  BY Zenon DEF Marker, Glyphs, Text, Space, Wide
<1>. DEFINE G == Glyphs
<1>2. p \in Seq(G) /\ Marker \notin G
  BY <1>1, Zenon
<1>. HIDE DEF G
<1>3. p # <<>> => p[Len(p)] \in G
  BY <1>2
<1>. QED  BY <1>2, <1>3, Zenon DEF Body

(* The marker at the end is not part of the body.                           *)
LEMMA BodyOfCut == ASSUME NEW b \in Seq(Glyphs) PROVE Body(Append(b, Marker)) = b
<1>. DEFINE a == Append(b, Marker)
            G == Glyphs
<1>1. b \in Seq(G)
  BY Zenon
<1>. HIDE DEF G
<1>2. a # <<>> /\ a[Len(a)] = Marker /\ SubSeq(a, 1, Len(a) - 1) = b
  BY <1>1
<1>. HIDE DEF a
<1>. QED  BY <1>2, Zenon DEF Body, a

(* The beginning of the beginning.                                          *)
LEMMA PartOfPart ==
  ASSUME NEW o \in Seq(Glyphs), NEW r \in 0..Len(o)
  PROVE  /\ SubSeq(o, 1, r) \in Seq(Glyphs) /\ Len(SubSeq(o, 1, r)) = r
         /\ \A k \in 0..r : SubSeq(SubSeq(o, 1, r), 1, k) = SubSeq(o, 1, k) /\ SubSeq(o, 1, k) \in Seq(Glyphs)
<1>. DEFINE G == Glyphs
<1>1. o \in Seq(G)
  BY Zenon
<1>. HIDE DEF G
<1>2. /\ SubSeq(o, 1, r) \in Seq(G) /\ Len(SubSeq(o, 1, r)) = r
      /\ \A k \in 0..r : SubSeq(SubSeq(o, 1, r), 1, k) = SubSeq(o, 1, k) /\ SubSeq(o, 1, k) \in Seq(G)
  BY <1>1, SMTT(30)
<1>. QED  BY <1>2, Zenon DEF G

(* What is made of what was written for the first n tokens shows them, and, *)
(* cut, keeps the limit.                                                    *)
LEMMA PreviewIsFaithful ==
  ASSUME NEW N \in Nat, NEW t \in [1..N -> Glyphs], NEW n \in 0..N, NEW o,
         Line(Glyphs, t, Written(t), o, n), NEW l \in Nat, l >= 3
  PROVE  /\ Bytes(truncateUTF8(TrimSpace(o), l)) <= l
         /\ ListsStart(Body(truncateUTF8(TrimSpace(o), l)), t, Kept(t))
         /\ n = N => ListsStart(Body(TrimSpace(o)), t, Kept(t)) /\ Lists(TrimSpace(o), t, Kept(t))
<1>1. PICK L : LastSolid(t, n, L)
  <2>1. n \in Nat
    OBVIOUS
  <2>. QED  BY <2>1, LastSolidExists, Zenon
<1>. DEFINE r == Rank(Written(t), L)
            s == TrimSpace(o)
<1>2. s = SubSeq(o, 1, r) /\ r \in 0..Len(o)
  BY <1>1, Trimmed, Zenon
<1>3. o \in Seq(Glyphs)
  BY Zenon DEF Line
<1>4. \A k \in 0..r : ListsStart(SubSeq(o, 1, k), t, Kept(t))
  BY <1>1, PreviewStarts, Zenon
<1>5. r \in 0..r
  BY <1>2
<1>6. n = N => Lists(SubSeq(o, 1, r), t, Kept(t))
  BY <1>1, <1>5, PreviewStarts, Zenon
<1>. HIDE DEF r, s
<1>7. s \in Seq(Glyphs) /\ Len(s) = r /\ \A k \in 0..r : SubSeq(s, 1, k) = SubSeq(o, 1, k) /\ SubSeq(o, 1, k) \in Seq(Glyphs)
  BY <1>2, <1>3, PartOfPart, Zenon
<1>8. Body(s) = s /\ ListsStart(s, t, Kept(t))
  BY <1>2, <1>4, <1>5, <1>7, BodyOfGlyphs, ZenonT(30)
<1>. DEFINE c == truncateUTF8(s, l)
<1>9. Bytes(c) <= l /\ (c = s \/ \E k \in 0..Len(s) : c = Append(SubSeq(s, 1, k), Marker))
  BY <1>7, CutFits, Zenon
<1>. HIDE DEF c
<1>10. ListsStart(Body(c), t, Kept(t))
  <2>1. CASE c = s
    BY <1>8, <2>1, Zenon
  <2>2. ASSUME NEW k \in 0..Len(s), c = Append(SubSeq(s, 1, k), Marker) PROVE ListsStart(Body(c), t, Kept(t))
    <3>1. k \in 0..r /\ SubSeq(s, 1, k) = SubSeq(o, 1, k) /\ SubSeq(o, 1, k) \in Seq(Glyphs)
      BY <1>7, Zenon
    <3>2. Body(c) = SubSeq(o, 1, k)
      BY <2>2, <3>1, BodyOfCut, Zenon
    <3>. QED  BY <1>4, <3>1, <3>2, Zenon
  <2>. QED  BY <1>9, <2>1, <2>2, ZenonT(30)
<1>. QED  BY <1>2, <1>6, <1>8, <1>9, <1>10, ZenonT(30) DEF s, c

(* What a statement shows.                                                  *)
LEMMA ShownType ==
  ASSUME NEW s \in Seq(Token)
  PROVE  Shown(s) \in [1..Len(s) -> Glyphs] /\ \A k \in 1..Len(s) : Shown(s)[k] = Glyph(s[k])
<1>1. DOMAIN s = 1..Len(s) /\ \A k \in 1..Len(s) : s[k] \in Token
  OBVIOUS
<1>2. \A k \in 1..Len(s) : Glyph(s[k]) \in Glyphs
  <2>. SUFFICES ASSUME NEW u \in Token PROVE Glyph(u) \in Glyphs
    BY <1>1, Zenon
  <2>1. CASE u.kind = "text"
    <3>1. PICK c \in Text : u.body = <<c>>
      BY <2>1, TokenFacts, Zenon
    <3>2. <<c>>[1] = c
      OBVIOUS
    <3>. QED  BY <2>1, <3>1, <3>2, ZenonT(30) DEF Glyph, Glyphs
  <2>2. CASE u.kind # "text"
    BY <2>2, Zenon DEF Glyph, Glyphs
  <2>. QED  BY <2>1, <2>2, Zenon
<1>3. Shown(s) = [k \in 1..Len(s) |-> Glyph(s[k])]
  BY <1>1, Zenon DEF Shown, Glyph
<1>. QED  BY <1>2, <1>3, Zenon

(* A space is added unless it comes first or behind another one.            *)
LEMMA WrittenNext ==
  ASSUME NEW N \in Nat, NEW t \in [1..N -> Glyphs], NEW n \in Nat, n + 1 \in 1..N,
         Line(Glyphs, t, Written(t), out, n), lastWasSpace = (n > 0 /\ t[n] = Space)
  PROVE  Line(Glyphs, t, Written(t), out \o Adds(t[n + 1]), n + 1)
<1>. DEFINE K == Written(t)
            G == Glyphs
            m == n + 1
<1>0. n \in 0..N /\ (n + 1) - 1 = n /\ (n = 0 \/ (n > 0 /\ n \in 1..N)) /\ n + 1 > 1 <=> n > 0
  OBVIOUS
<1>1. K \in SUBSET (1..N)
  BY Zenon DEF Written
<1>2. m \in K <=> (t[m] = Space => n > 0 /\ t[n] # Space)
  <2>1. DOMAIN t = 1..N /\ (m > 1 <=> n > 0) /\ m - 1 = n
    OBVIOUS
  <2>. HIDE DEF m
  <2>2. m \in 1..N
    BY Zenon DEF m
  <2>. QED  BY <2>1, <2>2, ZenonT(30) DEF Written
<1>3. out \in Seq(G) /\ Len(out) = Rank(K, n)
  BY Zenon DEF Line
<1>4. n > 0 /\ t[n] # Space => out # <<>>
  <2>. SUFFICES ASSUME n > 0, t[n] # Space PROVE out # <<>>
    OBVIOUS
  <2>1. n \in 1..N /\ n - 1 \in Nat
    BY <1>0, SMTT(30)
  <2>2. n \in K
    BY <2>1, Zenon DEF Written
  <2>3. Rank(K, n) = Rank(K, n - 1) + 1 /\ Rank(K, n - 1) \in Nat
    BY <1>1, <2>1, <2>2, RankFacts, Zenon
  <2>. HIDE DEF K
  <2>. QED  BY <1>3, <2>3, SMTT(30)
<1>5. n = 0 => out = <<>>
  <2>. SUFFICES ASSUME n = 0 PROVE out = <<>>
    OBVIOUS
  <2>1. Rank(K, 0) = 0
    BY <1>1, RankFacts, Zenon
  <2>. HIDE DEF K, G
  <2>. QED  BY <1>3, <2>1, SMTT(30)
<1>6. (m \in K => Line(G, t, K, Append(out, t[m]), m)) /\ (m \notin K => Line(G, t, K, out, m))
  BY <1>1, LineGrows, Zenon
<1>7. t[m] \in G
  BY Zenon
<1>. DEFINE g == t[m]
<1>. HIDE DEF K, G
<1>8. out \o <<>> = out /\ out \o <<g>> = Append(out, g)
  <2>1. g \in G
    BY <1>7, Zenon
  <2>. HIDE DEF g
  <2>. QED  BY <1>3, <2>1, SMTT(30)
<1>9. n = 0 \/ n > 0
  BY <1>0
<1>. HIDE DEF m
<1>10. m \in K => Adds(g) = <<g>>
  <2>1. CASE g # Space
    BY <2>1, Zenon DEF Adds
  <2>2. CASE g = Space
    BY <1>2, <1>4, <2>2, ZenonT(30) DEF Adds
  <2>. QED  BY <2>1, <2>2, Zenon
<1>11. m \notin K => Adds(g) = <<>>
  <2>. SUFFICES ASSUME m \notin K PROVE Adds(g) = <<>>
    BY Zenon
  <2>1. g = Space /\ ~(n > 0 /\ t[n] # Space)
    BY <1>2, Zenon
  <2>2. lastWasSpace \/ out = <<>>
    BY <1>5, <1>9, <2>1, ZenonT(30)
  <2>. QED  BY <2>1, <2>2, Zenon DEF Adds
<1>12. Line(G, t, K, out \o Adds(g), m)
  <2>1. CASE m \in K
    BY <1>6, <1>8, <1>10, <2>1, ZenonT(30)
  <2>2. CASE m \notin K
    BY <1>6, <1>8, <1>11, <2>2, ZenonT(30)
  <2>. QED  BY <2>1, <2>2, Zenon
<1>. QED  BY <1>12, Zenon DEF G, K, g, m

(* How far the scan has come: n tokens are read, p holds what is rendered   *)
(* up to each token.                                                        *)
Progress(p, n) ==
  /\ Reached(stmt, p, query, n, pos)
  /\ Line(Glyphs, Shown(stmt), Written(Shown(stmt)), out, n)
  /\ lastWasSpace = (n > 0 /\ Shown(stmt)[n] = Space)

(* An iteration reads one token, and goes on or logs a cut preview.         *)
LEMMA ScanKeeps ==
  ASSUME stmt \in Seq(Token), Statement(stmt), query \in Seq(Runes), limit \in Nat, limit >= 3,
         NEW p, NEW n, Progress(p, n), ScanNext
  PROVE  /\ UNCHANGED <<stmt, query, limit, call>> /\ Progress(p, n + 1)'
         /\ \/ UNCHANGED <<scan, record>>
            \/ \E c : /\ LogPreview(c, TRUE) /\ Bytes(c) <= limit
                      /\ ListsStart(Body(c), Shown(stmt), Kept(Shown(stmt)))
<1>. DEFINE N == Len(stmt)
            t == Shown(stmt)
            u == stmt[n + 1]
            z == pos + Len(Render(u))
<1>1. pos <= Len(query)
  BY Zenon DEF ScanNext, ScanEscapeString, ScanDollarQuoted, ScanQuoted, ScanSpace, ScanNumber, ScanRune, Scanning
<1>2. /\ Reached(stmt, p, query, n, pos) /\ Line(Glyphs, t, Written(t), out, n)
      /\ lastWasSpace = (n > 0 /\ t[n] = Space)
  BY Zenon DEF Progress
<1>3. n \in Nat /\ NextToken(stmt, p, query, n, pos)
  BY <1>1, <1>2, TokenComes, ZenonT(30)
<1>4. /\ n + 1 \in 1..N /\ u \in Token /\ Bounded(u) /\ Here(query, pos, Render(u)) /\ Follows(query, z, u)
      /\ Reached(stmt, p, query, n + 1, z)
  BY <1>3, Zenon DEF NextToken
<1>5. N \in Nat /\ t \in [1..N -> Glyphs] /\ t[n + 1] = Glyph(u)
  <2>1. N \in Nat
    OBVIOUS
  <2>. QED  BY <1>4, <2>1, ShownType, ZenonT(30)
<1>. HIDE DEF N, t, u
<1>6. Recognizes(u, z)
  BY <1>4, Recognized, Zenon
<1>. HIDE DEF z
<1>7. Reads(u, z)
  BY <1>4, <1>6, TokenRead, ZenonT(30)
<1>8. /\ out' = out \o Adds(t[n + 1]) /\ pos' = z /\ lastWasSpace' = (t[n + 1] = Space)
      /\ UNCHANGED <<stmt, query, limit, call>>
      /\ (LogPreview(truncateUTF8(TrimSpace(out'), limit), TRUE) \/ UNCHANGED <<scan, record>>)
  BY <1>5, <1>7, Zenon DEF Reads, Emit
<1>9. Line(Glyphs, t, Written(t), out', n + 1)
  BY <1>2, <1>3, <1>4, <1>5, <1>8, WrittenNext, ZenonT(30)
<1>10. n + 1 > 0 /\ n + 1 \in 0..N
  BY <1>3, <1>4, <1>5, SMTT(30)
<1>11. /\ Bytes(truncateUTF8(TrimSpace(out'), limit)) <= limit
       /\ ListsStart(Body(truncateUTF8(TrimSpace(out'), limit)), t, Kept(t))
  BY <1>5, <1>9, <1>10, PreviewIsFaithful, ZenonT(30)
<1>12. Progress(p, n + 1)'
  <2>1. stmt' = stmt /\ query' = query
    BY <1>8, Zenon
  <2>2. Shown(stmt)' = t /\ Reached(stmt, p, query, n + 1, pos)' /\ lastWasSpace' = (n + 1 > 0 /\ t[n + 1] = Space)
    <3>1. Shown(stmt)' = t
      BY <2>1, Zenon DEF t
    <3>2. Reached(stmt, p, query, n + 1, pos)'
      BY <1>4, <1>8, <2>1, ZenonT(30)
    <3>. QED  BY <1>8, <1>10, <3>1, <3>2, ZenonT(30)
  <2>. QED  BY <1>9, <2>2, Zenon DEF Progress
<1>. QED  BY <1>8, <1>11, <1>12, ZenonT(30) DEF t

(* Behind the last rune every token is read.                                *)
LEMMA AllRead ==
  ASSUME NEW s \in Seq(Token), NEW p, NEW q, NEW n, NEW i, Reached(s, p, q, n, i)
  PROVE  q \in Seq(Runes) /\ i \in 1..(Len(q) + 1) /\ (i > Len(q) => n = Len(s))
<1>. DEFINE N == Len(s)
            ss == Rendered(s)
<1>1. N \in Nat /\ ss \in Seq(Seq(Runes)) /\ Len(ss) = N /\ \A k \in 1..N : ss[k] = Render(s[k]) /\ s[k] \in Token
  <2>1. N \in Nat /\ \A k \in 1..N : s[k] \in Token
    OBVIOUS
  <2>. QED  BY <2>1, RenderedType, Zenon
<1>2. Spelt(p, ss) /\ q = p[N] /\ n \in 0..N /\ i = Len(p[n]) + 1
  BY Zenon DEF Reached
<1>. HIDE DEF ss
<1>3. Placed(p, ss, N)
  BY <1>1, <1>2, SpeltFacts, Zenon
<1>. HIDE DEF N
<1>4. p[n] \in Seq(Runes) /\ q \in Seq(Runes) /\ Here(q, 1, p[n])
  <2>1. N \in 0..N
    BY <1>1
  <2>. QED  BY <1>2, <1>3, <2>1, Zenon DEF Placed
<1>. DEFINE l == Len(p[n])
            k == Len(q)
<1>5. l \in Nat /\ k \in Nat /\ i = l + 1 /\ 1 + l - 1 <= k
  <2>1. l \in Nat /\ k \in Nat
    BY <1>4
  <2>. QED  BY <1>2, <1>4, <2>1, Zenon DEF Here
<1>. HIDE DEF l, k
<1>6. i \in 1..(k + 1) /\ (i > k => l = k)
  BY <1>5
<1>7. ASSUME l = k, n # N PROVE FALSE
  <2>1. n + 1 \in 1..N /\ (n + 1) - 1 = n
    BY <1>1, <1>2, <1>7
  <2>. DEFINE m == n + 1
              r == Len(ss[m])
  <2>2. Here(q, l + 1, ss[m]) /\ r \in Nat /\ r >= 1
    <3>1. Here(q, Len(p[m - 1]) + 1, ss[m]) /\ ss[m] = Render(s[m]) /\ s[m] \in Token
      <4>. HIDE DEF m
      <4>1. m \in 1..N
        BY <2>1, Zenon DEF m
      <4>. QED  BY <1>1, <1>2, <1>3, <4>1, Zenon DEF Placed
    <3>. QED  BY <2>1, <3>1, RenderType, Zenon DEF l
  <2>. HIDE DEF m, r
  <2>3. (l + 1) + r - 1 <= k
    BY <2>2, Zenon DEF Here, k, r
  <2>. QED  BY <1>5, <1>7, <2>2, <2>3, SMTT(30)
<1>. QED  BY <1>4, <1>6, <1>7, ZenonT(30) DEF k, N

(* What the logger keeps true: the scan is at a token of the statement, and *)
(* what is logged is faithful.                                              *)
TraceInv ==
  /\ stmt \in Seq(Token) /\ Statement(stmt) /\ (\E p, n : Progress(p, n))
  /\ scan \in {"called", "scanning", "logged", "dropped"} /\ limit \in Limits /\ call \in TraceCall
  /\ record.truncated \in BOOLEAN
  /\ record.level = (IF scan = "logged" THEN traceSlogLevel(call) ELSE "none")
  /\ TraceIsFaithful

(* A call of Trace.                                                         *)
LEMMA CallFacts ==
  ASSUME NEW c \in TraceCall
  PROVE  /\ traceSlogLevel(c) \in DOMAIN Severity \cup {"none"}
         /\ traceSlogLevel(c) = "error" => c.err = "other" \/ (c.err = "notfound" /\ ~c.ignoreNotFound)
         /\ c.err = "other" /\ c.logLevel # 1 =>
              /\ traceSlogLevel(c) = "error" /\ ~(c.logLevel <= 1) /\ ~(Severity["error"] < Severity[c.min])
<1>1. /\ c.logLevel \in 1..4 /\ c.ignoreNotFound \in BOOLEAN /\ c.err \in {"nil", "notfound", "other"}
      /\ c.min \in DOMAIN Severity
  BY Zenon DEF TraceCall
<1>2. DOMAIN Severity = {"debug", "info", "warn", "error"}
  BY DEF Severity
<1>3. "error" # "warn" /\ "error" # "debug" /\ "error" # "none" /\ "other" # "nil" /\ "other" # "notfound"
  OBVIOUS
<1>4. traceSlogLevel(c) \in {"error", "warn", "debug", "none"}
  BY Zenon DEF traceSlogLevel
<1>5. traceSlogLevel(c) = "error" => isLoggedError(c)
  BY <1>3, Zenon DEF traceSlogLevel
<1>6. c.logLevel # 1 => c.logLevel >= 2 /\ ~(c.logLevel <= 1)
  BY <1>1
<1>7. c.err = "other" => isLoggedError(c)
  BY <1>3, Zenon DEF isLoggedError
<1>8. \A m \in {"debug", "info", "warn", "error"} : ~(Severity["error"] < Severity[m])
  BY DEF Severity
<1>9. isLoggedError(c) => c.err = "other" \/ (c.err = "notfound" /\ ~c.ignoreNotFound)
  BY <1>1, Zenon DEF isLoggedError
<1>10. c.err = "other" /\ c.logLevel # 1 => traceSlogLevel(c) = "error"
  BY <1>6, <1>7, Zenon DEF traceSlogLevel
<1>11. ~(Severity["error"] < Severity[c.min])
  BY <1>1, <1>2, <1>8, Zenon
<1>. QED  BY <1>2, <1>4, <1>5, <1>6, <1>9, <1>10, <1>11, Zenon

(* Faithfulness, when a preview is logged.                                  *)
LEMMA LoggedIsFaithful ==
  ASSUME TraceInv, UNCHANGED <<stmt, limit, call>>, NEW c, NEW b \in BOOLEAN, LogPreview(c, b),
         ListsStart(Body(c), Shown(stmt), Kept(Shown(stmt))),
         IF b THEN Bytes(c) <= limit ELSE Lists(c, Shown(stmt), Kept(Shown(stmt)))
  PROVE  /\ scan' = "logged" /\ record'.truncated \in BOOLEAN /\ record'.level = traceSlogLevel(call)'
         /\ TraceIsFaithful'
<1>1. stmt' = stmt /\ limit' = limit /\ call' = call
  BY Zenon
<1>2. scan' = "logged" /\ record' = [level |-> traceSlogLevel(call), preview |-> c, truncated |-> b]
  BY Zenon DEF LogPreview
<1>3. record'.level = traceSlogLevel(call) /\ record'.preview = c /\ record'.truncated = b
  BY <1>2, Zenon
<1>4. traceSlogLevel(call)' = traceSlogLevel(call)
  BY <1>1, Zenon
<1>5. FailuresAreLogged'
  <2>1. call \in TraceCall
    BY Zenon DEF TraceInv
  <2>2. "logged" # "dropped"
    OBVIOUS
  <2>. QED  BY <1>1, <1>2, <1>3, <2>1, <2>2, CallFacts, Zenon DEF FailuresAreLogged
<1>6. PreviewHidesValues'
  BY <1>1, <1>3, Zenon DEF PreviewHidesValues, Body
<1>7. CutIsReported'
  BY <1>1, <1>3, Zenon DEF CutIsReported
<1>. QED  BY <1>2, <1>3, <1>4, <1>5, <1>6, <1>7, Zenon DEF TraceIsFaithful

(* The first call of Trace satisfies the invariant.                         *)
LEMMA TraceStarts == LogInit => TraceInv
<1>. SUFFICES ASSUME LogInit PROVE TraceInv
  OBVIOUS
<1>. DEFINE ss == Rendered(stmt)
            t == Shown(stmt)
<1>1. stmt \in Seq(Token)
  <2>1. PICK k \in 0..MaxTokens : stmt \in [1..k -> Token]
    BY Zenon DEF LogInit
  <2>2. k \in Nat
    BY LogAssumption
  <2>. HIDE DEF LogInit
  <2>. DEFINE V == Token
  <2>3. stmt \in [1..k -> V]
    BY <2>1, Zenon
  <2>. HIDE DEF V
  <2>4. stmt \in Seq(V)
    BY <2>2, <2>3, SMTT(30)
  <2>. QED  BY <2>4, Zenon DEF V
<1>2. /\ Statement(stmt) /\ query = Concatenated(ss) /\ limit \in Limits /\ call \in TraceCall
      /\ scan = "called" /\ pos = 1 /\ out = <<>> /\ lastWasSpace = FALSE /\ record = NoRecord
  BY Zenon DEF LogInit, Rendered
<1>. HIDE DEF LogInit
<1>3. ss \in Seq(Seq(Runes)) /\ Len(ss) = Len(stmt) /\ Len(stmt) \in Nat
  <2>1. Len(stmt) \in Nat
    BY <1>1
  <2>. QED  BY <1>1, <2>1, RenderedType, Zenon
<1>4. PICK p : Spelt(p, ss) /\ Concatenated(ss) = p[Len(ss)]
  BY <1>3, Concatenation, Zenon
<1>5. Reached(stmt, p, query, 0, pos)
  <2>1. p[0] = <<>>
    BY <1>4, Zenon DEF Spelt
  <2>. HIDE DEF ss
  <2>2. 0 \in 0..Len(stmt) /\ pos = Len(p[0]) + 1
    BY <1>2, <1>3, <2>1, SMTT(30)
  <2>. QED  BY <1>2, <1>3, <1>4, <2>2, ZenonT(30) DEF Reached, ss
<1>6. Line(Glyphs, t, Written(t), out, 0)
  <2>1. t \in [1..Len(stmt) -> Glyphs]
    BY <1>1, ShownType, Zenon
  <2>2. Written(t) \in SUBSET (1..Len(stmt))
    BY <2>1, Zenon DEF Written
  <2>3. Rank(Written(t), 0) = 0
    BY <1>3, <2>2, RankFacts, ZenonT(30)
  <2>. DEFINE W == Written(t)
              G == Glyphs
              N == Len(stmt)
  <2>4. W \in SUBSET (1..N) /\ N \in Nat /\ Rank(W, 0) = 0
    BY <1>3, <2>2, <2>3, ZenonT(30)
  <2>. HIDE DEF W, G, N
  <2>5. out \in Seq(G) /\ Len(out) = Rank(W, 0) /\ \A i \in W : ~(i <= 0)
    BY <1>2, <2>4, SMTT(30)
  <2>6. Line(G, t, W, out, 0)
    BY <2>5, Zenon DEF Line
  <2>. QED  BY <2>6, Zenon DEF W, G
<1>7. Progress(p, 0)
  <2>1. ~(0 > 0)
    OBVIOUS
  <2>. QED  BY <1>2, <1>5, <1>6, <2>1, Zenon DEF Progress
<1>8. record.level = "none" /\ record.truncated = FALSE
  BY <1>2, Zenon DEF NoRecord
<1>9. TraceIsFaithful
  <2>1. "called" # "logged" /\ "called" # "dropped" /\ "none" # "error"
    OBVIOUS
  <2>. QED  BY <1>2, <1>8, <2>1, ZenonT(30) DEF TraceIsFaithful, FailuresAreLogged, PreviewHidesValues, CutIsReported
<1>10. "called" # "logged"
  OBVIOUS
<1>. QED  BY <1>1, <1>2, <1>7, <1>8, <1>9, <1>10, ZenonT(30) DEF TraceInv

(* Trace itself drops a failed query only when logging is silent.           *)
LEMMA TraceDecides == ASSUME TraceInv, Trace PROVE TraceInv'
<1>1. scan = "called" /\ UNCHANGED <<stmt, query, limit, call, pos, out, lastWasSpace, record>>
  BY Zenon DEF Trace
<1>2. /\ stmt \in Seq(Token) /\ Statement(stmt) /\ (\E p, n : Progress(p, n))
      /\ limit \in Limits /\ call \in TraceCall /\ record.truncated \in BOOLEAN
      /\ record.level = (IF scan = "logged" THEN traceSlogLevel(call) ELSE "none")
  BY Zenon DEF TraceInv
<1>3. "called" # "logged" /\ "dropped" # "logged" /\ "scanning" # "logged" /\ "none" # "error" /\ "scanning" # "dropped"
  OBVIOUS
<1>4. record.level = "none"
  BY <1>1, <1>2, <1>3, ZenonT(30)
<1>5. scan' \in {"dropped", "scanning"}
  BY Zenon DEF Trace
<1>6. scan' = "dropped" /\ call.err = "other" => call.logLevel = 1
  <2>. SUFFICES ASSUME call.err = "other", call.logLevel # 1 PROVE scan' = "scanning"
    BY <1>3, Zenon
  <2>1. /\ traceSlogLevel(call) = "error" /\ ~(call.logLevel <= 1) /\ ~(Severity["error"] < Severity[call.min])
    BY <1>2, CallFacts, Zenon
  <2>. QED  BY <1>3, <2>1, Zenon DEF Trace
<1>7. /\ stmt' = stmt /\ query' = query /\ limit' = limit /\ call' = call /\ pos' = pos /\ out' = out
      /\ lastWasSpace' = lastWasSpace /\ record' = record
  BY <1>1, Zenon
<1>8. TraceIsFaithful'
  <2>1. scan' # "logged"
    BY <1>3, <1>5, Zenon
  <2>2. FailuresAreLogged'
    BY <1>3, <1>4, <1>6, <1>7, ZenonT(30) DEF FailuresAreLogged
  <2>. QED  BY <2>1, <2>2, Zenon DEF TraceIsFaithful, PreviewHidesValues, CutIsReported
<1>9. (\E p, n : Progress(p, n))'
  BY <1>2, <1>7, Zenon DEF Progress
<1>. QED  BY <1>2, <1>3, <1>4, <1>5, <1>7, <1>8, <1>9, ZenonT(30) DEF TraceInv

(* A step of the scan.                                                      *)
LEMMA TraceScans == ASSUME TraceInv, ScanNext PROVE TraceInv'
<1>1. /\ stmt \in Seq(Token) /\ Statement(stmt) /\ (\E p, n : Progress(p, n))
      /\ limit \in Limits /\ call \in TraceCall /\ record.truncated \in BOOLEAN
      /\ record.level = (IF scan = "logged" THEN traceSlogLevel(call) ELSE "none") /\ TraceIsFaithful
      /\ scan \in {"called", "scanning", "logged", "dropped"}
  BY Zenon DEF TraceInv
<1>2. PICK p, n : Progress(p, n)
  BY <1>1, Zenon
<1>3. query \in Seq(Runes)
  BY <1>1, <1>2, AllRead, Zenon DEF Progress
<1>4. limit \in Nat /\ limit >= 3
  BY <1>1, LogAssumption, Zenon
<1>5. UNCHANGED <<stmt, query, limit, call>> /\ Progress(p, n + 1)'
  BY <1>1, <1>2, <1>3, <1>4, ScanKeeps, ZenonT(30)
<1>6. stmt' = stmt /\ limit' = limit /\ call' = call /\ (\E i, j : Progress(i, j))'
  BY <1>5, Zenon
<1>7. CASE UNCHANGED <<scan, record>>
  <2>1. scan' = scan /\ record' = record
    BY <1>7, Zenon
  <2>2. TraceIsFaithful'
    BY <1>1, <1>6, <2>1, ZenonT(30) DEF TraceIsFaithful, FailuresAreLogged, PreviewHidesValues, CutIsReported
  <2>. QED  BY <1>1, <1>6, <2>1, <2>2, ZenonT(30) DEF TraceInv
<1>8. ASSUME NEW c, LogPreview(c, TRUE), Bytes(c) <= limit, ListsStart(Body(c), Shown(stmt), Kept(Shown(stmt)))
      PROVE  TraceInv'
  <2>1. UNCHANGED <<stmt, limit, call>> /\ TRUE \in BOOLEAN
    BY <1>6, Zenon
  <2>2. /\ scan' = "logged" /\ record'.truncated \in BOOLEAN /\ record'.level = traceSlogLevel(call)'
        /\ TraceIsFaithful'
    BY <1>8, <2>1, LoggedIsFaithful, ZenonT(30)
  <2>. QED  BY <1>1, <1>6, <2>2, ZenonT(30) DEF TraceInv
<1>. QED  BY <1>1, <1>2, <1>3, <1>4, <1>7, <1>8, ScanKeeps, ZenonT(30)

(* The end of the statement.                                                *)
LEMMA TraceFinishes == ASSUME TraceInv, ScanEnd PROVE TraceInv'
<1>1. /\ stmt \in Seq(Token) /\ Statement(stmt) /\ (\E p, n : Progress(p, n))
      /\ limit \in Limits /\ call \in TraceCall
  BY Zenon DEF TraceInv
<1>2. /\ pos > Len(query) /\ LogPreview(TrimSpace(out), FALSE)
      /\ UNCHANGED <<stmt, query, limit, call, pos, out, lastWasSpace>>
  BY Zenon DEF ScanEnd
<1>3. PICK p, n : Progress(p, n)
  BY <1>1, Zenon
<1>. DEFINE N == Len(stmt)
            t == Shown(stmt)
<1>4. n = N /\ Line(Glyphs, t, Written(t), out, n)
  BY <1>1, <1>2, <1>3, AllRead, ZenonT(30) DEF Progress
<1>5. N \in Nat /\ N \in 0..N
  BY <1>1
<1>6. t \in [1..N -> Glyphs]
  BY <1>1, ShownType, Zenon
<1>7. limit \in Nat /\ limit >= 3
  BY <1>1, LogAssumption, Zenon
<1>. HIDE DEF N, t
<1>8. ListsStart(Body(TrimSpace(out)), t, Kept(t)) /\ Lists(TrimSpace(out), t, Kept(t))
  BY <1>4, <1>5, <1>6, <1>7, PreviewIsFaithful, ZenonT(30)
<1>9. stmt' = stmt /\ limit' = limit /\ call' = call /\ Progress(p, n)'
  BY <1>2, <1>3, Zenon DEF Progress
<1>10. /\ scan' = "logged" /\ record'.truncated \in BOOLEAN /\ record'.level = traceSlogLevel(call)'
       /\ TraceIsFaithful'
  <2>1. UNCHANGED <<stmt, limit, call>> /\ FALSE \in BOOLEAN
    BY <1>9, Zenon
  <2>. QED  BY <1>2, <1>8, <2>1, LoggedIsFaithful, ZenonT(30) DEF t
<1>. QED  BY <1>1, <1>9, <1>10, ZenonT(30) DEF TraceInv

(* Every step keeps the invariant.                                          *)
LEMMA TraceSteps == TraceInv /\ [LogNext]_logVars => TraceInv'
<1>. SUFFICES ASSUME TraceInv, [LogNext]_logVars PROVE TraceInv'
  OBVIOUS
<1>1. CASE LogNext
  BY <1>1, TraceDecides, TraceScans, TraceFinishes, ZenonT(30) DEF LogNext, ScanNext
<1>2. CASE UNCHANGED logVars
  <2>1. /\ stmt' = stmt /\ query' = query /\ limit' = limit /\ call' = call /\ scan' = scan /\ pos' = pos
        /\ out' = out /\ lastWasSpace' = lastWasSpace /\ record' = record
    BY <1>2, Zenon DEF logVars
  <2>. QED
    BY <2>1, Zenon DEF TraceInv, Progress, TraceIsFaithful, FailuresAreLogged, PreviewHidesValues, CutIsReported
<1>. QED  BY <1>1, <1>2, Zenon

(* Trace and redactSQLValues, whatever the statement, the values in it and  *)
(* the limit: what has to be logged is, no literal closes early or swallows *)
(* what follows it, and a preview without Truncated is complete.            *)
THEOREM TraceIsFaithfulHolds == LogSpec => []TraceIsFaithful
<1>1. TraceInv => TraceIsFaithful
  BY ZenonT(30) DEF TraceInv
<1>. QED  BY <1>1, TraceStarts, TraceSteps, PTL DEF LogSpec

(* The scanner never leaves the statement, whose end it may reach: pos is   *)
(* an index of it or the one behind it.                                     *)
THEOREM LogTypeCorrect == LogSpec => []LogTypeOK
<1>1. TraceInv => LogTypeOK
  <2>. SUFFICES ASSUME TraceInv PROVE LogTypeOK
    OBVIOUS
  <2>1. /\ stmt \in Seq(Token) /\ (\E p, n : Progress(p, n)) /\ scan \in {"called", "scanning", "logged", "dropped"}
        /\ limit \in Limits /\ call \in TraceCall /\ record.truncated \in BOOLEAN
        /\ record.level = (IF scan = "logged" THEN traceSlogLevel(call) ELSE "none")
    BY Zenon DEF TraceInv
  <2>2. pos \in 1..(Len(query) + 1) /\ lastWasSpace \in BOOLEAN
    BY <2>1, AllRead, Zenon DEF Progress
  <2>3. record.level \in DOMAIN Severity \cup {"none"}
    BY <2>1, CallFacts, Zenon
  <2>. QED  BY <2>1, <2>2, <2>3, ZenonT(30) DEF LogTypeOK
<1>. QED  BY <1>1, TraceStarts, TraceSteps, PTL DEF LogSpec
==============================================================================
