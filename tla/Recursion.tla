------------------------------ MODULE Recursion ------------------------------
(* Facts about recursion on finite data that the proofs of this project     *)
(* share.  Induction is stated for a set of numbers, and recursion for a    *)
(* step that is a function, so that both can be cited like any other fact.  *)
EXTENDS SequenceOps, FiniteSetTheorems, WellFoundedInduction, TLAPS

(* Every set of numbers that is not empty has a least element.              *)
LEMMA LeastNat ==
  ASSUME NEW T \in SUBSET Nat, T # {}
  PROVE  \E x \in T : \A y \in T : x <= y
<1>1. PICK x \in T : \A y \in T : ~ (<<y, x>> \in OpToRel(<, Nat))
  BY WFMin, NatLessThanWellFounded, Zenon
<1>2. \A y \in T : ~ (y < x)
  BY <1>1 DEF OpToRel
<1>. QED  BY <1>2

(* A set with 0, and with n + 1 for each of its elements n, has them all.   *)
LEMMA Induction ==
  ASSUME NEW T \in SUBSET Nat, 0 \in T, \A n \in T : n + 1 \in T
  PROVE  T = Nat
<1>. SUFFICES ASSUME Nat \ T # {} PROVE FALSE
  OBVIOUS
<1>1. PICK x \in Nat \ T : \A y \in Nat \ T : x <= y
  BY LeastNat
<1>2. x # 0 /\ x - 1 \in Nat
  OBVIOUS
<1>3. x - 1 \in T
  BY <1>1, <1>2
<1>. QED  BY <1>1, <1>3

(* The same up to a bound.                                                  *)
LEMMA InductionUpTo ==
  ASSUME NEW m \in Nat, NEW T, 0 \in T, \A n \in 0..m - 1 : n \in T => n + 1 \in T
  PROVE  0..m \subseteq T
<1>. DEFINE U == {n \in Nat : n <= m => n \in T}
<1>1. 0 \in U /\ U \in SUBSET Nat
  OBVIOUS
<1>2. \A n \in U : n + 1 \in U
  OBVIOUS
<1>. HIDE DEF U
<1>3. U = Nat
  BY <1>1, <1>2, Induction
<1>. QED  BY <1>3 DEF U
-----------------------------------------------------------------------------
(* Recursion on the subsets of a finite set: pick chooses an element, step  *)
(* combines it with the value for the others.                               *)
Computed(h, D, V, base, pick, step) ==
  /\ h \in [D -> V]
  /\ \A s \in D : h[s] = IF s = {} THEN base ELSE step[<<pick[s], h[s \ {pick[s]}]>>]

(* The subsets of S with at most n elements.                                *)
Small(S, n) == {s \in SUBSET S : Cardinality(s) <= n}

(* There is a function that satisfies the recursion.                        *)
LEMMA FiniteRecursion ==
  ASSUME NEW S, IsFiniteSet(S), NEW V, NEW base \in V, NEW step \in [S \X V -> V],
         NEW pick, \A s \in SUBSET S : s # {} => pick[s] \in s
  PROVE  \E h : Computed(h, SUBSET S, V, base, pick, step)
<1>. DEFINE Good == {n \in Nat : \E h : Computed(h, Small(S, n), V, base, pick, step)}
<1>0. \A s \in SUBSET S : IsFiniteSet(s) /\ Cardinality(s) \in Nat
  BY FS_Subset, FS_CardinalityType
<1>1. 0 \in Good
  <2>1. \A s \in SUBSET S : Cardinality(s) <= 0 <=> s = {}
    BY <1>0, FS_EmptySet
  <2>2. Small(S, 0) = {{}}
    BY <2>1, FS_EmptySet DEF Small
  <2>3. Computed([s \in {{}} |-> base], Small(S, 0), V, base, pick, step)
    BY <2>2 DEF Computed
  <2>. QED  BY <2>3
<1>2. ASSUME NEW n \in Good PROVE n + 1 \in Good
  <2>1. PICK h : Computed(h, Small(S, n), V, base, pick, step)
    BY <1>2
  <2>. DEFINE Others(s) == s \ {pick[s]}
  <2>2. ASSUME NEW s \in Small(S, n + 1), s # {}
        PROVE  Others(s) \in Small(S, n) /\ pick[s] \in S
    <3>1. pick[s] \in s /\ s \in SUBSET S /\ Cardinality(s) <= n + 1
      BY <2>2 DEF Small
    <3>2. Cardinality(Others(s)) = Cardinality(s) - 1
      BY <1>0, <3>1, FS_RemoveElement
    <3>. QED  BY <1>0, <3>1, <3>2 DEF Small
  <2>3. Small(S, n) \subseteq Small(S, n + 1)
    BY <1>0 DEF Small
  <2>. DEFINE g == [s \in Small(S, n + 1) |->
                      IF s = {} THEN base ELSE step[<<pick[s], h[Others(s)]>>]]
  <2>4. \A s \in Small(S, n) : g[s] = h[s]
    BY <2>1, <2>3, SMTT(30) DEF Computed
  <2>5. g \in [Small(S, n + 1) -> V]
    BY <2>1, <2>2, SMTT(30) DEF Computed
  <2>6. \A s \in Small(S, n + 1) :
          g[s] = IF s = {} THEN base ELSE step[<<pick[s], g[Others(s)]>>]
    BY <2>2, <2>4
  <2>7. Computed(g, Small(S, n + 1), V, base, pick, step)
    BY <2>5, <2>6 DEF Computed
  <2>. QED  BY <2>7
<1>. HIDE DEF Good
<1>3. Good = Nat
  <2>1. Good \in SUBSET Nat
    BY DEF Good
  <2>2. \A n \in Good : n + 1 \in Good
    BY <1>2
  <2>. QED  BY <1>1, <2>1, <2>2, Induction
<1>4. Small(S, Cardinality(S)) = SUBSET S
  BY <1>0, FS_Subset DEF Small
<1>5. Cardinality(S) \in Good
  BY <1>0, <1>3
<1>6. PICK h : Computed(h, Small(S, Cardinality(S)), V, base, pick, step)
  BY <1>5 DEF Good
<1>7. Computed(h, SUBSET S, V, base, pick, step)
  BY <1>4, <1>6 DEF Computed
<1>. QED  BY <1>7
-----------------------------------------------------------------------------
(* FoldLeft takes the elements of a sequence in order: its recursion is on  *)
(* the sets of indices, of which the greatest is taken first.               *)
FoldTable(h, s, b, step) ==
  \A t \in SUBSET DOMAIN s : h[t] = IF t = {} THEN b ELSE step[<<h[t \ {Max(t)}], s[Max(t)]>>]

(* p holds the values of a fold after each prefix of s, and v is the last   *)
(* of them.                                                                 *)
FoldPath(p, s, V, b, step) ==
  /\ p \in [0..Len(s) -> V] /\ p[0] = b
  /\ \A k \in 1..Len(s) : p[k] = step[<<p[k - 1], s[k]>>]

Folded(v, s, V, b, step) == \E p : FoldPath(p, s, V, b, step) /\ v = p[Len(s)]

(* A set of indices has a greatest one.                                     *)
LEMMA MaxOfIndices ==
  ASSUME NEW n \in Nat, NEW t \in SUBSET (1..n), t # {}
  PROVE  Max(t) \in t /\ \A x \in t : x <= Max(t)
<1>. DEFINE T == {n - x : x \in t}
<1>0. \A x \in t : x \in 1..n /\ n - x \in Nat
  OBVIOUS
<1>1. T \in SUBSET Nat /\ T # {}
  BY <1>0
<1>. HIDE DEF T
<1>2. PICK y \in T : \A z \in T : y <= z
  BY <1>1, LeastNat
<1>3. PICK x \in t : y = n - x
  BY DEF T
<1>4. \A z \in t : z <= x
  <2>. TAKE z \in t
  <2>1. n - z \in T /\ y <= n - z
    BY <1>2 DEF T
  <2>2. x \in 1..n /\ z \in 1..n
    OBVIOUS
  <2>. QED  BY <1>3, <2>1, <2>2
<1>5. \E m \in t : \A z \in t : m >= z
  <2>1. \A z \in t : x >= z
    BY <1>4
  <2>. QED  BY <2>1
<1>. QED  BY <1>5 DEF Max

(* The element there is one of the sequence's.                              *)
LEMMA ElementAtMax ==
  ASSUME NEW E, NEW s \in Seq(E), NEW t \in SUBSET DOMAIN s, t # {}
  PROVE  Max(t) \in DOMAIN s /\ s[Max(t)] \in E
<1>1. Len(s) \in Nat /\ DOMAIN s = 1..Len(s)
  OBVIOUS
<1>2. Max(t) \in t
  BY <1>1, MaxOfIndices, SMTT(30)
<1>. QED  BY <1>1, <1>2

(* The greatest of 1..k is k.                                               *)
LEMMA MaxOfInterval ==
  ASSUME NEW k \in Nat, k # 0
  PROVE  Max(1..k) = k /\ (1..k) \ {Max(1..k)} = 1..k - 1
<1>2. k \in 1..k
  OBVIOUS
<1>1. Max(1..k) \in 1..k /\ \A x \in 1..k : x <= Max(1..k)
  <2>1. 1..k \in SUBSET (1..k) /\ 1..k # {}
    BY <1>2
  <2>. QED  BY <2>1, MaxOfIndices
<1>. DEFINE m == Max(1..k)
<1>. HIDE DEF m
<1>3. m = k
  BY <1>1, <1>2 DEF m
<1>. QED  BY <1>3 DEF m

(* A step on the elements of a sequence defines a fold of it.               *)
LEMMA FoldExists ==
  ASSUME NEW E, NEW V, NEW b \in V, NEW s \in Seq(E), NEW step \in [V \X E -> V]
  PROVE  \E h \in [SUBSET DOMAIN s -> V] : FoldTable(h, s, b, step)
<1>. DEFINE S == DOMAIN s
            pick == [t \in SUBSET S |-> Max(t)]
            back == [q \in S \X V |-> step[<<q[2], s[q[1]]>>]]
<1>1. S = 1..Len(s) /\ Len(s) \in Nat
  OBVIOUS
<1>2. IsFiniteSet(S)
  BY <1>1, FS_Interval
<1>3. \A t \in SUBSET S : t # {} => pick[t] \in t /\ pick[t] = Max(t)
  BY <1>1, MaxOfIndices
<1>4. back \in [S \X V -> V]
  OBVIOUS
<1>. HIDE DEF pick, back
<1>5. PICK h : Computed(h, SUBSET S, V, b, pick, back)
  BY <1>2, <1>3, <1>4, FiniteRecursion
<1>6. h \in [SUBSET S -> V] /\ h[{}] = b
  BY <1>5 DEF Computed
<1>7. ASSUME NEW t \in SUBSET S, t # {}
      PROVE  h[t] = step[<<h[t \ {Max(t)}], s[Max(t)]>>]
  <2>1. Max(t) \in S /\ h[t \ {Max(t)}] \in V /\ pick[t] = Max(t)
    BY <1>3, <1>6, <1>7
  <2>2. h[t] = back[<<Max(t), h[t \ {Max(t)}]>>]
    BY <1>5, <1>7, <2>1 DEF Computed
  <2>. QED  BY <2>1, <2>2 DEF back
<1>. QED  BY <1>6, <1>7 DEF FoldTable

(* A table that follows the step wherever it has a value is the fold.       *)
LEMMA FoldIsFolded ==
  ASSUME NEW E, NEW V, NEW b \in V, NEW s \in Seq(E), NEW step \in [V \X E -> V], NEW h, h[{}] = b,
         \A t \in SUBSET DOMAIN s : t # {} /\ h[t \ {Max(t)}] \in V =>
           h[t] = step[<<h[t \ {Max(t)}], s[Max(t)]>>]
  PROVE  Folded(h[DOMAIN s], s, V, b, step)
<1>. DEFINE n == Len(s)
            p == [k \in 0..n |-> h[1..k]]
            T == {k \in 0..n : h[1..k] \in V}
<1>1. DOMAIN s = 1..n /\ n \in Nat
  OBVIOUS
<1>2. 0 \in T
  <2>1. 1..0 = {}
    OBVIOUS
  <2>. QED  BY <1>1, <2>1
<1>3. ASSUME NEW k \in 1..n, h[1..k - 1] \in V
      PROVE  h[1..k] = step[<<h[1..k - 1], s[k]>>] /\ h[1..k] \in V
  <2>1. 1..k \in SUBSET DOMAIN s /\ 1..k # {} /\ k \in Nat /\ k # 0 /\ s[k] \in E
    <3>1. k \in 1..k /\ k \in Nat /\ k # 0
      BY <1>1
    <3>2. \A x \in 1..k : x \in 1..n
      BY <1>1
    <3>3. 1..k \in SUBSET DOMAIN s
      BY <1>1, <3>2
    <3>4. 1..k # {}
      BY <3>1
    <3>5. s[k] \in E
      BY <1>1
    <3>. QED  BY <3>1, <3>3, <3>4, <3>5
  <2>2. Max(1..k) = k /\ (1..k) \ {Max(1..k)} = 1..k - 1
    BY <2>1, MaxOfInterval
  <2>3. h[1..k] = step[<<h[1..k - 1], s[k]>>]
    BY <1>3, <2>1, <2>2
  <2>. QED  BY <1>3, <2>1, <2>3
<1>4. \A k \in 0..n - 1 : k \in T => k + 1 \in T
  <2>. SUFFICES ASSUME NEW k \in 0..n - 1, k \in T PROVE k + 1 \in T
    OBVIOUS
  <2>1. k + 1 \in 1..n /\ (k + 1) - 1 = k /\ k + 1 \in 0..n
    BY <1>1
  <2>2. h[1..k + 1] \in V
    BY <1>3, <2>1
  <2>. QED  BY <2>1, <2>2
<1>5. \A k \in 0..n : h[1..k] \in V
  <2>. HIDE DEF T, n
  <2>1. 0..n \subseteq T
    BY <1>1, <1>2, <1>4, InductionUpTo
  <2>. QED  BY <2>1 DEF T
<1>6. FoldPath(p, s, V, b, step)
  <2>1. p \in [0..n -> V]
    BY <1>5
  <2>2. p[0] = b
    <3>1. 1..0 = {} /\ 0 \in 0..n
      BY <1>1
    <3>. QED  BY <3>1
  <2>3. ASSUME NEW k \in 1..n PROVE p[k] = step[<<p[k - 1], s[k]>>]
    <3>1. k \in 0..n /\ k - 1 \in 0..n
      BY <1>1
    <3>2. h[1..k] = step[<<h[1..k - 1], s[k]>>]
      BY <1>3, <1>5, <3>1
    <3>. QED  BY <3>1, <3>2
  <2>. QED  BY <2>1, <2>2, <2>3 DEF FoldPath
<1>7. p[n] = h[DOMAIN s]
  BY <1>1
<1>. HIDE DEF p
<1>. QED  BY <1>6, <1>7 DEF Folded

(* w is the value that follows v in a fold, at element e.                   *)
FoldStep(v, w, e, V, step) == v \in V /\ w = step[<<v, e>>]

(* The fold of a longer sequence takes one more step.                       *)
LEMMA FoldedAppend ==
  ASSUME NEW E, NEW V, NEW b \in V, NEW s \in Seq(E), NEW e \in E, NEW step \in [V \X E -> V],
         NEW v, NEW w, Folded(v, s, V, b, step), Folded(w, Append(s, e), V, b, step)
  PROVE  FoldStep(v, w, e, V, step)
<1>. DEFINE n == Len(s)
            u == Append(s, e)
<1>0. n \in Nat /\ Len(u) = n + 1 /\ u[n + 1] = e /\ \A k \in 1..n : u[k] = s[k]
  OBVIOUS
<1>1. PICK p : FoldPath(p, s, V, b, step) /\ v = p[n]
  BY DEF Folded
<1>2. PICK q : FoldPath(q, u, V, b, step) /\ w = q[n + 1]
  BY <1>0 DEF Folded
<1>. HIDE DEF u
<1>3. p \in [0..n -> V] /\ p[0] = b /\ \A k \in 1..n : p[k] = step[<<p[k - 1], s[k]>>]
  BY <1>1 DEF FoldPath
<1>4. q \in [0..n + 1 -> V] /\ q[0] = b /\ \A k \in 1..n + 1 : q[k] = step[<<q[k - 1], u[k]>>]
  BY <1>0, <1>2 DEF FoldPath
<1>. DEFINE T == {k \in 0..n : p[k] = q[k]}
<1>5. 0 \in T
  BY <1>0, <1>3, <1>4
<1>6. \A k \in 0..n - 1 : k \in T => k + 1 \in T
  <2>. SUFFICES ASSUME NEW k \in 0..n - 1, k \in T PROVE k + 1 \in T
    OBVIOUS
  <2>1. k + 1 \in 1..n /\ k + 1 \in 1..n + 1 /\ (k + 1) - 1 = k /\ k + 1 \in 0..n
    BY <1>0
  <2>2. p[k + 1] = step[<<p[k], s[k + 1]>>] /\ q[k + 1] = step[<<q[k], u[k + 1]>>] /\ u[k + 1] = s[k + 1]
    BY <1>0, <1>3, <1>4, <2>1
  <2>. QED  BY <2>1, <2>2
<1>7. p[n] = q[n]
  <2>. HIDE DEF T, n
  <2>1. 0..n \subseteq T
    BY <1>0, <1>5, <1>6, InductionUpTo
  <2>. QED  BY <1>0, <2>1 DEF T
<1>8. n + 1 \in 1..n + 1 /\ (n + 1) - 1 = n /\ n \in 0..n
  BY <1>0
<1>9. q[n + 1] = step[<<q[n], e>>]
  BY <1>0, <1>4, <1>8
<1>. QED  BY <1>1, <1>2, <1>3, <1>7, <1>8, <1>9 DEF FoldStep

(* The fold of nothing is the base.                                         *)
LEMMA FoldedEmpty ==
  ASSUME NEW V, NEW b, NEW step, NEW v, Folded(v, <<>>, V, b, step)
  PROVE  v = b
BY DEF Folded, FoldPath
-----------------------------------------------------------------------------
(* Two sequences of one kind of elements, one behind the other.             *)
LEMMA ConcatFacts ==
  ASSUME NEW K, NEW u \in Seq(K), NEW v \in Seq(K)
  PROVE  /\ u \o v \in Seq(K) /\ Len(u \o v) = Len(u) + Len(v)
         /\ \A i \in 1..Len(u) + Len(v) : (u \o v)[i] = IF i <= Len(u) THEN u[i] ELSE v[i - Len(u)]
OBVIOUS

(* Counting goes up by one at each element.                                 *)
LEMMA RankFacts ==
  ASSUME NEW m \in Nat, NEW K \in SUBSET (1..m)
  PROVE  /\ Rank(K, 0) = 0 /\ \A n \in Nat : Rank(K, n) \in Nat
         /\ \A n \in 1..m : n \in K => Rank(K, n) = Rank(K, n - 1) + 1
         /\ \A n \in 1..m : n \notin K => Rank(K, n) = Rank(K, n - 1)
         /\ \A i, n \in Nat : i <= n => Rank(K, i) <= Rank(K, n)
<1>. DEFINE U(n) == {j \in K : j <= n}
<1>0. \A j \in K : j \in Nat /\ j \in 1..m /\ 1 <= j
  OBVIOUS
<1>1. \A n \in Nat : IsFiniteSet(U(n)) /\ Cardinality(U(n)) \in Nat
  <2>. SUFFICES ASSUME NEW n \in Nat PROVE IsFiniteSet(U(n)) /\ Cardinality(U(n)) \in Nat
    BY Zenon
  <2>1. IsFiniteSet(1..m)
    BY FS_Interval
  <2>2. IsFiniteSet(K)
    BY <2>1, FS_Subset, Zenon
  <2>3. U(n) \subseteq K
    BY Zenon
  <2>4. IsFiniteSet(U(n))
    BY <2>2, <2>3, FS_Subset, Zenon
  <2>. QED  BY <2>4, FS_CardinalityType, Zenon
<1>2. Rank(K, 0) = 0
  <2>1. U(0) = {}
    <3>1. \A j \in K : ~(j <= 0)
      BY <1>0
    <3>. QED  BY <3>1, Zenon
  <2>. QED  BY <2>1, FS_EmptySet, Zenon DEF Rank
<1>3. ASSUME NEW n \in 1..m PROVE Rank(K, n) = IF n \in K THEN Rank(K, n - 1) + 1 ELSE Rank(K, n - 1)
  <2>0. n - 1 \in Nat /\ n \in Nat /\ ~(n <= n - 1) /\ \A j \in K : j <= n <=> j <= n - 1 \/ j = n
    BY <1>0
  <2>1. CASE n \in K
    <3>1. U(n) = U(n - 1) \cup {n} /\ n \notin U(n - 1)
      BY <2>0, <2>1, Zenon
    <3>2. IsFiniteSet(U(n - 1))
      BY <1>1, <2>0, Zenon
    <3>. HIDE DEF U
    <3>3. Cardinality(U(n)) = Cardinality(U(n - 1)) + 1
      BY <3>1, <3>2, FS_AddElement, Zenon
    <3>. QED  BY <2>1, <3>3, Zenon DEF U, Rank
  <2>2. CASE n \notin K
    <3>1. U(n) = U(n - 1)
      BY <2>0, <2>2, Zenon
    <3>. QED  BY <2>2, <3>1, Zenon DEF Rank
  <2>. QED  BY <2>1, <2>2, Zenon
<1>4. ASSUME NEW i \in Nat, NEW n \in Nat, i <= n PROVE Rank(K, i) <= Rank(K, n)
  <2>0. \A j \in K : j <= i => j <= n
    BY <1>0, <1>4
  <2>1. U(i) \subseteq U(n)
    BY <2>0, Zenon
  <2>2. IsFiniteSet(U(n))
    BY <1>1, Zenon
  <2>. HIDE DEF U
  <2>3. Cardinality(U(i)) <= Cardinality(U(n))
    BY <2>1, <2>2, FS_Subset, Zenon
  <2>. QED  BY <2>3, Zenon DEF U, Rank
<1>5. \A n \in Nat : Rank(K, n) \in Nat
  BY <1>1, Zenon DEF Rank
<1>6. /\ \A n \in 1..m : n \in K => Rank(K, n) = Rank(K, n - 1) + 1
      /\ \A n \in 1..m : n \notin K => Rank(K, n) = Rank(K, n - 1)
  BY <1>3, Zenon
<1>. QED  BY <1>2, <1>4, <1>5, <1>6, Zenon

(* A line with what all has at the indices K, up to n and in order.         *)
Line(V, all, K, line, n) ==
  /\ line \in Seq(V) /\ Len(line) = Rank(K, n)
  /\ \A i \in K : i <= n => line[Rank(K, i)] = all[i]

(* One more element that is listed goes to the end of the line.             *)
LEMMA LineGrows ==
  ASSUME NEW V, NEW m \in Nat, NEW all \in [1..m -> V], NEW K \in SUBSET (1..m), NEW line,
         NEW n \in Nat, n + 1 \in 1..m, Line(V, all, K, line, n)
  PROVE  /\ n + 1 \in K => Line(V, all, K, Append(line, all[n + 1]), n + 1)
         /\ n + 1 \notin K => Line(V, all, K, line, n + 1)
<1>0. line \in Seq(V) /\ Len(line) = Rank(K, n) /\ \A i \in K : i <= n => line[Rank(K, i)] = all[i]
  BY Zenon DEF Line
<1>a. (n + 1) - 1 = n /\ \A i \in K : i \in 1..m
  OBVIOUS
<1>1. CASE n + 1 \in K
  <2>. DEFINE u == Append(line, all[n + 1])
  <2>1. u \in Seq(V) /\ Len(u) = Len(line) + 1 /\ u[Len(line) + 1] = all[n + 1] /\ \A k \in 1..Len(line) : u[k] = line[k]
    BY <1>0
  <2>. HIDE DEF u
  <2>0. Rank(K, n + 1) = Rank(K, (n + 1) - 1) + 1
    BY <1>1, RankFacts, Zenon
  <2>2. Rank(K, n + 1) = Rank(K, n) + 1
    BY <1>a, <2>0, Zenon
  <2>3. ASSUME NEW i \in K, i <= n + 1 PROVE u[Rank(K, i)] = all[i]
    <3>1. CASE i = n + 1
      BY <1>0, <2>1, <2>2, <3>1, Zenon
    <3>2. CASE i # n + 1
      <4>1. i \in Nat /\ i <= n /\ i - 1 \in Nat /\ i \in 1..m
        BY <1>a, <2>3, <3>2
      <4>2. Rank(K, i) = Rank(K, i - 1) + 1 /\ Rank(K, i - 1) \in Nat /\ Rank(K, i) <= Rank(K, n) /\ Rank(K, n) \in Nat
        BY <4>1, RankFacts, Zenon
      <4>3. Rank(K, i) \in 1..Len(line)
        BY <1>0, <4>2
      <4>. QED  BY <1>0, <2>1, <4>1, <4>3, Zenon
    <3>. QED  BY <3>1, <3>2, Zenon
  <2>4. Line(V, all, K, u, n + 1)
    BY <1>0, <2>1, <2>2, <2>3, Zenon DEF Line
  <2>. QED  BY <1>1, <2>4, Zenon DEF u
<1>2. CASE n + 1 \notin K
  <2>0. Rank(K, n + 1) = Rank(K, (n + 1) - 1)
    <3>1. \A k \in 1..m : k \notin K => Rank(K, k) = Rank(K, k - 1)
      BY RankFacts, Zenon
    <3>. QED  BY <1>2, <3>1, Zenon
  <2>1. Rank(K, n + 1) = Rank(K, n)
    BY <1>a, <2>0, Zenon
  <2>2. \A i \in K : i <= n + 1 => i <= n
    BY <1>2
  <2>. QED  BY <1>0, <1>2, <2>1, <2>2, Zenon DEF Line
<1>. QED  BY <1>1, <1>2, Zenon
=============================================================================
