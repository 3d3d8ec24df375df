------------------------- MODULE MemoryCacheProofs -------------------------
(***************************************************************************)
(* Proofs about MemoryCache that hold for any number of callers, keys and  *)
(* elements, any capacity, and however concurrent Gets race on the ring.   *)
(***************************************************************************)
EXTENDS MemoryCacheLRU, FiniteSetTheorems, TLAPS

(* The i-th node of a ring that visits the elements of p; the sentinel     *)
(* precedes the first and follows the last one.                            *)
At(p, i) == IF i \in 1 .. Len(p) THEN p[i] ELSE Root

(* A sequence of elements, each of them once.                              *)
Simple(p) == p \in Seq(Elements) /\ \A i, j \in 1 .. Len(p) : p[i] = p[j] => i = j

(* The links in each direction follow p.                                   *)
NextRing(nx, p) == \A i \in 0 .. Len(p) : nx[At(p, i)] = At(p, i + 1)
PrevRing(pv, p) == \A i \in 0 .. Len(p) : pv[At(p, i + 1)] = At(p, i)
-----------------------------------------------------------------------------
(* A ring visits each of its nodes once.                                   *)
LEMMA AtFacts ==
  ASSUME NEW p, Simple(p)
  PROVE  /\ Len(p) \in Nat
         /\ At(p, 0) = Root /\ At(p, Len(p) + 1) = Root
         /\ \A i \in 1 .. Len(p) : At(p, i) = p[i] /\ p[i] \in Elements /\ p[i] # Root
         /\ \A i, j \in 0 .. Len(p) : At(p, i) = At(p, j) => i = j
         /\ \A i, j \in 1 .. Len(p) + 1 : At(p, i) = At(p, j) => i = j
         /\ \A i \in 0 .. Len(p) + 1 : At(p, i) \in Node
<1>1. Len(p) \in Nat /\ \A i \in 1 .. Len(p) : p[i] \in Elements /\ p[i] # Root
  BY CacheAssumption DEF Simple
<1>2. \A i, j \in 1 .. Len(p) : p[i] = p[j] => i = j
  BY Zenon DEF Simple
<1>. QED  BY <1>1, <1>2 DEF At, Node

(* Two sequences one after the other.                                      *)
LEMMA ConcatFacts ==
  ASSUME NEW K, NEW u \in Seq(K), NEW v \in Seq(K)
  PROVE  /\ u \o v \in Seq(K) /\ Len(u \o v) = Len(u) + Len(v)
         /\ \A i \in 1 .. Len(u) + Len(v) : (u \o v)[i] = IF i <= Len(u) THEN u[i] ELSE v[i - Len(u)]
OBVIOUS

(* A sequence without its k-th element.                                    *)
LEMMA CutSeq ==
  ASSUME NEW K, NEW p \in Seq(K), NEW k \in 1 .. Len(p)
  PROVE  LET q == RemoveAt(p, k)
         IN  /\ q \in Seq(K) /\ Len(q) = Len(p) - 1
             /\ \A i \in 1 .. Len(p) - 1 : q[i] = IF i < k THEN p[i] ELSE p[i + 1]
<1>. DEFINE q == RemoveAt(p, k)
            n == Len(p)
<1>1. n \in Nat
  OBVIOUS
<1>2. /\ q \in Seq(K) /\ Len(q) = n - 1
      /\ \A i \in 1 .. n - 1 : q[i] = IF i < k THEN p[i] ELSE p[i + 1]
  <2>1. SubSeq(p, 1, k - 1) \in Seq(K) /\ SubSeq(p, k + 1, n) \in Seq(K)
    BY <1>1
  <2>2. Len(SubSeq(p, 1, k - 1)) = k - 1 /\ Len(SubSeq(p, k + 1, n)) = n - k
    BY <1>1
  <2>3. /\ \A i \in 1 .. k - 1 : SubSeq(p, 1, k - 1)[i] = p[i]
        /\ \A i \in 1 .. n - k : SubSeq(p, k + 1, n)[i] = p[i + k]
    BY <1>1
  <2>. DEFINE u == SubSeq(p, 1, k - 1)
              v == SubSeq(p, k + 1, n)
  <2>4. q = u \o v
    BY Zenon DEF RemoveAt
  <2>. HIDE DEF q, u, v, n
  <2>5. Len(u) = k - 1 /\ Len(v) = n - k /\ (\A i \in 1 .. k - 1 : u[i] = p[i]) /\ \A i \in 1 .. n - k : v[i] = p[i + k]
    BY <2>2, <2>3, Zenon DEF u, v
  <2>6. q \in Seq(K) /\ Len(q) = Len(u) + Len(v)
    BY <2>1, <2>4, ConcatFacts, Zenon DEF u, v
  <2>7. \A i \in 1 .. Len(u) + Len(v) : q[i] = IF i <= Len(u) THEN u[i] ELSE v[i - Len(u)]
    <3>1. u \in Seq(K) /\ v \in Seq(K)
      BY <2>1, Zenon DEF u, v
    <3>. QED  BY <2>4, <3>1, ConcatFacts, Zenon
  <2>8. k \in 1 .. n /\ n \in Nat
    BY <1>1, Zenon DEF n
  <2>9. ASSUME NEW i \in 1 .. n - 1 PROVE q[i] = IF i < k THEN p[i] ELSE p[i + 1]
    <3>1. i \in 1 .. Len(u) + Len(v)
      BY <2>5, <2>8
    <3>2. CASE i < k
      BY <2>5, <2>7, <2>8, <3>1, <3>2
    <3>3. CASE ~(i < k)
      <4>1. i - (k - 1) \in 1 .. n - k /\ (i - (k - 1)) + k = i + 1 /\ ~(i <= k - 1)
        BY <2>8, <3>3
      <4>. QED  BY <2>5, <2>7, <3>1, <3>3, <4>1, Zenon
    <3>. QED  BY <3>2, <3>3, Zenon
  <2>. QED  BY <2>5, <2>6, <2>8, <2>9, SMTT(30)
<1>. QED  BY <1>2, Zenon DEF n

(* The ring without its k-th element.                                      *)
LEMMA CutFacts ==
  ASSUME NEW p, Simple(p), NEW k \in 1 .. Len(p)
  PROVE  LET q == RemoveAt(p, k)
         IN  /\ Simple(q) /\ Len(q) = Len(p) - 1
             /\ \A i \in 0 .. Len(p) : At(q, i) = IF i < k THEN At(p, i) ELSE At(p, i + 1)
             /\ Range(q) = Range(p) \ {p[k]}
<1>. DEFINE q == RemoveAt(p, k)
            n == Len(p)
<1>1. p \in Seq(Elements) /\ n \in Nat /\ \A i, j \in 1 .. n : p[i] = p[j] => i = j
  BY DEF Simple
<1>2. /\ q \in Seq(Elements) /\ Len(q) = n - 1
      /\ \A i \in 1 .. n - 1 : q[i] = IF i < k THEN p[i] ELSE p[i + 1]
  BY <1>1, CutSeq, Zenon
<1>. HIDE DEF q
<1>3. \A i, j \in 1 .. n - 1 : q[i] = q[j] => i = j
  BY <1>1, <1>2, SMTT(30)
<1>4. \A i \in 0 .. n : At(q, i) = IF i < k THEN At(p, i) ELSE At(p, i + 1)
  <2>. SUFFICES ASSUME NEW i \in 0 .. n PROVE At(q, i) = IF i < k THEN At(p, i) ELSE At(p, i + 1)
    BY Zenon
  <2>0. k \in 1 .. n /\ n \in Nat /\ Len(q) = n - 1
    BY <1>1, <1>2, Zenon
  <2>. HIDE DEF n
  <2>1. CASE i = 0
    <3>1. i < k /\ i \notin 1 .. n - 1 /\ i \notin 1 .. n
      BY <2>0, <2>1
    <3>. QED  BY <2>0, <3>1, Zenon DEF At, n
  <2>2. CASE i = n
    <3>1. ~(i < k) /\ i \notin 1 .. n - 1 /\ i + 1 \notin 1 .. n
      BY <2>0, <2>2
    <3>. QED  BY <2>0, <3>1, Zenon DEF At, n
  <2>3. CASE i \in 1 .. n - 1
    <3>1. i \in 1 .. n /\ i + 1 \in 1 .. n
      BY <2>0, <2>3
    <3>. QED  BY <1>2, <2>0, <2>3, <3>1, Zenon DEF At, n
  <2>4. i = 0 \/ i = n \/ i \in 1 .. n - 1
    BY <2>0
  <2>. QED  BY <2>1, <2>2, <2>3, <2>4, Zenon
<1>5. Range(q) = Range(p) \ {p[k]}
  <2>1. DOMAIN q = 1 .. n - 1 /\ DOMAIN p = 1 .. n
    BY <1>1, <1>2
  <2>2. ASSUME NEW x \in Range(q) PROVE x \in Range(p) \ {p[k]}
    <3>1. PICK i \in 1 .. n - 1 : x = q[i]
      BY <2>1, Zenon DEF Range
    <3>2. PICK j \in 1 .. n : x = p[j] /\ j # k
      BY <1>2, <3>1
    <3>3. x # p[k]
      BY <1>1, <3>2, Zenon
    <3>. QED  BY <2>1, <3>2, <3>3, Zenon DEF Range
  <2>3. ASSUME NEW x \in Range(p) \ {p[k]} PROVE x \in Range(q)
    <3>1. PICK i \in 1 .. n : x = p[i]
      BY <2>1, Zenon DEF Range
    <3>2. i # k
      BY <3>1, Zenon
    <3>3. \E j \in 1 .. n - 1 : q[j] = x
      <4>1. CASE i < k
        BY <1>2, <3>1, <4>1
      <4>2. CASE i > k
        <5>1. i - 1 \in 1 .. n - 1 /\ ~(i - 1 < k) /\ (i - 1) + 1 = i
          BY <1>1, <4>2
        <5>2. q[i - 1] = x
          BY <1>2, <3>1, <5>1, Zenon
        <5>. QED  BY <5>1, <5>2, Zenon
      <4>. QED  BY <3>2, <4>1, <4>2
    <3>. QED  BY <2>1, <3>3, Zenon DEF Range
  <2>. QED  BY <2>2, <2>3, Zenon
<1>. QED  BY <1>2, <1>3, <1>4, <1>5, Zenon DEF q, Simple

(* The ring with one more element in front.                                *)
LEMMA ConsFacts ==
  ASSUME NEW q, Simple(q), NEW e \in Elements, e \notin Range(q)
  PROVE  LET r == <<e>> \o q
         IN  /\ Simple(r) /\ Len(r) = Len(q) + 1 /\ r[1] = e
             /\ At(r, 0) = Root /\ At(r, 1) = e
             /\ \A i \in 1 .. Len(q) + 1 : At(r, i + 1) = At(q, i)
             /\ Range(r) = Range(q) \cup {e}
<1>. DEFINE r == <<e>> \o q
            n == Len(q)
<1>1. q \in Seq(Elements) /\ n \in Nat /\ \A i, j \in 1 .. n : q[i] = q[j] => i = j
  BY DEF Simple
<1>2. /\ r \in Seq(Elements) /\ Len(r) = n + 1 /\ r[1] = e
      /\ \A i \in 1 .. n : r[i + 1] = q[i]
  BY <1>1
<1>. HIDE DEF r
<1>3. DOMAIN q = 1 .. n /\ DOMAIN r = 1 .. n + 1 /\ \A i \in 1 .. n : q[i] # e
  BY <1>1, <1>2 DEF Range
<1>4. \A i \in 2 .. n + 1 : i - 1 \in 1 .. n /\ r[i] = q[i - 1]
  BY <1>1, <1>2
<1>5. \A i, j \in 1 .. n + 1 : r[i] = r[j] => i = j
  BY <1>1, <1>2, <1>3, <1>4, SMTT(30)
<1>6. At(r, 0) = Root /\ At(r, 1) = e /\ \A i \in 1 .. n + 1 : At(r, i + 1) = At(q, i)
  BY <1>1, <1>2 DEF At
<1>7. Range(r) = Range(q) \cup {e}
  <2>1. ASSUME NEW i \in 1 .. n + 1 PROVE r[i] \in Range(q) \cup {e}
    <3>1. i = 1 \/ i \in 2 .. n + 1
      OBVIOUS
    <3>. QED  BY <1>2, <1>3, <1>4, <3>1, Zenon DEF Range
  <2>2. ASSUME NEW i \in 1 .. n PROVE q[i] \in Range(r)
    <3>1. i + 1 \in DOMAIN r /\ r[i + 1] = q[i]
      BY <1>1, <1>2, <1>3
    <3>. QED  BY <3>1, Zenon DEF Range
  <2>3. 1 \in DOMAIN r
    BY <1>1, <1>3
  <2>4. Range(r) \subseteq Range(q) \cup {e}
    <3>. SUFFICES ASSUME NEW x \in Range(r) PROVE x \in Range(q) \cup {e}
      BY Zenon
    <3>1. PICK i \in 1 .. n + 1 : x = r[i]
      BY <1>3, Zenon DEF Range
    <3>. QED  BY <2>1, <3>1, Zenon
  <2>5. Range(q) \subseteq Range(r)
    <3>. SUFFICES ASSUME NEW x \in Range(q) PROVE x \in Range(r)
      BY Zenon
    <3>1. PICK i \in 1 .. n : x = q[i]
      BY <1>3, Zenon DEF Range
    <3>. QED  BY <2>2, <3>1, Zenon
  <2>6. e \in Range(r)
    BY <1>2, <2>3, Zenon DEF Range
  <2>. QED  BY <2>4, <2>5, <2>6, Zenon
<1>. QED  BY <1>2, <1>5, <1>6, <1>7, Zenon DEF r, Simple

(* The links in one direction, ...                                         *)
Links == [Node -> Node \cup {Nil}]

(* Unlinking the k-th element: its neighbours are linked to one another.   *)
LEMMA DropNext ==
  ASSUME NEW p, Simple(p), NEW k \in 1 .. Len(p), NEW nx \in Links, NextRing(nx, p)
  PROVE  NextRing([nx EXCEPT ![At(p, k - 1)] = At(p, k + 1)], RemoveAt(p, k))
<1>. DEFINE q == RemoveAt(p, k)
            n == Len(p)
            mx == [nx EXCEPT ![At(p, k - 1)] = At(p, k + 1)]
<1>1. Len(q) = n - 1 /\ n \in Nat /\ \A i \in 0 .. n : At(q, i) = IF i < k THEN At(p, i) ELSE At(p, i + 1)
  BY CutFacts, AtFacts, Zenon
<1>2. /\ \A i, j \in 0 .. n : At(p, i) = At(p, j) => i = j
      /\ \A i \in 0 .. n + 1 : At(p, i) \in Node
      /\ \A i \in 0 .. n : nx[At(p, i)] = At(p, i + 1)
  BY AtFacts, Zenon DEF NextRing
<1>. HIDE DEF q, n
<1>. SUFFICES ASSUME NEW i \in 0 .. n - 1 PROVE mx[At(q, i)] = At(q, i + 1)
  BY <1>1, Zenon DEF NextRing, q
<1>0. k \in 1 .. n
  BY Zenon DEF n
<1>3. CASE i < k - 1
  <2>1. At(q, i) = At(p, i) /\ At(q, i + 1) = At(p, i + 1) /\ At(p, i) # At(p, k - 1) /\ At(p, i) \in Node
    <3>1. i \in 0 .. n /\ i + 1 \in 0 .. n /\ k - 1 \in 0 .. n /\ i \in 0 .. n + 1 /\ i < k /\ i + 1 < k /\ i # k - 1
      BY <1>0, <1>1, <1>3
    <3>. QED  BY <1>1, <1>2, <3>1, Zenon
  <2>2. nx[At(p, i)] = At(p, i + 1)
    BY <1>0, <1>1, <1>2, <1>3
  <2>. QED  BY <2>1, <2>2, Zenon DEF Links
<1>4. CASE i = k - 1
  <2>1. At(q, i) = At(p, k - 1) /\ At(q, i + 1) = At(p, k + 1) /\ At(p, k - 1) \in Node
    BY <1>0, <1>1, <1>2, <1>4
  <2>. QED  BY <2>1, Zenon DEF Links
<1>5. CASE i >= k
  <2>1. /\ At(q, i) = At(p, i + 1) /\ At(q, i + 1) = At(p, (i + 1) + 1) /\ At(p, i + 1) # At(p, k - 1)
        /\ At(p, i + 1) \in Node /\ nx[At(p, i + 1)] = At(p, (i + 1) + 1)
    BY <1>0, <1>1, <1>2, <1>5
  <2>. QED  BY <2>1, Zenon DEF Links
<1>. QED  BY <1>0, <1>1, <1>3, <1>4, <1>5

(* The same for the links backwards.                                       *)
LEMMA DropPrev ==
  ASSUME NEW p, Simple(p), NEW k \in 1 .. Len(p), NEW pv \in Links, PrevRing(pv, p)
  PROVE  PrevRing([pv EXCEPT ![At(p, k + 1)] = At(p, k - 1)], RemoveAt(p, k))
<1>. DEFINE q == RemoveAt(p, k)
            n == Len(p)
            mv == [pv EXCEPT ![At(p, k + 1)] = At(p, k - 1)]
<1>1. Len(q) = n - 1 /\ n \in Nat /\ \A i \in 0 .. n : At(q, i) = IF i < k THEN At(p, i) ELSE At(p, i + 1)
  BY CutFacts, AtFacts, Zenon
<1>2. /\ \A i, j \in 1 .. n + 1 : At(p, i) = At(p, j) => i = j
      /\ \A i \in 0 .. n + 1 : At(p, i) \in Node
      /\ \A i \in 0 .. n : pv[At(p, i + 1)] = At(p, i)
  BY AtFacts, Zenon DEF PrevRing
<1>. HIDE DEF q, n
<1>. SUFFICES ASSUME NEW i \in 0 .. n - 1 PROVE mv[At(q, i + 1)] = At(q, i)
  BY <1>1, Zenon DEF PrevRing, q
<1>0. k \in 1 .. n
  BY Zenon DEF n
<1>3. CASE i < k - 1
  <2>1. /\ At(q, i) = At(p, i) /\ At(q, i + 1) = At(p, i + 1) /\ At(p, i + 1) # At(p, k + 1)
        /\ At(p, i + 1) \in Node /\ pv[At(p, i + 1)] = At(p, i)
    <3>1. /\ i \in 0 .. n /\ i + 1 \in 0 .. n /\ i < k /\ i + 1 < k
          /\ i + 1 \in 1 .. n + 1 /\ k + 1 \in 1 .. n + 1 /\ i + 1 # k + 1 /\ i + 1 \in 0 .. n + 1
      BY <1>0, <1>1, <1>3
    <3>. QED  BY <1>1, <1>2, <3>1, Zenon
  <2>. QED  BY <2>1, Zenon DEF Links
<1>4. CASE i = k - 1
  <2>1. At(q, i) = At(p, k - 1) /\ At(q, i + 1) = At(p, k + 1) /\ At(p, k + 1) \in Node
    BY <1>0, <1>1, <1>2, <1>4
  <2>. QED  BY <2>1, Zenon DEF Links
<1>5. CASE i >= k
  <2>1. /\ At(q, i) = At(p, i + 1) /\ At(q, i + 1) = At(p, (i + 1) + 1) /\ At(p, (i + 1) + 1) # At(p, k + 1)
        /\ At(p, (i + 1) + 1) \in Node /\ pv[At(p, (i + 1) + 1)] = At(p, i + 1)
    BY <1>0, <1>1, <1>2, <1>5
  <2>. QED  BY <2>1, Zenon DEF Links
<1>. QED  BY <1>0, <1>1, <1>3, <1>4, <1>5

(* Linking e in behind the sentinel.                                       *)
LEMMA FrontNext ==
  ASSUME NEW q, Simple(q), NEW e \in Elements, e \notin Range(q),
         NEW nx \in Links, NextRing(nx, q), nx[e] = At(q, 1)
  PROVE  NextRing([nx EXCEPT ![Root] = e], <<e>> \o q)
<1>. DEFINE r == <<e>> \o q
            n == Len(q)
            mx == [nx EXCEPT ![Root] = e]
<1>1. /\ Len(r) = n + 1 /\ n \in Nat /\ At(r, 0) = Root /\ At(r, 1) = e
      /\ \A i \in 1 .. n + 1 : At(r, i + 1) = At(q, i)
  BY ConsFacts, AtFacts
<1>2. /\ \A i \in 1 .. n : At(q, i) # Root /\ At(q, i) \in Node
      /\ \A i \in 0 .. n : nx[At(q, i)] = At(q, i + 1)
  BY AtFacts DEF NextRing, Node
<1>3. e # Root /\ e \in Node /\ Root \in Node
  BY CacheAssumption, Zenon DEF Node
<1>. HIDE DEF r, n
<1>. SUFFICES ASSUME NEW i \in 0 .. n + 1 PROVE mx[At(r, i)] = At(r, i + 1)
  BY <1>1, Zenon DEF NextRing, r
<1>4. CASE i = 0
  BY <1>1, <1>3, <1>4 DEF Links
<1>5. CASE i = 1
  <2>1. At(r, i + 1) = At(q, 1)
    BY <1>1, <1>5
  <2>. QED  BY <1>1, <1>3, <1>5, <2>1, Zenon DEF Links
<1>6. CASE i > 1
  <2>1. i - 1 \in 1 .. n /\ i - 1 \in 0 .. n /\ (i - 1) + 1 = i /\ i \in 1 .. n + 1
    BY <1>1, <1>6
  <2>2. At(r, i) = At(q, i - 1) /\ At(r, i + 1) = At(q, i) /\ nx[At(q, i - 1)] = At(q, i)
    BY <1>1, <1>2, <2>1
  <2>3. At(q, i - 1) # Root /\ At(q, i - 1) \in Node
    BY <1>2, <2>1, Zenon
  <2>. QED  BY <1>3, <2>2, <2>3, Zenon DEF Links
<1>. QED  BY <1>1, <1>4, <1>5, <1>6

(* The same for the links backwards.                                       *)
LEMMA FrontPrev ==
  ASSUME NEW q, Simple(q), NEW e \in Elements, e \notin Range(q),
         NEW pv \in Links, PrevRing(pv, q), pv[e] = Root
  PROVE  PrevRing([pv EXCEPT ![At(q, 1)] = e], <<e>> \o q)
<1>. DEFINE r == <<e>> \o q
            n == Len(q)
            mv == [pv EXCEPT ![At(q, 1)] = e]
<1>1. /\ Len(r) = n + 1 /\ n \in Nat /\ At(r, 0) = Root /\ At(r, 1) = e
      /\ \A i \in 1 .. n + 1 : At(r, i + 1) = At(q, i)
  BY ConsFacts, AtFacts
<1>2. /\ \A i, j \in 1 .. n + 1 : At(q, i) = At(q, j) => i = j
      /\ \A i \in 0 .. n + 1 : At(q, i) \in Node
      /\ \A i \in 0 .. n : pv[At(q, i + 1)] = At(q, i)
  BY AtFacts, Zenon DEF PrevRing
<1>3. e # Root /\ e \in Node /\ Root \in Node /\ e # At(q, 1)
  <2>1. \A i \in 1 .. n : q[i] # e
    BY AtFacts DEF Range, Simple
  <2>2. n >= 1 => At(q, 1) = q[1]
    BY <1>1 DEF At
  <2>3. ~(n >= 1) => At(q, 1) = Root
    BY <1>1 DEF At
  <2>. QED  BY <1>1, <2>1, <2>2, <2>3, CacheAssumption DEF Node
<1>. HIDE DEF r, n
<1>. SUFFICES ASSUME NEW i \in 0 .. n + 1 PROVE mv[At(r, i + 1)] = At(r, i)
  BY <1>1, Zenon DEF PrevRing, r
<1>4. CASE i = 0
  BY <1>1, <1>3, <1>4 DEF Links
<1>5. CASE i = 1
  <2>1. At(r, i + 1) = At(q, 1) /\ At(q, 1) \in Node
    BY <1>1, <1>2, <1>5
  <2>. QED  BY <1>1, <1>3, <1>5, <2>1, Zenon DEF Links
<1>6. CASE i > 1
  <2>1. i - 1 \in 1 .. n /\ i - 1 \in 0 .. n /\ (i - 1) + 1 = i /\ i \in 1 .. n + 1 /\ 1 \in 1 .. n + 1 /\ i # 1
    BY <1>1, <1>6
  <2>2. At(r, i) = At(q, i - 1) /\ At(r, i + 1) = At(q, i) /\ pv[At(q, i)] = At(q, i - 1)
    BY <1>1, <1>2, <2>1
  <2>3. At(q, i) # At(q, 1) /\ At(q, i) \in Node
    BY <1>1, <1>2, <2>1, Zenon
  <2>. QED  BY <1>3, <2>2, <2>3, Zenon DEF Links
<1>. QED  BY <1>1, <1>4, <1>5, <1>6

(* The links of an element that is not in the ring do not matter.          *)
LEMMA OffRing ==
  ASSUME NEW q, Simple(q), NEW e \in Elements, e \notin Range(q), NEW f \in Links, NEW x
  PROVE  /\ NextRing(f, q) => NextRing([f EXCEPT ![e] = x], q)
         /\ PrevRing(f, q) => PrevRing([f EXCEPT ![e] = x], q)
<1>1. Len(q) \in Nat /\ e # Root /\ \A i \in 0 .. Len(q) + 1 : At(q, i) \in Node
  BY AtFacts, CacheAssumption, Zenon
<1>2. \A i \in 1 .. Len(q) : q[i] # e
  BY AtFacts DEF Range, Simple
<1>3. \A i \in 0 .. Len(q) + 1 : At(q, i) # e
  BY <1>1, <1>2, Zenon DEF At
<1>. QED  BY <1>1, <1>3 DEF NextRing, PrevRing, Links

(* ... and in both.                                                        *)
LinkPair == [next : Links, prev : Links]

(* list.move of the k-th element of p, before its s-th assignment.         *)
Stage(s, l, p, k) ==
  LET q == RemoveAt(p, k)
      e == p[k]
  IN  /\ s = 1 => NextRing(l.next, p)
      /\ s \in 2 .. 5 => NextRing(l.next, q)
      /\ s \in 6 .. 7 => NextRing(l.next, <<e>> \o q)
      /\ s \in 1 .. 2 => PrevRing(l.prev, p)
      /\ s \in 3 .. 6 => PrevRing(l.prev, q)
      /\ s = 7 => PrevRing(l.prev, <<e>> \o q)
      /\ s \in 1 .. 4 => l.next[e] = At(p, k + 1)
      /\ s \in 5 .. 6 => l.next[e] = At(q, 1)
      /\ s \in 1 .. 3 => l.prev[e] = At(p, k - 1)
      /\ s \in 4 .. 6 => l.prev[e] = Root

(* The six assignments, each with its operands.                            *)
LEMMA Operands ==
  ASSUME NEW e, NEW l
  PROVE  /\ Target(1, e, l) = l.prev[e] /\ Source(1, e, l) = l.next[e]
         /\ Target(2, e, l) = l.next[e] /\ Source(2, e, l) = l.prev[e]
         /\ Target(3, e, l) = e /\ Source(3, e, l) = Root
         /\ Target(4, e, l) = e /\ Source(4, e, l) = l.next[Root]
         /\ Target(5, e, l) = l.prev[e] /\ Source(5, e, l) = e
         /\ Target(6, e, l) = l.next[e] /\ Source(6, e, l) = e
BY DEF Target, Source

(* What an assignment of list.move changes, and what it leaves.            *)
LEMMA Assignments ==
  ASSUME NEW l \in LinkPair, NEW x, NEW y
  PROVE  /\ \A s \in {1, 4, 5} : Assign(s, x, y, l) = [next |-> [l.next EXCEPT ![x] = y], prev |-> l.prev]
         /\ \A s \in {2, 3, 6} : Assign(s, x, y, l) = [next |-> l.next, prev |-> [l.prev EXCEPT ![x] = y]]
<1>1. l = [next |-> l.next, prev |-> l.prev]
  BY Zenon DEF LinkPair
<1>2. /\ [l EXCEPT !.next[x] = y] = [next |-> [l.next EXCEPT ![x] = y], prev |-> l.prev]
      /\ [l EXCEPT !.prev[x] = y] = [next |-> l.next, prev |-> [l.prev EXCEPT ![x] = y]]
  BY <1>1
<1>3. \A s \in {1, 4, 5} : Assign(s, x, y, l) = [l EXCEPT !.next[x] = y]
  BY Zenon DEF Assign
<1>4. \A s \in {2, 3, 6} : Assign(s, x, y, l) = [l EXCEPT !.prev[x] = y]
  BY DEF Assign
<1>. QED  BY <1>2, <1>3, <1>4, Zenon

(* A move starts from the ring.                                            *)
LEMMA StageStart ==
  ASSUME NEW p, Simple(p), NEW k \in 1 .. Len(p), NEW l, NextRing(l.next, p), PrevRing(l.prev, p)
  PROVE  Stage(1, l, p, k)
<1>1. Len(p) \in Nat /\ At(p, k) = p[k]
  BY AtFacts, Zenon
<1>2. l.next[At(p, k)] = At(p, k + 1)
  BY <1>1 DEF NextRing
<1>3. l.prev[At(p, (k - 1) + 1)] = At(p, k - 1) /\ (k - 1) + 1 = k
  BY <1>1 DEF PrevRing
<1>. QED  BY <1>1, <1>2, <1>3 DEF Stage

(* Each assignment leads to the next stage.                                *)
LEMMA StageStep ==
  ASSUME NEW p, Simple(p), NEW k \in 1 .. Len(p), NEW l \in LinkPair, NEW s \in 1 .. 6, Stage(s, l, p, k)
  PROVE  Exec(s, p[k], l) \in LinkPair /\ Stage(s + 1, Exec(s, p[k], l), p, k)
<1>. DEFINE e == p[k]
            q == RemoveAt(p, k)
            a == At(p, k - 1)
            b == At(p, k + 1)
            f == At(q, 1)
            m == Exec(s, e, l)
<1>0. l.next \in Links /\ l.prev \in Links /\ l = [next |-> l.next, prev |-> l.prev]
  BY Zenon DEF LinkPair
<1>1. /\ Len(p) \in Nat /\ e \in Elements /\ e # Root /\ e \in Node /\ Root \in Node
      /\ a \in Node /\ b \in Node
  BY AtFacts DEF Node
<1>2. Simple(q) /\ e \notin Range(q) /\ f \in Node
  <2>1. Simple(q) /\ e \notin Range(q)
    BY CutFacts, Zenon
  <2>2. Len(q) \in Nat /\ \A i \in 0 .. Len(q) + 1 : At(q, i) \in Node
    BY <2>1, AtFacts, Zenon
  <2>. QED  BY <2>1, <2>2
<1>3. a # e /\ b # e /\ f # e
  <2>1. At(p, k) = e /\ \A i, j \in 0 .. Len(p) : At(p, i) = At(p, j) => i = j
    BY AtFacts, Zenon
  <2>2. \A i, j \in 1 .. Len(p) + 1 : At(p, i) = At(p, j) => i = j
    BY AtFacts, Zenon
  <2>3. a # e
    BY <1>1, <2>1
  <2>4. b # e
    BY <1>1, <2>1, <2>2
  <2>5. \A i \in 1 .. Len(q) : q[i] # e
    BY <1>2 DEF Range, Simple
  <2>6. f # e
    BY <1>1, <2>5, Zenon DEF At
  <2>. QED  BY <2>3, <2>4, <2>6, Zenon
<1>. HIDE DEF q, a, b, f, e
<1>4. CASE s = 1
  <2>1. NextRing(l.next, p) /\ PrevRing(l.prev, p) /\ l.next[e] = b /\ l.prev[e] = a
    BY <1>4 DEF Stage, e, a, b
  <2>2. m = [next |-> [l.next EXCEPT ![a] = b], prev |-> l.prev]
    BY <1>0, <1>4, <2>1, Operands, Assignments DEF Exec
  <2>. HIDE DEF m
  <2>3. m \in LinkPair /\ m.prev = l.prev /\ m.next = [l.next EXCEPT ![a] = b] /\ m.next[e] = l.next[e]
    BY <1>0, <1>1, <1>3, <2>2, Zenon DEF LinkPair, Links
  <2>4. NextRing(m.next, q)
    BY <1>0, <2>1, <2>3, DropNext, SMTT(30) DEF q, a, b
  <2>5. Stage(2, m, p, k)
    BY <2>1, <2>3, <2>4, SMTT(30) DEF Stage, q, e, a, b
  <2>. QED  BY <1>4, <2>3, <2>5 DEF m, e
<1>5. CASE s = 2
  <2>1. NextRing(l.next, q) /\ PrevRing(l.prev, p) /\ l.next[e] = b /\ l.prev[e] = a
    BY <1>5 DEF Stage, e, a, b, q
  <2>2. m = [next |-> l.next, prev |-> [l.prev EXCEPT ![b] = a]]
    BY <1>0, <1>5, <2>1, Operands, Assignments DEF Exec
  <2>. HIDE DEF m
  <2>3. m \in LinkPair /\ m.next = l.next /\ m.prev = [l.prev EXCEPT ![b] = a] /\ m.prev[e] = l.prev[e]
    BY <1>0, <1>1, <1>3, <2>2, Zenon DEF LinkPair, Links
  <2>4. PrevRing(m.prev, q)
    BY <1>0, <2>1, <2>3, DropPrev, SMTT(30) DEF q, a, b
  <2>5. Stage(3, m, p, k)
    BY <2>1, <2>3, <2>4, SMTT(30) DEF Stage, q, e, a, b
  <2>. QED  BY <1>5, <2>3, <2>5 DEF m, e
<1>6. CASE s = 3
  <2>1. NextRing(l.next, q) /\ PrevRing(l.prev, q) /\ l.next[e] = b
    BY <1>6 DEF Stage, e, b, q
  <2>2. m = [next |-> l.next, prev |-> [l.prev EXCEPT ![e] = Root]]
    BY <1>0, <1>6, <2>1, Operands, Assignments DEF Exec
  <2>. HIDE DEF m
  <2>3. m \in LinkPair /\ m.next = l.next /\ m.prev = [l.prev EXCEPT ![e] = Root] /\ m.prev[e] = Root
    BY <1>0, <1>1, <2>2, Zenon DEF LinkPair, Links
  <2>4. PrevRing(m.prev, q)
    <3>1. PrevRing([l.prev EXCEPT ![e] = Root], q)
      BY <1>0, <1>1, <1>2, <2>1, OffRing, ZenonT(30)
    <3>. QED  BY <2>3, <3>1, Zenon
  <2>5. Stage(4, m, p, k)
    BY <2>1, <2>3, <2>4, SMTT(30) DEF Stage, q, e, b
  <2>. QED  BY <1>6, <2>3, <2>5, SMTT(30) DEF m, e
<1>7. CASE s = 4
  <2>1. NextRing(l.next, q) /\ PrevRing(l.prev, q) /\ l.prev[e] = Root
    BY <1>7 DEF Stage, e, q
  <2>2. l.next[Root] = f
    <3>1. Len(q) \in Nat /\ At(q, 0) = Root
      BY <1>2, AtFacts, Zenon
    <3>. QED  BY <2>1, <3>1 DEF NextRing, f
  <2>3. m = [next |-> [l.next EXCEPT ![e] = f], prev |-> l.prev]
    BY <1>0, <1>7, <2>2, Operands, Assignments DEF Exec
  <2>. HIDE DEF m
  <2>4. m \in LinkPair /\ m.prev = l.prev /\ m.next = [l.next EXCEPT ![e] = f] /\ m.next[e] = f
    BY <1>0, <1>1, <1>2, <2>3, Zenon DEF LinkPair, Links
  <2>5. NextRing(m.next, q)
    <3>1. NextRing([l.next EXCEPT ![e] = f], q)
      BY <1>0, <1>1, <1>2, <2>1, OffRing, ZenonT(30)
    <3>. QED  BY <2>4, <3>1, Zenon
  <2>6. Stage(5, m, p, k)
    BY <2>1, <2>4, <2>5, SMTT(30) DEF Stage, q, e, f
  <2>. QED  BY <1>7, <2>4, <2>6, SMTT(30) DEF m, e
<1>8. CASE s = 5
  <2>1. NextRing(l.next, q) /\ PrevRing(l.prev, q) /\ l.prev[e] = Root /\ l.next[e] = f
    BY <1>8 DEF Stage, e, q, f
  <2>2. m = [next |-> [l.next EXCEPT ![Root] = e], prev |-> l.prev]
    BY <1>0, <1>8, <2>1, Operands, Assignments DEF Exec
  <2>. HIDE DEF m
  <2>3. m \in LinkPair /\ m.prev = l.prev /\ m.next = [l.next EXCEPT ![Root] = e] /\ m.next[e] = f
    BY <1>0, <1>1, <2>1, <2>2, Zenon DEF LinkPair, Links
  <2>4. NextRing(m.next, <<e>> \o q)
    BY <1>0, <1>1, <1>2, <2>1, <2>3, FrontNext, SMTT(30) DEF f
  <2>5. Stage(6, m, p, k)
    BY <2>1, <2>3, <2>4, SMTT(30) DEF Stage, q, e, f
  <2>. QED  BY <1>8, <2>3, <2>5, SMTT(30) DEF m, e
<1>9. CASE s = 6
  <2>1. NextRing(l.next, <<e>> \o q) /\ PrevRing(l.prev, q) /\ l.prev[e] = Root /\ l.next[e] = f
    BY <1>9 DEF Stage, e, q, f
  <2>2. m = [next |-> l.next, prev |-> [l.prev EXCEPT ![f] = e]]
    BY <1>0, <1>9, <2>1, Operands, Assignments DEF Exec
  <2>. HIDE DEF m
  <2>3. m \in LinkPair /\ m.next = l.next /\ m.prev = [l.prev EXCEPT ![f] = e]
    BY <1>0, <1>1, <2>2, Zenon DEF LinkPair, Links
  <2>4. PrevRing(m.prev, <<e>> \o q)
    BY <1>0, <1>1, <1>2, <2>1, <2>3, FrontPrev, SMTT(30) DEF f
  <2>5. Stage(7, m, p, k)
    BY <2>1, <2>3, <2>4 DEF Stage, q, e
  <2>. QED  BY <1>9, <2>3, <2>5, SMTT(30) DEF m, e
<1>. QED  BY <1>4, <1>5, <1>6, <1>7, <1>8, <1>9

(* The ring that visits the elements of p.                                 *)
Ring(l, p) == Simple(p) /\ NextRing(l.next, p) /\ PrevRing(l.prev, p)

(* p with its k-th element in front.                                       *)
Fronted(p, k) == <<p[k]>> \o RemoveAt(p, k)

(* It has the same elements.                                               *)
LEMMA FrontedFacts ==
  ASSUME NEW p, Simple(p), NEW k \in 1 .. Len(p)
  PROVE  Simple(Fronted(p, k)) /\ Range(Fronted(p, k)) = Range(p)
<1>1. Len(p) \in Nat /\ p[k] \in Elements /\ DOMAIN p = 1 .. Len(p)
  BY AtFacts DEF Simple
<1>2. Simple(RemoveAt(p, k)) /\ Range(RemoveAt(p, k)) = Range(p) \ {p[k]}
  BY CutFacts, Zenon
<1>3. p[k] \in Range(p)
  BY <1>1, Zenon DEF Range
<1>. DEFINE e == p[k]
            q == RemoveAt(p, k)
<1>4. e \in Elements /\ Simple(q) /\ Range(q) = Range(p) \ {e} /\ e \in Range(p) /\ Fronted(p, k) = <<e>> \o q
  BY <1>1, <1>2, <1>3, Zenon DEF Fronted
<1>. HIDE DEF e, q
<1>5. Simple(<<e>> \o q) /\ Range(<<e>> \o q) = Range(q) \cup {e}
  BY <1>4, ConsFacts, Zenon
<1>. QED  BY <1>4, <1>5, Zenon

(* Moving the first element to the front changes nothing.                  *)
LEMMA FrontedFirst ==
  ASSUME NEW p, Simple(p), Len(p) > 0
  PROVE  Fronted(p, 1) = p
<1>. DEFINE q == RemoveAt(p, 1)
            r == Fronted(p, 1)
            n == Len(p)
<1>1. p \in Seq(Elements) /\ n \in Nat /\ 1 \in 1 .. n /\ p[1] \in Elements
  BY DEF Simple
<1>2. Simple(q) /\ Len(q) = n - 1 /\ p[1] \notin Range(q)
  BY <1>1, CutFacts
<1>3. \A i \in 0 .. n : At(q, i) = IF i < 1 THEN At(p, i) ELSE At(p, i + 1)
  BY <1>1, CutFacts, Zenon
<1>4. Simple(r) /\ Len(r) = n /\ At(r, 1) = p[1] /\ \A i \in 1 .. n : At(r, i + 1) = At(q, i)
  <2>1. Simple(r) /\ Len(r) = Len(q) + 1 /\ At(r, 1) = p[1] /\ \A i \in 1 .. Len(q) + 1 : At(r, i + 1) = At(q, i)
    BY <1>1, <1>2, ConsFacts, Zenon DEF Fronted
  <2>. HIDE DEF q, r
  <2>. QED  BY <1>1, <1>2, <2>1
<1>. HIDE DEF q, r, n
<1>5. \A i \in 1 .. n : At(r, i) = At(p, i)
  <2>1. At(p, 1) = p[1]
    BY <1>1, Zenon DEF At, n
  <2>2. ASSUME NEW i \in 2 .. n PROVE At(r, i) = At(p, i)
    <3>1. i - 1 \in 1 .. n /\ (i - 1) + 1 = i /\ i - 1 \in 0 .. n /\ ~(i - 1 < 1)
      BY <1>1
    <3>. QED  BY <1>3, <1>4, <3>1, Zenon
  <2>3. \A i \in 1 .. n : i = 1 \/ i \in 2 .. n
    BY <1>1
  <2>. QED  BY <1>4, <2>1, <2>2, <2>3, Zenon
<1>6. \A i \in 1 .. n : At(r, i) = r[i] /\ At(p, i) = p[i]
  BY <1>4, Zenon DEF At, n
<1>7. r \in Seq(Elements) /\ p \in Seq(Elements) /\ Len(p) = n
  BY <1>1, <1>4, Zenon DEF Simple, n
<1>8. \A i \in 1 .. n : r[i] = p[i]
  BY <1>5, <1>6, Zenon
<1>9. r = p
  BY <1>4, <1>7, <1>8
<1>. QED  BY <1>9, Zenon DEF r

(* MoveToFront.                                                            *)
LEMMA MoveRing ==
  ASSUME NEW p, NEW l \in LinkPair, Ring(l, p), NEW k \in 1 .. Len(p), p[k] \in inList
  PROVE  Ring(MoveToFront(p[k], l), Fronted(p, k))
<1>. DEFINE e == p[k]
            x1 == Exec(1, e, l)
            x2 == Exec(2, e, x1)
            x3 == Exec(3, e, x2)
            x4 == Exec(4, e, x3)
            x5 == Exec(5, e, x4)
            x6 == Exec(6, e, x5)
<1>0. Simple(p) /\ Len(p) \in Nat /\ NextRing(l.next, p)
  BY AtFacts, Zenon DEF Ring
<1>1. CASE l.next[Root] = e
  <2>1. l.next[Root] = At(p, 1) /\ At(p, 1) = p[1] /\ 1 \in 1 .. Len(p)
    <3>1. At(p, 0) = Root /\ 0 \in 0 .. Len(p) /\ 0 + 1 = 1 /\ 1 \in 1 .. Len(p)
      BY <1>0, AtFacts
    <3>. QED  BY <1>0, <3>1, Zenon DEF NextRing, At
  <2>2. k = 1
    BY <1>0, <1>1, <2>1, Zenon DEF Simple
  <2>3. Fronted(p, k) = p
    BY <1>0, <2>2, FrontedFirst
  <2>4. MoveToFront(e, l) = l
    BY <1>1, Zenon DEF MoveToFront
  <2>. QED  BY <2>3, <2>4, Zenon
<1>2. CASE l.next[Root] # e
  <2>1. MoveToFront(e, l) = x6
    BY <1>2, Zenon DEF MoveToFront
  <2>2. Stage(1, l, p, k)
    BY StageStart, Zenon DEF Ring
  <2>. HIDE DEF x1, x2, x3, x4, x5, x6
  <2>3. x1 \in LinkPair /\ Stage(2, x1, p, k)
    BY <1>0, <2>2, StageStep DEF x1
  <2>4. x2 \in LinkPair /\ Stage(3, x2, p, k)
    BY <1>0, <2>3, StageStep DEF x2
  <2>5. x3 \in LinkPair /\ Stage(4, x3, p, k)
    BY <1>0, <2>4, StageStep DEF x3
  <2>6. x4 \in LinkPair /\ Stage(5, x4, p, k)
    BY <1>0, <2>5, StageStep DEF x4
  <2>7. x5 \in LinkPair /\ Stage(6, x5, p, k)
    BY <1>0, <2>6, StageStep DEF x5
  <2>8. x6 \in LinkPair /\ Stage(7, x6, p, k)
    BY <1>0, <2>7, StageStep, SMTT(30) DEF x6
  <2>9. NextRing(x6.next, Fronted(p, k)) /\ PrevRing(x6.prev, Fronted(p, k))
    BY <2>8, SMTT(30) DEF Stage, Fronted
  <2>. QED  BY <1>0, <2>1, <2>9, FrontedFacts, Zenon DEF Ring
<1>. QED  BY <1>1, <1>2, Zenon

(* PushFront of a new element.                                             *)
LEMMA PushRing ==
  ASSUME NEW p, NEW l \in LinkPair, Ring(l, p), NEW e \in Elements, e \notin Range(p)
  PROVE  Ring(PushFront(e, l), <<e>> \o p)
<1>. DEFINE f == At(p, 1)
            nx == [l.next EXCEPT ![e] = f]
            pv == [l.prev EXCEPT ![e] = Root]
<1>1. /\ Simple(p) /\ Len(p) \in Nat /\ l.next \in Links /\ l.prev \in Links
      /\ NextRing(l.next, p) /\ PrevRing(l.prev, p) /\ At(p, 0) = Root
  BY AtFacts, Zenon DEF Ring, LinkPair
<1>2. l.next[Root] = f
  BY <1>1, SMTT(30) DEF NextRing
<1>3. f \in Node /\ e \in Node /\ Root \in Node
  BY <1>1, AtFacts DEF Node
<1>. HIDE DEF f
<1>4. nx \in Links /\ pv \in Links /\ nx[e] = f /\ pv[e] = Root
  BY <1>1, <1>3, Zenon DEF Links
<1>5. NextRing(nx, p) /\ PrevRing(pv, p)
  BY <1>1, OffRing, Zenon
<1>6. PushFront(e, l) = [next |-> [nx EXCEPT ![Root] = e], prev |-> [pv EXCEPT ![f] = e]]
  BY <1>2, Zenon DEF PushFront
<1>. HIDE DEF nx, pv
<1>7. NextRing([nx EXCEPT ![Root] = e], <<e>> \o p)
  BY <1>1, <1>4, <1>5, FrontNext, Zenon DEF f
<1>8. PrevRing([pv EXCEPT ![f] = e], <<e>> \o p)
  BY <1>1, <1>4, <1>5, FrontPrev, Zenon DEF f
<1>9. Simple(<<e>> \o p)
  BY <1>1, ConsFacts, Zenon
<1>. QED  BY <1>6, <1>7, <1>8, <1>9 DEF Ring

(* remove of an element.                                                   *)
LEMMA UnlinkRing ==
  ASSUME NEW p, NEW l \in LinkPair, Ring(l, p), NEW k \in 1 .. Len(p)
  PROVE  Ring(Unlink(p[k], l), RemoveAt(p, k))
<1>. DEFINE e == p[k]
            q == RemoveAt(p, k)
            a == At(p, k - 1)
            b == At(p, k + 1)
            nx == [l.next EXCEPT ![a] = b]
            pv == [l.prev EXCEPT ![b] = a]
<1>1. /\ Simple(p) /\ Len(p) \in Nat /\ l.next \in Links /\ l.prev \in Links
      /\ NextRing(l.next, p) /\ PrevRing(l.prev, p) /\ e \in Elements
  BY AtFacts, Zenon DEF Ring, LinkPair
<1>2. l.next[e] = b /\ l.prev[e] = a
  <2>1. Stage(1, l, p, k)
    BY <1>1, StageStart, Zenon
  <2>. QED  BY <2>1 DEF Stage
<1>3. a # e /\ a \in Node /\ b \in Node
  <2>1. At(p, k) = e /\ \A i, j \in 0 .. Len(p) : At(p, i) = At(p, j) => i = j
    BY <1>1, AtFacts, Zenon
  <2>2. \A i \in 0 .. Len(p) + 1 : At(p, i) \in Node
    BY <1>1, AtFacts, Zenon
  <2>3. k - 1 \in 0 .. Len(p) /\ k - 1 # k /\ k \in 0 .. Len(p) /\ k + 1 \in 0 .. Len(p) + 1 /\ k - 1 \in 0 .. Len(p) + 1
    BY <1>1
  <2>. QED  BY <2>1, <2>2, <2>3, Zenon
<1>4. Simple(q) /\ e \notin Range(q)
  BY <1>1, CutFacts, Zenon
<1>5. NextRing(nx, q) /\ PrevRing(pv, q)
  BY <1>1, DropNext, DropPrev, Zenon
<1>. HIDE DEF a, b, q, e
<1>6. nx \in Links /\ pv \in Links /\ nx[e] = b
  BY <1>1, <1>2, <1>3 DEF Links
<1>7. Unlink(e, l) = [next |-> [nx EXCEPT ![e] = Nil], prev |-> [pv EXCEPT ![e] = Nil]]
  BY <1>2, <1>6, Zenon DEF Unlink
<1>. HIDE DEF nx, pv
<1>8. NextRing([nx EXCEPT ![e] = Nil], q) /\ PrevRing([pv EXCEPT ![e] = Nil], q)
  BY <1>1, <1>4, <1>5, <1>6, OffRing, Zenon
<1>9. Ring(Unlink(e, l), q)
  BY <1>4, <1>7, <1>8 DEF Ring
<1>. QED  BY <1>9, Zenon DEF e, q

(* As many elements as the ring has nodes.                                 *)
LEMMA SimpleCard ==
  ASSUME NEW p, Simple(p)
  PROVE  /\ IsFiniteSet(Range(p)) /\ Cardinality(Range(p)) = Len(p)
         /\ Cardinality(Elements) \in Nat /\ Len(p) <= Cardinality(Elements)
<1>. DEFINE S == Range(p)
            n == Len(p)
<1>1. p \in Seq(Elements) /\ n \in Nat /\ DOMAIN p = 1 .. n /\ \A i, j \in 1 .. n : p[i] = p[j] => i = j
  BY DEF Simple
<1>2. S \subseteq Elements /\ IsFiniteSet(Elements)
  BY <1>1, CacheAssumption DEF Range
<1>3. p \in [1 .. n -> S] /\ \A x \in S : \E i \in 1 .. n : p[i] = x
  BY <1>1 DEF Range
<1>. HIDE DEF S
<1>4. p \in Bijection(1 .. n, S)
  BY <1>1, <1>3, Zenon DEF Bijection, Injection, Surjection, IsInjective
<1>5. IsFiniteSet(1 .. n) /\ Cardinality(1 .. n) = n
  BY <1>1, FS_Interval, SMTT(30)
<1>6. IsFiniteSet(S) /\ Cardinality(S) = n
  <2>1. ExistsBijection(1 .. n, S)
    BY <1>4, Zenon DEF ExistsBijection
  <2>. QED  BY <1>5, <2>1, FS_Bijection, Zenon
<1>7. Cardinality(S) <= Cardinality(Elements) /\ Cardinality(Elements) \in Nat
  BY <1>2, FS_Subset, FS_CardinalityType, Zenon
<1>. QED  BY <1>6, <1>7, Zenon DEF S
-----------------------------------------------------------------------------
(* The nodes a link may point to: the sentinel and the cells with an entry. *)
Alive == {Root} \cup {e \in Elements : entry[e] # Nil}

(* Links of a ring whose members are M and that only leads to nodes of A.  *)
Good(l, M, A) ==
  /\ l \in [next : [Node -> A \cup {Nil}], prev : [Node -> A \cup {Nil}]]
  /\ \A n \in M \cup {Root} : l.next[n] \in A /\ l.prev[n] \in A

(* The read lock and the write lock exclude one another, and a caller is   *)
(* inside an operation only with the lock that operation takes.            *)
LockInv ==
  /\ writer # Nil => readers = {}
  /\ janitor.at = "scan" => writer = Janitor
  /\ \A t \in Threads :
       /\ pc[t] = "evict" => writer = t /\ arg[t] \in Call
       /\ pc[t] \in {"load", "store"} => t \in readers /\ elem[t] \in inList
       /\ pc[t] = "store" => reg[t] \in Alive \X Alive

(* What is in the list has an entry, and the links of the list lead only to *)
(* elements with an entry and to the root.                                  *)
RingInv ==
  /\ inList \subseteq Alive
  /\ Good(links, inList, Alive)

LenInv == len = Cardinality(inList) /\ len <= MaxEntries

MapInv == \A k \in Keys : Present(k) => items[k] \in inList

(* The inductive invariant. *)
IndInv == TypeOK /\ LockInv /\ RingInv /\ LenInv /\ MapInv /\ StoreIntegrity
-----------------------------------------------------------------------------
(* One assignment of list.move keeps the links good. *)
LEMMA AssignGood ==
  ASSUME NEW M, NEW A, NEW l, NEW s \in 1 .. 6, A \subseteq Node, M \subseteq A,
         Good(l, M, A), NEW target \in A, NEW source \in A
  PROVE  Good(Assign(s, target, source, l), M, A)
BY CacheAssumption, Zenon DEF Good, Assign, Node

(* The operands list.move reads through a member are nodes of the ring. *)
LEMMA OperandsGood ==
  ASSUME NEW M, NEW A, NEW l, NEW s \in 1 .. 6, Root \in A, A \subseteq Node,
         M \subseteq A, Good(l, M, A), NEW e \in M
  PROVE  Target(s, e, l) \in A /\ Source(s, e, l) \in A
<1>1. l.next[e] \in A /\ l.prev[e] \in A /\ l.next[Root] \in A /\ e \in A
  BY Zenon DEF Good
<1>2. s = 1 \/ s = 2 \/ s = 3 \/ s = 4 \/ s = 5 \/ s = 6
  OBVIOUS
<1>. QED
  BY <1>1, <1>2, Zenon DEF Target, Source

(* One load and store of list.move, on a member, keeps the links good. *)
LEMMA ExecGood ==
  ASSUME NEW M, NEW A, NEW l, NEW s \in 1 .. 6, Root \in A, A \subseteq Node,
         M \subseteq A, Good(l, M, A), NEW e \in M
  PROVE  Good(Exec(s, e, l), M, A)
BY OperandsGood, AssignGood, Zenon DEF Exec

(* MoveToFront of a member, run without interruption, keeps the links good. *)
LEMMA MoveGood ==
  ASSUME NEW A, NEW l, Root \in A, A \subseteq Node, inList \subseteq A,
         Good(l, inList, A), NEW e \in inList
  PROVE  Good(MoveToFront(e, l), inList, A)
<1>. DEFINE x1 == Exec(1, e, l)
            x2 == Exec(2, e, x1)
            x3 == Exec(3, e, x2)
            x4 == Exec(4, e, x3)
            x5 == Exec(5, e, x4)
            x6 == Exec(6, e, x5)
<1>1. Good(x1, inList, A)
  BY ExecGood
<1>. HIDE DEF x1
<1>2. Good(x2, inList, A)
  BY <1>1, ExecGood, SMTT(30)
<1>. HIDE DEF x2
<1>3. Good(x3, inList, A)
  BY <1>2, ExecGood
<1>. HIDE DEF x3
<1>4. Good(x4, inList, A)
  BY <1>3, ExecGood
<1>. HIDE DEF x4
<1>5. Good(x5, inList, A)
  BY <1>4, ExecGood
<1>. HIDE DEF x5
<1>6. Good(x6, inList, A)
  BY <1>5, ExecGood
<1>7. MoveToFront(e, l) = l \/ MoveToFront(e, l) = x6
  BY Zenon DEF MoveToFront, x1, x2, x3, x4, x5, x6
<1>. QED
  BY <1>6, <1>7, Zenon

(* PushFront of a cell makes it a member. *)
LEMMA PushGood ==
  ASSUME NEW M, NEW A, NEW l, Root \in A, A \subseteq Node, M \subseteq A,
         Good(l, M, A), NEW e \in Elements
  PROVE  Good(PushFront(e, l), M \cup {e}, A \cup {e})
BY CacheAssumption, Zenon DEF Good, PushFront, Node

(* remove of a member leaves the other members linked to ring nodes. *)
LEMMA UnlinkGood ==
  ASSUME NEW M, NEW A, NEW l, Root \in A, A \subseteq Node, M \subseteq A,
         Root \notin M, Good(l, M, A), NEW e \in M
  PROVE  Good(Unlink(e, l), M \ {e}, A)
BY CacheAssumption, Zenon DEF Good, Unlink, Node

(* A cell nothing links to can leave the set of live nodes. *)
LEMMA DropGood ==
  ASSUME NEW M, NEW A, NEW l, Root \in A, A \subseteq Node, M \subseteq A,
         Good(l, M, A), NEW e \in Elements, e \notin M,
         ~Linked(e, l.next, l.prev)
  PROVE  Good(l, M, A \ {e})
BY CacheAssumption, Zenon DEF Good, Linked, Node

(* The live nodes are ring nodes: the members and the sentinel are live. *)
LEMMA AliveFacts ==
  ASSUME IndInv
  PROVE  Root \in Alive /\ Alive \subseteq Node /\ inList \subseteq Alive
         /\ Root \notin inList /\ Good(links, inList, Alive)
BY CacheAssumption, Zenon DEF IndInv, RingInv, TypeOK, Alive, Node

(* With the lock held exclusively no Get is inside list.move. *)
LEMMA NoReader ==
  ASSUME IndInv, readers = {}
  PROVE  \A t \in Threads : pc[t] \notin {"load", "store"}
BY Zenon DEF IndInv, LockInv

(* Counting the members of the list after one is added or removed. *)
LEMMA CardLemma ==
  ASSUME IndInv
  PROVE  /\ IsFiniteSet(inList)
         /\ \A e : /\ Cardinality(inList \cup {e}) =
                       IF e \in inList THEN len ELSE len + 1
                   /\ Cardinality(inList \ {e}) =
                       IF e \in inList THEN len - 1 ELSE len
<1>1. IsFiniteSet(inList)
  BY CacheAssumption, FS_Subset, Zenon DEF IndInv, TypeOK
<1>. QED
  BY <1>1, FS_AddElement, FS_RemoveElement, Zenon DEF IndInv, LenInv

(* The entry an item leads to carries that item's key. *)
LEMMA EntryKey ==
  ASSUME IndInv, NEW k \in Keys, Present(k)
  PROVE  entry[items[k]].key = k
<1>. DEFINE r == [key |-> k, value |-> latest[k].value,
                  expiresAt |-> latest[k].expiresAt]
<1>1. entry[items[k]] = r
  BY Zenon DEF IndInv, StoreIntegrity
<1>2. r.key = k
  BY Zenon
<1>. QED
  BY <1>1, <1>2, Zenon

(* removeElement under the exclusive lock: whichever cell it is given, the *)
(* parts of the invariant about the map and the ring survive.              *)
LEMMA RemoveStep ==
  ASSUME IndInv, readers = {}, NEW e \in Alive, e # Root, RemoveElement(e),
         UNCHANGED <<now, readers, writer, threadVars, janitor, stopped>>,
         latest' \in {latest, [latest EXCEPT ![entry[e].key] = Nil]}
  PROVE  IndInv'
<1>. DEFINE k == entry[e].key
<1>1. e \in Elements /\ entry[e] \in Entry /\ k \in Keys
  BY CacheAssumption, Zenon DEF Alive, IndInv, TypeOK, Entry
<1>2. items' = [items EXCEPT ![k] = Nil]
  BY Zenon DEF RemoveElement
<1>3. entry' = [entry EXCEPT ![e] = IF Linked(e, next', prev') THEN @ ELSE Nil]
  BY Zenon DEF RemoveElement
<1>4. /\ inList' = inList \ {e}
      /\ len' = IF e \in inList THEN len - 1 ELSE len
      /\ Good(links', inList', Alive)
  <2>1. CASE e \in inList
    <3>1. links' = Unlink(e, links)
      BY <2>1, Zenon DEF RemoveElement, SetLinks, links, Unlink
    <3>. QED
      BY <2>1, <3>1, UnlinkGood, AliveFacts, SMTT(30) DEF RemoveElement
  <2>2. CASE e \notin inList
    BY <2>2, AliveFacts, Zenon DEF RemoveElement, listVars, links
  <2>. QED
    BY <2>1, <2>2, Zenon
<1>5. RingInv'
  <2>1. CASE Linked(e, next', prev')
    <3>1. entry' = entry
      BY <2>1, <1>3, <1>1, Zenon DEF IndInv, TypeOK
    <3>2. Alive' = Alive
      BY <3>1, Zenon DEF Alive
    <3>. QED
      BY <3>2, <1>4, AliveFacts, Zenon DEF RingInv
  <2>2. CASE ~Linked(e, next', prev')
    <3>1. Alive' = Alive \ {e}
      BY <2>2, <1>1, <1>3, CacheAssumption, Zenon DEF Alive, IndInv, TypeOK
    <3>2. ~Linked(e, links'.next, links'.prev)
      BY <2>2, Zenon DEF links
    <3>3. inList' \subseteq Alive /\ e \notin inList'
      BY <1>4, AliveFacts, Zenon
    <3>4. Good(links', inList', Alive \ {e})
      BY <1>1, <1>4, <3>2, <3>3, AliveFacts, DropGood, ZenonT(30)
    <3>. QED
      BY <3>1, <3>3, <3>4, Zenon DEF RingInv
  <2>. QED
    BY <2>1, <2>2, Zenon
<1>6. LenInv' /\ len' \in Nat
  <2>1. len' = Cardinality(inList')
    BY <1>4, CardLemma, Zenon DEF IndInv, LenInv
  <2>2. IsFiniteSet(inList')
    BY <1>4, CardLemma, FS_RemoveElement, Zenon
  <2>. QED
    BY <2>1, <2>2, <1>4, FS_CardinalityType, CacheAssumption, SMTT(30)
       DEF IndInv, LenInv, TypeOK
<1>7. TypeOK'
  <2>1. next' \in [Node -> Node \cup {Nil}] /\ prev' \in [Node -> Node \cup {Nil}]
    BY <1>4, AliveFacts, ZenonT(30) DEF Good, links
  <2>. QED
    BY <1>1, <1>2, <1>3, <1>4, <1>6, <2>1, Zenon DEF IndInv, TypeOK, threadVars
<1>8. MapInv' /\ StoreIntegrity'
  <2>0. \A j \in Keys : Present(j)' => /\ j # k /\ Present(j)
                                      /\ items'[j] = items[j]
                                      /\ latest'[j] = latest[j]
    BY <1>1, <1>2, Zenon DEF Present, IndInv, TypeOK
  <2>9. \A j \in Keys : Present(j) => items[j] \in inList /\ entry[items[j]].key = j
    BY EntryKey, ZenonT(30) DEF IndInv, MapInv
  <2>1. \A j \in Keys : Present(j)' => /\ items'[j] = items[j]
                                      /\ items[j] \in inList /\ items[j] # e
                                      /\ latest'[j] = latest[j]
    BY <2>0, <2>9
  <2>2. \A j \in Keys : Present(j)' => entry'[items[j]] = entry[items[j]]
    BY <2>1, <1>3, Zenon DEF IndInv, TypeOK
  <2>3. MapInv'
    BY <2>1, <1>4, Zenon DEF MapInv
  <2>. QED
    BY <2>0, <2>1, <2>2, <2>3, SMTT(30) DEF IndInv, StoreIntegrity
<1>9. LockInv'
  BY NoReader, Zenon DEF IndInv, LockInv, threadVars
<1>. QED
  BY <1>5, <1>6, <1>7, <1>8, <1>9, Zenon DEF IndInv
-----------------------------------------------------------------------------
(* NewMemory establishes the invariant. *)
LEMMA InitInd == Init => IndInv
<1>. SUFFICES ASSUME Init PROVE IndInv
  BY Zenon
<1>1. TypeOK
  <2>1. /\ next \in [Node -> Node \cup {Nil}] /\ prev \in [Node -> Node \cup {Nil}]
        /\ reg \in [Threads -> (Node \cup {Nil}) \X (Node \cup {Nil})]
    BY Zenon DEF Init, Node
  <2>2. janitor \in [at : {"select", "scan", "returned"}, now : Nat]
    BY Zenon DEF Init
  <2>3. /\ pc \in [Threads -> {"idle", "load", "store", "evict"}]
        /\ stmt \in [Threads -> 1 .. 6]
        /\ now \in Nat /\ len \in Nat
    BY DEF Init
  <2>. QED
    BY <2>1, <2>2, <2>3, Zenon DEF Init, TypeOK
<1>2. RingInv
  BY CacheAssumption, ZenonT(30) DEF Init, RingInv, Good, links, Alive, Node
<1>3. LenInv
  BY CacheAssumption, FS_EmptySet DEF Init, LenInv
<1>4. LockInv /\ MapInv /\ StoreIntegrity
  BY Zenon DEF Init, LockInv, MapInv, StoreIntegrity, Present
<1>. QED
  BY <1>1, <1>2, <1>3, <1>4, Zenon DEF IndInv

(* Stuttering keeps the invariant. *)
LEMMA Unchanged ==
  ASSUME IndInv, UNCHANGED vars
  PROVE  IndInv'
<1>. USE DEF vars
<1>1. TypeOK' /\ LockInv'
  BY Zenon DEF IndInv, TypeOK, LockInv, Alive
<1>2. RingInv' /\ LenInv' /\ MapInv' /\ StoreIntegrity'
  BY ZenonT(30) DEF IndInv, RingInv, LenInv, MapInv, StoreIntegrity, Present, links, Alive, Good
<1>. QED
  BY <1>1, <1>2, Zenon DEF IndInv

(* A Get that takes the read lock and enters list.move. *)
LEMMA GetHitInd ==
  ASSUME IndInv, NEW t \in Threads, NEW k \in Keys, GetHit(t, k)
  PROVE  IndInv'
<1>. USE DEF GetHit, listVars
<1>1. TypeOK'
  <2>1. /\ pc' \in [Threads -> {"idle", "load", "store", "evict"}]
        /\ elem' \in [Threads -> Elements \cup {Nil}] /\ readers' \subseteq Threads
    BY Zenon DEF IndInv, TypeOK, Present
  <2>. QED  BY <2>1 DEF IndInv, TypeOK
<1>2. LockInv'
  BY Zenon DEF IndInv, LockInv, TypeOK, Alive
<1>3. RingInv' /\ LenInv' /\ MapInv' /\ StoreIntegrity'
  BY Zenon DEF IndInv, RingInv, LenInv, MapInv, StoreIntegrity, Present, links, Alive, Good
<1>. QED
  BY <1>1, <1>2, <1>3, Zenon DEF IndInv

(* A Get that loads the operands of an assignment of list.move. *)
LEMMA MoveLoadInd ==
  ASSUME IndInv, NEW t \in Threads, MoveLoad(t)
  PROVE  IndInv'
<1>. USE DEF MoveLoad, listVars
<1>1. reg'[t] \in Alive \X Alive
  <2>1. elem[t] \in inList /\ stmt[t] \in 1 .. 6
    BY Zenon DEF IndInv, LockInv, TypeOK
  <2>2. /\ Target(stmt[t], elem[t], links) \in Alive
        /\ Source(stmt[t], elem[t], links) \in Alive
    BY <2>1, AliveFacts, OperandsGood, Zenon
  <2>. QED
    BY <2>2, Zenon DEF IndInv, TypeOK
<1>2. TypeOK'
  BY <1>1, AliveFacts, Zenon DEF IndInv, TypeOK
<1>3. LockInv'
  BY <1>1, ZenonT(30) DEF IndInv, LockInv, TypeOK, Alive
<1>4. RingInv' /\ LenInv' /\ MapInv' /\ StoreIntegrity'
  BY ZenonT(30) DEF IndInv, RingInv, LenInv, MapInv, StoreIntegrity, Present, links, Alive, Good
<1>. QED
  BY <1>2, <1>3, <1>4, Zenon DEF IndInv

(* A Get that stores through the pointer it loaded before. *)
LEMMA MoveStoreInd ==
  ASSUME IndInv, NEW t \in Threads, MoveStore(t)
  PROVE  IndInv'
<1>1. Good(links', inList, Alive)
  <2>1. reg[t][1] \in Alive /\ reg[t][2] \in Alive /\ stmt[t] \in 1 .. 6
    BY Zenon DEF MoveStore, IndInv, LockInv, TypeOK
  <2>2. Good(Assign(stmt[t], reg[t][1], reg[t][2], links), inList, Alive)
    BY <2>1, AliveFacts, AssignGood, Zenon
  <2>3. links' = Assign(stmt[t], reg[t][1], reg[t][2], links)
    BY Zenon DEF MoveStore, SetLinks, links, Assign
  <2>. QED
    BY <2>2, <2>3, Zenon
<1>2. UNCHANGED <<inList, entry, Alive>>
  BY Zenon DEF MoveStore, Alive
<1>3. RingInv' /\ LenInv' /\ MapInv' /\ StoreIntegrity'
  BY <1>1, <1>2, AliveFacts, Zenon
     DEF MoveStore, IndInv, RingInv, LenInv, MapInv, StoreIntegrity, Present
<1>4. TypeOK'
  <2>1. next' \in [Node -> Node \cup {Nil}] /\ prev' \in [Node -> Node \cup {Nil}]
    BY <1>1, AliveFacts, Zenon DEF Good, links
  <2>2. stmt' \in [Threads -> 1 .. 6]
    <3>1. stmt \in [Threads -> 1 .. 6] /\ stmt[t] \in 1 .. 6
      BY Zenon DEF IndInv, TypeOK
    <3>2. \/ stmt[t] < 6 /\ stmt' = [stmt EXCEPT ![t] = stmt[t] + 1]
          \/ stmt' = [stmt EXCEPT ![t] = 1]
      BY Zenon DEF MoveStore
    <3>3. stmt[t] < 6 => stmt[t] + 1 \in 1 .. 6
      BY <3>1
    <3>. QED  BY <3>1, <3>2, <3>3
  <2>. QED
    BY <2>1, <2>2, Zenon DEF MoveStore, IndInv, TypeOK
<1>5. LockInv'
  <2>1. /\ readers' \subseteq readers /\ \A u \in readers : u # t => u \in readers'
        /\ pc[t] = "store" /\ pc'[t] \in {"idle", "load"}
        /\ pc'[t] = "load" => t \in readers' /\ elem'[t] = elem[t]
        /\ \A u \in Threads : u # t =>
             pc'[u] = pc[u] /\ elem'[u] = elem[u] /\ reg'[u] = reg[u]
        /\ UNCHANGED <<writer, janitor, arg>>
    BY ZenonT(30) DEF MoveStore, IndInv, LockInv, TypeOK
  <2>. QED
    BY <1>2, <2>1, ZenonT(30) DEF IndInv, LockInv
<1>. QED
  BY <1>3, <1>4, <1>5, Zenon DEF IndInv

(* What Set stores under k, in the map's entry and in the history. *)
LEMMA NewEntry ==
  ASSUME IndInv, NEW v \in Values, NEW ttl \in TTLs, NEW k \in Keys
  PROVE  LET r == [key |-> k, value |-> v, expiresAt |-> now + ttl]
             h == [value |-> v, expiresAt |-> now + ttl]
         IN  /\ r \in Entry /\ r # Nil
             /\ h \in [value : Values, expiresAt : Int] /\ h # Nil
             /\ r = [key |-> k, value |-> h.value, expiresAt |-> h.expiresAt]
<1>1. now + ttl \in Int
  BY CacheAssumption DEF IndInv, TypeOK
<1>2. [key |-> k, value |-> v, expiresAt |-> now + ttl] \in Entry
  BY <1>1, Zenon DEF Entry
<1>3. [value |-> v, expiresAt |-> now + ttl] \in [value : Values, expiresAt : Int]
  BY <1>1, Zenon
<1>4. Nil \notin Entry /\ Nil \notin [value : Values, expiresAt : Int]
  BY CacheAssumption, Zenon DEF Entry
<1>. QED
  BY <1>2, <1>3, <1>4, Zenon

(* A Set that overwrites a present key. *)
LEMMA SetUpdateInd ==
  ASSUME IndInv, NEW t \in Threads, NEW k \in Keys, NEW v \in Values,
         NEW ttl \in TTLs, SetUpdate(t, k, v, ttl)
  PROVE  IndInv'
<1>. DEFINE e == items[k]
            r == [key |-> k, value |-> v, expiresAt |-> now + ttl]
            h == [value |-> v, expiresAt |-> now + ttl]
<1>1. e \in inList /\ e \in Elements /\ readers = {}
  BY Zenon DEF SetUpdate, Unlocked, IndInv, MapInv, TypeOK
<1>2. /\ r \in Entry /\ r # Nil
      /\ h \in [value : Values, expiresAt : Int] /\ h # Nil
      /\ r = [key |-> k, value |-> h.value, expiresAt |-> h.expiresAt]
  BY NewEntry, Zenon
<1>3. entry' = [entry EXCEPT ![e] = r] /\ latest' = [latest EXCEPT ![k] = h]
  BY Zenon DEF SetUpdate
<1>. HIDE DEF r, h
<1>4. Alive' = Alive
  <2>1. e \in Alive
    BY <1>1, AliveFacts, Zenon
  <2>. QED
    BY <2>1, <1>1, <1>2, <1>3, CacheAssumption, ZenonT(30) DEF Alive, IndInv, TypeOK
<1>5. Good(links', inList, Alive)
  <2>1. links' = MoveToFront(e, links)
    <3>1. Good(MoveToFront(e, links), inList, Alive)
      BY <1>1, AliveFacts, MoveGood, Zenon
    <3>2. next' = MoveToFront(e, links).next /\ prev' = MoveToFront(e, links).prev
      BY Zenon DEF SetUpdate, SetLinks
    <3>. QED
      BY <3>1, <3>2, Zenon DEF Good, links
  <2>. QED
    BY <2>1, <1>1, AliveFacts, MoveGood, Zenon
<1>6. RingInv' /\ LenInv' /\ MapInv'
  BY <1>4, <1>5, AliveFacts, Zenon DEF SetUpdate, IndInv, RingInv, LenInv, MapInv, Present
<1>7. StoreIntegrity'
  <2>. SUFFICES ASSUME NEW j \in Keys, Present(j)'
                PROVE  /\ latest'[j] # Nil
                       /\ entry'[items'[j]] = [key |-> j, value |-> latest'[j].value,
                                               expiresAt |-> latest'[j].expiresAt]
    BY Zenon DEF StoreIntegrity
  <2>1. items' = items /\ Present(j) /\ items[j] \in Elements
    BY Zenon DEF SetUpdate, Present, IndInv, TypeOK
  <2>2. CASE j = k
    BY <2>1, <2>2, <1>1, <1>2, <1>3, Zenon DEF IndInv, TypeOK
  <2>3. CASE j # k
    <3>1. items[j] # e
      BY <2>1, <2>3, EntryKey, Zenon DEF SetUpdate
    <3>2. entry'[items[j]] = entry[items[j]] /\ latest'[j] = latest[j]
      BY <3>1, <2>1, <2>3, <1>3, Zenon DEF IndInv, TypeOK
    <3>. QED
      BY <3>2, <2>1, Zenon DEF IndInv, StoreIntegrity
  <2>. QED
    BY <2>2, <2>3, Zenon
<1>8. TypeOK'
  <2>1. next' \in [Node -> Node \cup {Nil}] /\ prev' \in [Node -> Node \cup {Nil}]
    BY <1>5, AliveFacts, Zenon DEF Good, links
  <2>2. /\ entry' \in [Elements -> Entry \cup {Nil}]
        /\ latest' \in [Keys -> [value : Values, expiresAt : Int] \cup {Nil}]
    BY <1>2, <1>3, Zenon DEF IndInv, TypeOK
  <2>. QED
    BY <2>1, <2>2, Zenon DEF SetUpdate, IndInv, TypeOK, threadVars
<1>9. LockInv'
  BY <1>4, NoReader, <1>1, Zenon DEF SetUpdate, IndInv, LockInv, threadVars
<1>. QED
  BY <1>6, <1>7, <1>8, <1>9, Zenon DEF IndInv

(* A Set that takes the lock and enters its eviction loop. *)
LEMMA SetBeginInd ==
  ASSUME IndInv, NEW t \in Threads, NEW k \in Keys, NEW v \in Values,
         NEW ttl \in TTLs, SetBegin(t, k, v, ttl)
  PROVE  IndInv'
<1>. USE DEF SetBegin, listVars
<1>1. [key |-> k, value |-> v, ttl |-> ttl] \in Call
  BY Zenon DEF Call
<1>2. TypeOK'
  BY <1>1, Zenon DEF IndInv, TypeOK
<1>3. \A u \in Threads : pc[u] # "evict" /\ pc[u] \notin {"load", "store"}
  BY CacheAssumption, NoReader, Zenon DEF Unlocked, IndInv, LockInv
<1>4. LockInv'
  <2>1. /\ readers' = {} /\ writer = Nil /\ writer' = t /\ janitor' = janitor
        /\ pc'[t] = "evict" /\ arg'[t] \in Call
        /\ \A u \in Threads : u # t => pc'[u] = pc[u]
    BY <1>1, Zenon DEF Unlocked, IndInv, TypeOK
  <2>2. janitor.at # "scan"
    BY <2>1, CacheAssumption, Zenon DEF IndInv, LockInv
  <2>. QED
    BY <1>3, <2>1, <2>2, ZenonT(30) DEF LockInv
<1>5. RingInv' /\ LenInv' /\ MapInv' /\ StoreIntegrity'
  BY Zenon DEF IndInv, RingInv, LenInv, MapInv, StoreIntegrity, Present, links, Alive, Good
<1>. QED
  BY <1>2, <1>4, <1>5, Zenon DEF IndInv

(* One iteration of the eviction loop. *)
LEMMA SetEvictInd ==
  ASSUME IndInv, NEW t \in Threads, SetEvict(t)
  PROVE  IndInv'
<1>1. readers = {}
  BY CacheAssumption, Zenon DEF SetEvict, IndInv, LockInv
<1>2. CASE Back = Nil
  <2>1. UNCHANGED vars
    BY <1>2, Zenon DEF SetEvict, vars, listVars, threadVars
  <2>. QED
    BY <2>1, Unchanged, Zenon
<1>3. CASE Back # Nil
  <2>1. Back \in Alive /\ Back # Root
    BY <1>3, AliveFacts, Zenon DEF Back, Good, links, SetEvict
  <2>. QED
    BY <1>1, <1>3, <2>1, RemoveStep, Zenon DEF SetEvict
<1>. QED
  BY <1>2, <1>3, Zenon

(* A Set that gives up because Back() is the sentinel. *)
LEMMA SetFailInd ==
  ASSUME IndInv, NEW t \in Threads, SetFail(t)
  PROVE  IndInv'
<1>. USE DEF SetFail, Return, listVars
<1>1. TypeOK'
  BY Zenon DEF IndInv, TypeOK
<1>2. readers = {} /\ janitor.at # "scan"
  BY CacheAssumption, Zenon DEF IndInv, LockInv
<1>3. LockInv'
  BY <1>2, NoReader, Zenon DEF IndInv, LockInv, TypeOK
<1>4. RingInv' /\ LenInv' /\ MapInv' /\ StoreIntegrity'
  BY ZenonT(30) DEF IndInv, RingInv, LenInv, MapInv, StoreIntegrity, Present, links, Alive, Good
<1>. QED
  BY <1>1, <1>3, <1>4, Zenon DEF IndInv

(* A Set that pushes its entry in a fresh cell. *)
LEMMA SetInsertInd ==
  ASSUME IndInv, NEW t \in Threads, SetInsert(t)
  PROVE  IndInv'
<1>. DEFINE k == arg[t].key
            r == [key |-> k, value |-> arg[t].value, expiresAt |-> now + arg[t].ttl]
            h == [value |-> arg[t].value, expiresAt |-> now + arg[t].ttl]
<1>0. PICK e \in Fresh :
             /\ SetLinks(PushFront(e, links))
             /\ inList' = inList \cup {e}
             /\ items' = [items EXCEPT ![k] = e]
             /\ entry' = [entry EXCEPT ![e] = r]
  BY Zenon DEF SetInsert
<1>1. /\ e \in Elements /\ e \notin inList
      /\ \A j \in Keys : items[j] # e
  BY Zenon DEF Fresh
<1>2. arg[t] \in Call
  BY Zenon DEF SetInsert, IndInv, LockInv
<1>3. readers = {} /\ janitor.at # "scan" /\ writer = t
  BY CacheAssumption, Zenon DEF SetInsert, IndInv, LockInv
<1>4. /\ r \in Entry /\ r # Nil
      /\ h \in [value : Values, expiresAt : Int] /\ h # Nil
      /\ r = [key |-> k, value |-> h.value, expiresAt |-> h.expiresAt]
      /\ k \in Keys
  <2>1. k \in Keys /\ arg[t].value \in Values /\ arg[t].ttl \in TTLs
    BY <1>2, Zenon DEF Call
  <2>. QED
    BY <2>1, NewEntry, Zenon
<1>5. /\ entry' = [entry EXCEPT ![e] = r] /\ latest' = [latest EXCEPT ![k] = h]
      /\ items' = [items EXCEPT ![k] = e] /\ inList' = inList \cup {e}
      /\ len' = len + 1 /\ len < MaxEntries
      /\ next' = PushFront(e, links).next /\ prev' = PushFront(e, links).prev
  BY <1>0, Zenon DEF SetInsert, SetLinks
<1>6. /\ writer' = Nil /\ pc' = [pc EXCEPT ![t] = "idle"]
      /\ arg' = [arg EXCEPT ![t] = Nil]
      /\ UNCHANGED <<now, readers, janitor, stopped, stmt, elem, reg>>
  BY Zenon DEF SetInsert, Return
<1>. HIDE DEF k, r, h
<1>7. Alive' = Alive \cup {e}
  <2>1. entry'[e] # Nil /\ \A d \in Elements : d # e => entry'[d] = entry[d]
    <3>1. entry \in [Elements -> Entry \cup {Nil}]
      BY Zenon DEF IndInv, TypeOK
    <3>. QED
      BY <3>1, <1>1, <1>4, <1>5, Zenon
  <2>. QED
    BY <2>1, <1>1, Zenon DEF Alive
<1>8. Good(links', inList', Alive')
  <2>1. Good(PushFront(e, links), inList \cup {e}, Alive \cup {e})
    BY <1>1, AliveFacts, PushGood, Zenon
  <2>2. links' = PushFront(e, links)
    BY <1>5, <2>1, Zenon DEF Good, links
  <2>. QED
    BY <1>5, <1>7, <2>1, <2>2, Zenon
<1>9. RingInv' /\ LenInv'
  <2>1. Cardinality(inList') = len + 1
    BY <1>1, <1>5, CardLemma, Zenon
  <2>2. len \in Nat /\ MaxEntries \in Nat
    BY CacheAssumption, Zenon DEF IndInv, TypeOK
  <2>3. LenInv'
    BY <2>1, <2>2, <1>5, SMTT(30) DEF LenInv
  <2>4. RingInv'
    BY <1>5, <1>7, <1>8, AliveFacts, Zenon DEF RingInv
  <2>. QED
    BY <2>3, <2>4, Zenon
<1>10. MapInv'
  BY <1>5, <1>4, Zenon DEF MapInv, Present, IndInv, TypeOK
<1>11. StoreIntegrity'
  <2>. SUFFICES ASSUME NEW j \in Keys, Present(j)'
                PROVE  /\ latest'[j] # Nil
                       /\ entry'[items'[j]] = [key |-> j, value |-> latest'[j].value,
                                               expiresAt |-> latest'[j].expiresAt]
    BY Zenon DEF StoreIntegrity
  <2>1. CASE j = k
    BY <2>1, <1>1, <1>4, <1>5, Zenon DEF IndInv, TypeOK
  <2>2. CASE j # k
    <3>1. items'[j] = items[j] /\ latest'[j] = latest[j] /\ items[j] # e
      BY <2>2, <1>1, <1>5, Zenon DEF IndInv, TypeOK
    <3>2. Present(j) /\ items[j] \in Elements
      BY <3>1, Zenon DEF Present, IndInv, TypeOK
    <3>3. entry'[items[j]] = entry[items[j]]
      BY <3>1, <3>2, <1>5, Zenon DEF IndInv, TypeOK
    <3>. QED
      BY <3>1, <3>2, <3>3, Zenon DEF IndInv, StoreIntegrity
  <2>. QED
    BY <2>1, <2>2, Zenon
<1>12. TypeOK'
  <2>1. next' \in [Node -> Node \cup {Nil}] /\ prev' \in [Node -> Node \cup {Nil}]
    <3>1. Alive' \subseteq Node
      BY <1>1, <1>7, AliveFacts, Zenon DEF Node
    <3>2. next' \in [Node -> Alive' \cup {Nil}] /\ prev' \in [Node -> Alive' \cup {Nil}]
      BY <1>8, Zenon DEF Good, links
    <3>. QED
      BY <3>1, <3>2, Zenon
  <2>2. /\ entry' \in [Elements -> Entry \cup {Nil}]
        /\ latest' \in [Keys -> [value : Values, expiresAt : Int] \cup {Nil}]
        /\ items' \in [Keys -> Elements \cup {Nil}]
        /\ inList' \subseteq Elements /\ len' \in Nat
    <3>1. /\ entry \in [Elements -> Entry \cup {Nil}]
          /\ latest \in [Keys -> [value : Values, expiresAt : Int] \cup {Nil}]
          /\ items \in [Keys -> Elements \cup {Nil}]
          /\ inList \subseteq Elements /\ len \in Nat
      BY Zenon DEF IndInv, TypeOK
    <3>2. entry' \in [Elements -> Entry \cup {Nil}]
      BY <3>1, <1>4, <1>5, Zenon
    <3>3. latest' \in [Keys -> [value : Values, expiresAt : Int] \cup {Nil}]
      BY <3>1, <1>4, <1>5, Zenon
    <3>4. items' \in [Keys -> Elements \cup {Nil}] /\ inList' \subseteq Elements
      BY <3>1, <1>1, <1>5, ZenonT(30)
    <3>. QED
      BY <3>1, <3>2, <3>3, <3>4, <1>5, SMTT(30)
  <2>. QED
    BY <2>1, <2>2, <1>6, Zenon DEF IndInv, TypeOK
<1>13. LockInv'
  BY <1>3, <1>6, NoReader, SMTT(30) DEF IndInv, LockInv, TypeOK
<1>. QED
  BY <1>9, <1>10, <1>11, <1>12, <1>13, Zenon DEF IndInv

(* Delete, of a present or an absent key. *)
LEMMA DeleteInd ==
  ASSUME IndInv, NEW t \in Threads, NEW k \in Keys, Delete(t, k)
  PROVE  IndInv'
<1>1. CASE Present(k)
  <2>1. items[k] \in Alive /\ items[k] # Root
    BY <1>1, AliveFacts, Zenon DEF IndInv, MapInv
  <2>2. entry[items[k]].key = k
    BY <1>1, EntryKey, Zenon
  <2>. QED
    BY <1>1, <2>1, <2>2, RemoveStep, Zenon DEF Delete, Unlocked
<1>2. CASE ~Present(k)
  <2>. USE <1>2 DEF Delete, listVars, threadVars
  <2>1. TypeOK'
    BY Zenon DEF IndInv, TypeOK
  <2>2. StoreIntegrity'
    BY Zenon DEF IndInv, StoreIntegrity, Present, TypeOK
  <2>3. RingInv' /\ LenInv' /\ MapInv' /\ LockInv'
    <3>1. Alive' = Alive /\ links' = links
      BY Zenon DEF Alive, links
    <3>. QED
      BY <3>1, Zenon DEF IndInv, RingInv, LenInv, MapInv, LockInv, Present
  <2>. QED
    BY <2>1, <2>2, <2>3, Zenon DEF IndInv
<1>. QED
  BY <1>1, <1>2, Zenon

(* removeExpired removing one expired entry. *)
LEMMA JanitorRemoveInd ==
  ASSUME IndInv, NEW k \in Keys, JanitorRemove(k)
  PROVE  IndInv'
<1>1. readers = {}
  BY CacheAssumption, Zenon DEF JanitorRemove, IndInv, LockInv
<1>2. items[k] \in Alive /\ items[k] # Root
  BY AliveFacts, Zenon DEF JanitorRemove, IndInv, MapInv
<1>. QED
  BY <1>1, <1>2, RemoveStep, Zenon DEF JanitorRemove

(* The steps that only take or release the lock, close stopCh, end the     *)
(* cleanup goroutine or advance the clock.                                 *)
LEMMA OtherInd ==
  ASSUME IndInv,
         \/ JanitorTick \/ JanitorDone \/ JanitorStop \/ Tick
         \/ \E t \in Closers : Close(t)
  PROVE  IndInv'
<1>1. UNCHANGED <<readers, items, next, prev, inList, len, entry, latest, pc,
                  stmt, elem, reg, arg>>
  BY Zenon DEF JanitorTick, JanitorDone, JanitorStop, Tick, Close, listVars, threadVars
<1>2. /\ now \in Nat /\ writer \in Threads \cup {Janitor, Nil} /\ stopped \in BOOLEAN
      /\ janitor \in [at : {"select", "scan", "returned"}, now : Nat]
  BY Zenon DEF IndInv, TypeOK
<1>3. /\ now' \in Nat /\ writer' \in Threads \cup {Janitor, Nil} /\ stopped' \in BOOLEAN
      /\ janitor' \in [at : {"select", "scan", "returned"}, now : Nat]
  <2>1. CASE JanitorTick
    BY <1>2, <2>1, Zenon DEF JanitorTick
  <2>2. CASE JanitorDone
    BY <1>2, <2>2, Zenon DEF JanitorDone
  <2>3. CASE JanitorStop
    BY <1>2, <2>3, Zenon DEF JanitorStop
  <2>4. CASE Tick
    BY <1>2, <2>4 DEF Tick
  <2>5. CASE \E t \in Closers : Close(t)
    BY <1>2, <2>5, Zenon DEF Close
  <2>. QED
    BY <2>1, <2>2, <2>3, <2>4, <2>5, ZenonT(30)
<1>4. TypeOK'
  BY <1>1, <1>3, Zenon DEF IndInv, TypeOK
<1>5. /\ writer # Nil => readers = {}
      /\ janitor.at = "scan" => writer = Janitor
      /\ \A t \in Threads : pc[t] = "evict" => writer = t
  BY Zenon DEF IndInv, LockInv
<1>6. /\ writer' # Nil => readers = {}
      /\ janitor'.at = "scan" => writer' = Janitor
      /\ \A t \in Threads : pc[t] = "evict" => writer' = t
  <2>1. CASE JanitorTick
    BY <2>1, <1>5, CacheAssumption, Zenon DEF JanitorTick, Unlocked
  <2>2. CASE JanitorDone
    BY <2>2, <1>5, CacheAssumption, Zenon DEF JanitorDone
  <2>3. CASE JanitorStop
    BY <2>3, <1>5, Zenon DEF JanitorStop
  <2>4. CASE Tick \/ \E t \in Closers : Close(t)
    <3>1. writer' = writer /\ janitor' = janitor
      BY <2>4, Zenon DEF Tick, Close
    <3>. QED
      BY <3>1, <1>5, Zenon
  <2>. QED
    BY <2>1, <2>2, <2>3, <2>4, Zenon
<1>7. Alive' = Alive /\ links' = links
  BY <1>1, Zenon DEF Alive, links
<1>8. LockInv'
  BY <1>1, <1>6, <1>7, Zenon DEF IndInv, LockInv
<1>9. RingInv' /\ LenInv' /\ MapInv' /\ StoreIntegrity'
  BY <1>1, <1>7, Zenon DEF IndInv, RingInv, LenInv, MapInv, StoreIntegrity, Present
<1>. QED
  BY <1>4, <1>8, <1>9, Zenon DEF IndInv

(* Every step keeps the invariant. *)
LEMMA NextInd == IndInv /\ [Next]_vars => IndInv'
<1>. SUFFICES ASSUME IndInv, [Next]_vars PROVE IndInv'
  BY Zenon
<1>. USE CacheAssumption
<1>1. ASSUME NEW t \in Getters, NEW k \in Keys,
             GetMiss(t, k) \/ GetFront(t, k) \/ GetHit(t, k)
      PROVE  IndInv'
  BY <1>1, Unchanged, GetHitInd, ZenonT(30) DEF GetMiss, GetFront
<1>2. ASSUME NEW t \in Threads, GetStep(t) \/ SetStep(t)
      PROVE  IndInv'
  BY <1>2, MoveLoadInd, MoveStoreInd, SetEvictInd, SetFailInd, SetInsertInd, ZenonT(30)
     DEF GetStep, SetStep
<1>3. ASSUME NEW t \in Threads, NEW k \in Keys, NEW v \in Values, NEW ttl \in TTLs,
             SetUpdate(t, k, v, ttl) \/ SetBegin(t, k, v, ttl)
      PROVE  IndInv'
  BY <1>3, SetUpdateInd, SetBeginInd, Zenon
<1>4. ASSUME NEW t \in Threads, NEW k \in Keys, Delete(t, k)
      PROVE  IndInv'
  BY <1>4, DeleteInd, Zenon
<1>5. CASE JanitorScan
  BY <1>5, JanitorRemoveInd, OtherInd, Zenon DEF JanitorScan
<1>6. CASE JanitorTick \/ JanitorStop \/ Tick \/ \E t \in Closers : Close(t)
  BY <1>6, OtherInd, Zenon
<1>7. CASE UNCHANGED vars
  BY <1>7, Unchanged, Zenon
<1>. QED
  BY <1>1, <1>2, <1>3, <1>4, <1>5, <1>6, <1>7, Zenon DEF Next

(* The inductive invariant holds in every reachable state of the cache. *)
THEOREM Invariance == Spec => []IndInv
BY InitInd, NextInd, PTL DEF Spec

(* Types are kept by every operation of memory.go. *)
THEOREM TypeCorrect == Spec => []TypeOK
<1>1. IndInv => TypeOK
  BY Zenon DEF IndInv
<1>. QED
  BY <1>1, Invariance, PTL

(* For any number of racing callers, what Get can find under a key is the  *)
(* value and expiry of the latest Set of that key, never a deleted one.    *)
THEOREM StoreIntegrityHolds == Spec => []StoreIntegrity
<1>1. IndInv => StoreIntegrity
  BY Zenon DEF IndInv
<1>. QED
  BY <1>1, Invariance, PTL

(* For any number of racing callers, the map never outgrows maxSize. *)
THEOREM BoundedHolds == Spec => []Bounded
<1>1. IndInv => Bounded
  <2>. SUFFICES ASSUME IndInv PROVE Bounded
    BY Zenon
  <2>. DEFINE S == {k \in Keys : Present(k)}
              f == [k \in S |-> items[k]]
  <2>1. \A k \in S : items[k] \in inList
    BY Zenon DEF IndInv, MapInv
  <2>2. \A j, k \in S : items[j] = items[k] => j = k
    BY EntryKey, Zenon
  <2>3. f \in Injection(S, inList)
    BY <2>1, <2>2, Zenon DEF Injection, IsInjective
  <2>4. IsFiniteSet(inList)
    BY CardLemma, Zenon
  <2>5. IsFiniteSet(S) /\ Cardinality(S) <= Cardinality(inList)
    BY <2>3, <2>4, FS_Injection, Zenon
  <2>6. Cardinality(S) \in Nat
    BY <2>5, FS_CardinalityType, Zenon
  <2>. QED
    <3>1. Cardinality(inList) \in Nat /\ Cardinality(inList) <= MaxEntries
      BY <2>4, FS_CardinalityType, Zenon DEF IndInv, LenInv
    <3>2. MaxEntries \in Nat
      BY CacheAssumption, Zenon
    <3>. QED
      BY <2>5, <2>6, <3>1, <3>2, SMTT(30) DEF Bounded
<1>. QED
  BY <1>1, Invariance, PTL

(* For any number of racing callers, no list operation follows a nil link. *)
THEOREM NoNilDereferenceHolds == Spec => []NoNilDereference
<1>1. IndInv => NoNilDereference
  <2>. SUFFICES ASSUME IndInv PROVE NoNilDereference
    BY Zenon
  <2>1. Nil \notin Alive
    BY CacheAssumption, AliveFacts, Zenon DEF Node
  <2>2. \A n \in inList \cup {Root} : next[n] # Nil /\ prev[n] # Nil
    BY <2>1, AliveFacts, Zenon DEF Good, links
  <2>3. \A t \in Threads : pc[t] = "store" => reg[t][1] # Nil
    BY <2>1, Zenon DEF IndInv, LockInv
  <2>. QED
    BY <2>2, <2>3, Zenon DEF NoNilDereference
<1>. QED
  BY <1>1, Invariance, PTL
=============================================================================
