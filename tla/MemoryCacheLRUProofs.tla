------------------------ MODULE MemoryCacheLRUProofs ------------------------
(***************************************************************************)
(* With one Get at a time the ring is a doubly linked list of the cached   *)
(* entries, in the order of their use, and so the cache implements         *)
(* LRUCache, for any number of keys, callers and elements and any          *)
(* capacity.                                                               *)
(***************************************************************************)
EXTENDS MemoryCacheProofs

(* A set with 0, and with n + 1 for each of its elements n < m, has all the *)
(* numbers up to m.                                                         *)
LEMMA InductionUpTo ==
  ASSUME NEW m \in Nat, NEW T, 0 \in T, \A n \in 0 .. m - 1 : n \in T => n + 1 \in T
  PROVE  0 .. m \subseteq T
<1>. DEFINE U == {n \in 0 .. m : n \notin T}
<1>. SUFFICES ASSUME U # {} PROVE FALSE
  BY Zenon
<1>1. U \in SUBSET Nat
  OBVIOUS
<1>2. PICK x \in U : \A y \in U : ~ (<<y, x>> \in OpToRel(<, Nat))
  BY <1>1, WFMin, NatLessThanWellFounded, Zenon
<1>3. x \in 0 .. m /\ x # 0
  BY Zenon
<1>4. x - 1 \in 0 .. m - 1 /\ x - 1 \in Nat /\ x \in Nat /\ x - 1 < x /\ (x - 1) + 1 = x /\ x - 1 \in 0 .. m
  BY <1>3
<1>5. x - 1 \notin U
  BY <1>1, <1>2, <1>4, Zenon DEF OpToRel
<1>. QED  BY <1>3, <1>4, <1>5, Zenon

(* The equation that defines Visit.                                        *)
VisitTable(f) ==
  f = [i \in 0 .. Cardinality(Elements) |->
         IF i = 0 THEN next[Root] ELSE IF f[i - 1] \in Elements THEN next[f[i - 1]] ELSE Nil]

(* Following the ring from the sentinel gives its elements in order, in    *)
(* every state in which the next links form a ring.                        *)
LEMMA WalkIs ==
  ASSUME NEW p, Simple(p), NextRing(next, p)
  PROVE  Walk = p
<1>. DEFINE N == Cardinality(Elements)
            n == Len(p)
            w == [i \in 0 .. N |-> IF i <= n THEN At(p, i + 1) ELSE Nil]
<1>1. N \in Nat /\ n \in Nat /\ n <= N
  BY SimpleCard, AtFacts, Zenon
<1>2. Nil \notin Elements /\ Root \notin Elements
  BY CacheAssumption, Zenon
<1>3. /\ At(p, 0) = Root /\ At(p, n + 1) = Root
      /\ \A i \in 1 .. n : At(p, i) = p[i] /\ At(p, i) \in Elements
      /\ \A i \in 0 .. n : next[At(p, i)] = At(p, i + 1)
  BY AtFacts, Zenon DEF NextRing
<1>. HIDE DEF N, n
<1>4. ASSUME NEW i \in 0 .. N, i # 0
      PROVE  w[i] = IF w[i - 1] \in Elements THEN next[w[i - 1]] ELSE Nil
  <2>1. i - 1 \in 0 .. N /\ (i - 1) + 1 = i
    BY <1>1, <1>4
  <2>2. CASE i <= n
    <3>1. w[i - 1] = At(p, i) /\ w[i] = At(p, i + 1) /\ i \in 1 .. n /\ i \in 0 .. n
      BY <1>1, <1>4, <2>1, <2>2
    <3>. QED  BY <1>3, <3>1, Zenon
  <2>3. CASE i = n + 1
    <3>1. w[i - 1] = Root /\ w[i] = Nil
      BY <1>1, <1>3, <2>1, <2>3
    <3>. QED  BY <1>2, <3>1, Zenon
  <2>4. CASE i > n + 1
    <3>1. w[i - 1] = Nil /\ w[i] = Nil
      BY <1>1, <2>1, <2>4, SMTT(30)
    <3>. QED  BY <1>2, <3>1, Zenon
  <2>. QED  BY <1>1, <2>2, <2>3, <2>4
<1>5. 0 \in 0 .. N /\ w[0] = next[Root]
  BY <1>1, <1>3
<1>6. w \in [0 .. N -> {w[i] : i \in 0 .. N}]
  BY Zenon
<1>. HIDE DEF w
<1>7. VisitTable(w)
  <2>1. \A i \in 0 .. N : w[i] = IF i = 0 THEN next[Root] ELSE IF w[i - 1] \in Elements THEN next[w[i - 1]] ELSE Nil
    BY <1>4, <1>5, Zenon
  <2>2. w = [i \in 0 .. N |-> IF i = 0 THEN next[Root] ELSE IF w[i - 1] \in Elements THEN next[w[i - 1]] ELSE Nil]
    BY <1>6, <2>1, Zenon
  <2>. QED  BY <2>2, Zenon DEF VisitTable, N
<1>8. VisitTable(Visit)
  <2>1. Visit = CHOOSE f : VisitTable(f)
    BY Zenon DEF Visit, VisitTable
  <2>. QED  BY <1>7, <2>1, Zenon
<1>9. /\ DOMAIN Visit = 0 .. N
      /\ \A i \in 0 .. N : Visit[i] = IF i = 0 THEN next[Root]
                                      ELSE IF Visit[i - 1] \in Elements THEN next[Visit[i - 1]] ELSE Nil
  <2>1. Visit = [i \in 0 .. N |-> IF i = 0 THEN next[Root]
                                  ELSE IF Visit[i - 1] \in Elements THEN next[Visit[i - 1]] ELSE Nil]
    BY <1>8, Zenon DEF VisitTable, N
  <2>. DEFINE v == Visit
  <2>. HIDE DEF v
  <2>2. v = [i \in 0 .. N |-> IF i = 0 THEN next[Root] ELSE IF v[i - 1] \in Elements THEN next[v[i - 1]] ELSE Nil]
    BY <2>1, Zenon DEF v
  <2>3. /\ DOMAIN v = 0 .. N
        /\ \A i \in 0 .. N : v[i] = IF i = 0 THEN next[Root] ELSE IF v[i - 1] \in Elements THEN next[v[i - 1]] ELSE Nil
    BY <2>2, Zenon
  <2>. QED  BY <2>3, Zenon DEF v
<1>10. \A i \in 0 .. N : Visit[i] = w[i]
  <2>. DEFINE T == {i \in 0 .. N : Visit[i] = w[i]}
  <2>1. 0 \in T
    BY <1>5, <1>9, Zenon
  <2>2. ASSUME NEW i \in 0 .. N - 1, i \in T PROVE i + 1 \in T
    <3>1. i + 1 \in 0 .. N /\ i + 1 # 0 /\ (i + 1) - 1 = i
      BY <1>1
    <3>2. Visit[i + 1] = IF Visit[i] \in Elements THEN next[Visit[i]] ELSE Nil
      BY <1>9, <3>1, Zenon
    <3>3. w[i + 1] = IF w[i] \in Elements THEN next[w[i]] ELSE Nil
      BY <1>4, <3>1, Zenon
    <3>. QED  BY <2>2, <3>1, <3>2, <3>3
  <2>. HIDE DEF T
  <2>3. 0 .. N \subseteq T
    BY <1>1, <2>1, <2>2, InductionUpTo
  <2>. QED  BY <2>3, Zenon DEF T
<1>11. \A i \in 0 .. N : (w[i] \in Elements <=> i < n) /\ (i < n => w[i] = p[i + 1])
  <2>. SUFFICES ASSUME NEW i \in 0 .. N PROVE (w[i] \in Elements <=> i < n) /\ (i < n => w[i] = p[i + 1])
    BY Zenon
  <2>1. w[i] = IF i <= n THEN At(p, i + 1) ELSE Nil
    BY Zenon DEF w
  <2>2. CASE i < n
    <3>1. i + 1 \in 1 .. n /\ i <= n
      BY <1>1, <2>2
    <3>. QED  BY <1>3, <2>1, <2>2, <3>1
  <2>3. CASE i = n
    BY <1>1, <1>2, <1>3, <2>1, <2>3
  <2>4. CASE i > n
    BY <1>1, <1>2, <2>1, <2>4
  <2>. QED  BY <1>1, <2>2, <2>3, <2>4
<1>12. {i \in DOMAIN Visit : Visit[i] \in Elements} = 0 .. n - 1
  <2>1. \A i \in 0 .. N : Visit[i] \in Elements <=> i < n
    BY <1>10, <1>11, Zenon
  <2>2. {i \in DOMAIN Visit : Visit[i] \in Elements} = {i \in 0 .. N : i < n}
    BY <1>9, <2>1, Zenon
  <2>3. {i \in 0 .. N : i < n} = 0 .. n - 1
    BY <1>1
  <2>. QED  BY <2>2, <2>3, Zenon
<1>13. Cardinality(0 .. n - 1) = n
  BY <1>1, FS_Interval
<1>14. Walk = [i \in 1 .. n |-> Visit[i - 1]]
  BY <1>12, <1>13, Zenon DEF Walk
<1>15. \A i \in 1 .. n : Visit[i - 1] = p[i]
  <2>. SUFFICES ASSUME NEW i \in 1 .. n PROVE Visit[i - 1] = p[i]
    BY Zenon
  <2>1. i - 1 \in 0 .. N /\ i - 1 < n /\ (i - 1) + 1 = i
    BY <1>1
  <2>. QED  BY <1>10, <1>11, <2>1, Zenon
<1>16. p = [i \in 1 .. n |-> p[i]]
  BY DEF Simple, n
<1>. QED  BY <1>14, <1>15, <1>16, Zenon
-----------------------------------------------------------------------------
(* The Get of t is moving the k-th element of p.                           *)
MovesAt(t, p, k) ==
  /\ Simple(p) /\ Range(p) = inList /\ k \in 1 .. Len(p) /\ p[k] = elem[t]
  /\ Stage(stmt[t], links, p, k)
  /\ pc[t] = "store" => reg[t] = <<Target(stmt[t], elem[t], links), Source(stmt[t], elem[t], links)>>

(* The elements, the most recently used one first.                         *)
IsOrder(o) ==
  /\ Simple(o) /\ Range(o) = inList
  /\ readers = {} => Ring(links, o)
  /\ \A t \in readers : \E p, k : MovesAt(t, p, k) /\ o = Fronted(p, k)

(* Whoever holds the read lock is inside list.move; the key of a Set that  *)
(* evicts is absent; removeExpired looks at a time that has passed; every  *)
(* element of the list is the one its key leads to.                        *)
UseInv ==
  /\ OneGetter
  /\ \A t \in Threads : t \in readers => t \in Getters /\ pc[t] \in {"load", "store"}
  /\ \A t \in Threads : pc[t] = "evict" => ~Present(arg[t].key)
  /\ janitor.now <= now
  /\ \A e \in inList : items[entry[e].key] = e

(* With IndInv, the inductive invariant.                                   *)
LruInv == UseInv /\ \E o : IsOrder(o)

(* Every element of the list has its place in the order.                   *)
LEMMA PlaceOf ==
  ASSUME NEW o, IsOrder(o), NEW e \in inList
  PROVE  \E j \in 1 .. Len(o) : o[j] = e
BY DEF IsOrder, Simple, Range

(* The ring outside a move.                                                *)
LEMMA AtRest ==
  ASSUME IndInv, NEW o, IsOrder(o), readers = {}
  PROVE  Simple(o) /\ Range(o) = inList /\ Ring(links, o) /\ links \in LinkPair
BY Zenon DEF IndInv, TypeOK, IsOrder, links, LinkPair, Links

(* What leaves the ring and the moves alone keeps the order.               *)
LEMMA OrderStays ==
  ASSUME NEW o, IsOrder(o), UNCHANGED <<readers, next, prev, inList>>,
         readers = {} \/ UNCHANGED <<pc, stmt, elem, reg>>
  PROVE  IsOrder(o)'
<1>1. links' = links
  BY Zenon DEF links
<1>2. CASE readers = {}
  BY <1>1, <1>2, Zenon DEF IsOrder
<1>3. CASE UNCHANGED <<pc, stmt, elem, reg>>
  BY <1>1, <1>3 DEF IsOrder, MovesAt
<1>. QED  BY <1>2, <1>3, Zenon

(* Get: the element it starts to move becomes the first one.               *)
LEMMA GetHitOrder ==
  ASSUME IndInv, UseInv, NEW o, IsOrder(o), NEW t \in Getters, NEW k \in Keys, GetHit(t, k)
  PROVE  /\ UseInv' /\ readers = {}
         /\ \E j \in 1 .. Len(o) : o[j] = items[k] /\ IsOrder(Fronted(o, j))'
<1>1. t \in Threads /\ readers \subseteq Threads /\ pc \in [Threads -> {"idle", "load", "store", "evict"}]
  BY CacheAssumption, Zenon DEF IndInv, TypeOK
<1>2. stmt \in [Threads -> 1 .. 6] /\ elem \in [Threads -> Elements \cup {Nil}]
  BY Zenon DEF IndInv, TypeOK
<1>3. readers = {}
  BY <1>1 DEF UseInv, OneGetter, GetHit
<1>4. readers' = {t} /\ pc'[t] = "load" /\ stmt'[t] = 1 /\ elem'[t] = items[k] /\ items[k] \in inList
  BY <1>1, <1>2, <1>3, Zenon DEF GetHit
<1>5. UseInv'
  <2>1. UNCHANGED <<items, entry, inList, arg, janitor, now>>
    BY Zenon DEF GetHit, listVars
  <2>2. \A u \in Threads : u # t => pc'[u] = pc[u]
    BY <1>1, Zenon DEF GetHit
  <2>. QED  BY <1>1, <1>4, <2>1, <2>2, Zenon DEF UseInv, OneGetter, Present
<1>6. Simple(o) /\ Range(o) = inList /\ Ring(links, o) /\ links \in LinkPair
  BY <1>3, AtRest, Zenon
<1>7. PICK j \in 1 .. Len(o) : o[j] = items[k]
  BY <1>4, PlaceOf, Zenon
<1>8. Stage(1, links, o, j)
  BY <1>6, StageStart, Zenon DEF Ring
<1>9. links' = links /\ inList' = inList
  BY Zenon DEF GetHit, listVars, links
<1>10. MovesAt(t, o, j)'
  BY <1>4, <1>6, <1>7, <1>8, <1>9, Zenon DEF MovesAt
<1>11. Simple(Fronted(o, j)) /\ Range(Fronted(o, j)) = Range(o)
  BY <1>6, FrontedFacts, Zenon
<1>12. IsOrder(Fronted(o, j))'
  BY <1>4, <1>6, <1>9, <1>10, <1>11, Zenon DEF IsOrder
<1>. QED  BY <1>3, <1>5, <1>7, <1>12, Zenon

(* Whoever is inside list.move is the only reader.                         *)
LEMMA OnlyReader ==
  ASSUME IndInv, UseInv, NEW t \in Threads, pc[t] \in {"load", "store"}
  PROVE  readers = {t} /\ elem[t] \in inList /\ stmt[t] \in 1 .. 6
<1>1. t \in readers /\ elem[t] \in inList /\ readers \subseteq Threads /\ stmt[t] \in 1 .. 6
  BY Zenon DEF IndInv, LockInv, TypeOK
<1>2. \A u \in readers : u = t
  BY <1>1, Zenon DEF UseInv, OneGetter
<1>. QED  BY <1>1, <1>2, Zenon

(* list.move: reading the operands of an assignment keeps the order, ...   *)
LEMMA MoveLoadOrder ==
  ASSUME IndInv, UseInv, NEW o, IsOrder(o), NEW t \in Threads, MoveLoad(t)
  PROVE  UseInv' /\ IsOrder(o)'
<1>1. readers = {t} /\ stmt[t] \in 1 .. 6
  BY OnlyReader, Zenon DEF MoveLoad
<1>2. pc \in [Threads -> {"idle", "load", "store", "evict"}] /\ reg \in [Threads -> (Node \cup {Nil}) \X (Node \cup {Nil})]
  BY Zenon DEF IndInv, TypeOK
<1>3. /\ UNCHANGED <<now, readers, items, inList, next, prev, entry, stmt, elem, arg, janitor>>
      /\ pc'[t] = "store" /\ \A u \in Threads : u # t => pc'[u] = pc[u]
      /\ reg'[t] = <<Target(stmt[t], elem[t], links), Source(stmt[t], elem[t], links)>>
  BY <1>2, Zenon DEF MoveLoad, listVars
<1>4. links' = links
  BY <1>3, Zenon DEF links
<1>5. UseInv'
  BY <1>1, <1>3, Zenon DEF UseInv, OneGetter, Present
<1>6. ASSUME NEW p, NEW k, MovesAt(t, p, k) PROVE MovesAt(t, p, k)'
  BY <1>3, <1>4, <1>6, Zenon DEF MovesAt
<1>7. IsOrder(o)'
  <2>1. \A u \in readers' : \E p, k : MovesAt(u, p, k)' /\ o = Fronted(p, k)
    BY <1>1, <1>3, <1>6, Zenon DEF IsOrder
  <2>2. Simple(o) /\ Range(o) = inList' /\ readers' # {}
    BY <1>1, <1>3, Zenon DEF IsOrder
  <2>. QED  BY <2>1, <2>2, Zenon DEF IsOrder
<1>. QED  BY <1>5, <1>7, Zenon

(* ... and so does each assignment; the last one leaves a ring.            *)
LEMMA MoveStoreOrder ==
  ASSUME IndInv, UseInv, NEW o, IsOrder(o), NEW t \in Threads, MoveStore(t)
  PROVE  UseInv' /\ IsOrder(o)'
<1>1. readers = {t} /\ stmt[t] \in 1 .. 6
  BY OnlyReader, Zenon DEF MoveStore
<1>2. /\ pc \in [Threads -> {"idle", "load", "store", "evict"}] /\ stmt \in [Threads -> 1 .. 6]
      /\ elem \in [Threads -> Elements \cup {Nil}]
  BY Zenon DEF IndInv, TypeOK
<1>3. /\ UNCHANGED <<now, items, inList, entry, arg, janitor>> /\ \A u \in Threads : u # t => pc'[u] = pc[u]
      /\ links' = Assign(stmt[t], reg[t][1], reg[t][2], links) /\ pc[t] = "store"
  <2>1. links' = Assign(stmt[t], reg[t][1], reg[t][2], links)
    <3>1. links' = [next |-> next', prev |-> prev'] /\ links \in LinkPair
      BY Zenon DEF links, IndInv, TypeOK, LinkPair, Links
    <3>2. next' = Assign(stmt[t], reg[t][1], reg[t][2], links).next /\ prev' = Assign(stmt[t], reg[t][1], reg[t][2], links).prev
      BY Zenon DEF MoveStore, SetLinks
    <3>3. stmt[t] \in {1, 4, 5} \/ stmt[t] \in {2, 3, 6}
      BY <1>1
    <3>. QED  BY <3>1, <3>2, <3>3, Assignments
  <2>. QED  BY <1>2, <2>1, Zenon DEF MoveStore
<1>4. PICK p, k : MovesAt(t, p, k) /\ o = Fronted(p, k)
  BY <1>1, Zenon DEF IsOrder
<1>. DEFINE e == elem[t]
            s == stmt[t]
<1>5. /\ Simple(p) /\ Range(p) = inList /\ k \in 1 .. Len(p) /\ p[k] = e /\ Stage(s, links, p, k)
      /\ reg[t] = <<Target(s, e, links), Source(s, e, links)>>
  BY <1>3, <1>4, Zenon DEF MovesAt
<1>6. links' = Exec(s, e, links)
  BY <1>3, <1>5 DEF Exec
<1>7. links \in LinkPair
  BY Zenon DEF links, IndInv, TypeOK, LinkPair, Links
<1>8. Stage(s + 1, links', p, k)
  BY <1>1, <1>5, <1>6, <1>7, StageStep, Zenon
<1>9. CASE s < 6
  <2>1. readers' = {t} /\ stmt'[t] = s + 1 /\ pc'[t] = "load" /\ elem'[t] = e /\ readers' = readers
    BY <1>1, <1>2, <1>9, SMTT(30) DEF MoveStore
  <2>2. MovesAt(t, p, k)'
    BY <1>3, <1>5, <1>8, <2>1 DEF MovesAt
  <2>3. IsOrder(o)'
    <3>1. Simple(o) /\ Range(o) = inList' /\ readers' # {}
      BY <1>3, <2>1, Zenon DEF IsOrder
    <3>. QED  BY <1>4, <2>1, <2>2, <3>1, Zenon DEF IsOrder
  <2>4. UseInv'
    BY <1>1, <1>3, <2>1, SMTT(30) DEF UseInv, OneGetter, Present
  <2>. QED  BY <2>3, <2>4, Zenon
<1>10. CASE s = 6
  <2>1. readers' = {} /\ pc'[t] = "idle"
    BY <1>1, <1>2, <1>10 DEF MoveStore
  <2>2. NextRing(links'.next, o) /\ PrevRing(links'.prev, o)
    <3>1. Stage(7, links', p, k)
      BY <1>8, <1>10
    <3>. QED  BY <1>4, <3>1 DEF Stage, Fronted
  <2>3. IsOrder(o)'
    <3>1. Simple(o) /\ Range(o) = inList'
      BY <1>3, Zenon DEF IsOrder
    <3>. QED  BY <2>1, <2>2, <3>1, Zenon DEF IsOrder, Ring
  <2>4. UseInv'
    BY <1>1, <1>3, <2>1, Zenon DEF UseInv, OneGetter, Present
  <2>. QED  BY <2>3, <2>4, Zenon
<1>. QED  BY <1>1, <1>9, <1>10

(* Types of what the steps under the write lock use.                       *)
LEMMA UseFacts ==
  ASSUME IndInv
  PROVE  /\ inList \subseteq Elements /\ Nil \notin Elements /\ items \in [Keys -> Elements \cup {Nil}]
         /\ entry \in [Elements -> Entry \cup {Nil}]
         /\ \A e \in inList : entry[e] \in Entry /\ entry[e].key \in Keys
         /\ links \in LinkPair
<1>1. inList \subseteq Elements /\ items \in [Keys -> Elements \cup {Nil}] /\ entry \in [Elements -> Entry \cup {Nil}]
  BY Zenon DEF IndInv, TypeOK
<1>2. \A e \in inList : entry[e] # Nil
  BY <1>1, CacheAssumption, Zenon DEF IndInv, RingInv, Alive
<1>3. \A e \in inList : entry[e] \in Entry
  BY <1>1, <1>2, Zenon
<1>4. \A r \in Entry : r.key \in Keys
  BY Zenon DEF Entry
<1>5. links \in LinkPair
  BY Zenon DEF links, IndInv, TypeOK, LinkPair, Links
<1>. QED  BY <1>1, <1>3, <1>4, <1>5, CacheAssumption, Zenon

(* What Get and removeExpired read in an entry is what the last Set wrote. *)
LEMMA EntryIsLatest ==
  ASSUME IndInv, NEW k \in Keys, Present(k)
  PROVE  /\ items[k] \in inList /\ entry[items[k]].key = k
         /\ entry[items[k]].expiresAt = latest[k].expiresAt /\ latest[k].expiresAt \in Int
<1>1. entry[items[k]] = [key |-> k, value |-> latest[k].value, expiresAt |-> latest[k].expiresAt]
  BY Zenon DEF IndInv, StoreIntegrity
<1>2. latest[k] \in [value : Values, expiresAt : Int]
  BY Zenon DEF IndInv, StoreIntegrity, TypeOK
<1>. QED  BY <1>1, <1>2, EntryKey DEF IndInv, MapInv

(* Set of a present key.                                                   *)
LEMMA SetUpdateOrder ==
  ASSUME IndInv, UseInv, NEW o, IsOrder(o), NEW t \in Threads, NEW k \in Keys, NEW v \in Values,
         NEW ttl \in TTLs, SetUpdate(t, k, v, ttl)
  PROVE  /\ UseInv' /\ \A e \in inList : entry'[e].key = entry[e].key
         /\ \E j \in 1 .. Len(o) : o[j] = items[k] /\ IsOrder(Fronted(o, j))'
<1>. DEFINE e == items[k]
            r == [key |-> k, value |-> v, expiresAt |-> now + ttl]
<1>1. /\ readers = {} /\ readers' = {} /\ Present(k) /\ entry' = [entry EXCEPT ![e] = r]
      /\ next' = MoveToFront(e, links).next /\ prev' = MoveToFront(e, links).prev
      /\ UNCHANGED <<now, items, inList, pc, stmt, elem, reg, arg, janitor>>
  BY Zenon DEF SetUpdate, Unlocked, SetLinks, threadVars
<1>2. e \in inList /\ entry[e].key = k
  BY <1>1, EntryKey, Zenon DEF IndInv, MapInv
<1>3. /\ inList \subseteq Elements /\ entry \in [Elements -> Entry \cup {Nil}]
      /\ \A x \in inList : entry[x] \in Entry /\ entry[x].key \in Keys
  BY UseFacts, Zenon
<1>4. \A x \in inList : entry'[x].key = entry[x].key
  <2>1. r.key = k
    BY Zenon
  <2>. HIDE DEF r, e
  <2>. QED  BY <1>1, <1>2, <1>3, <2>1, Zenon
<1>5. UseInv'
  BY <1>1, <1>4 DEF UseInv, OneGetter, Present
<1>6. Simple(o) /\ Range(o) = inList /\ Ring(links, o) /\ links \in LinkPair
  BY <1>1, AtRest, Zenon
<1>7. PICK j \in 1 .. Len(o) : o[j] = e
  BY <1>2, PlaceOf, Zenon
<1>8. Ring(MoveToFront(e, links), Fronted(o, j))
  BY <1>2, <1>6, <1>7, MoveRing, Zenon
<1>9. Ring(links', Fronted(o, j))
  <2>1. links'.next = MoveToFront(e, links).next /\ links'.prev = MoveToFront(e, links).prev
    BY <1>1, Zenon DEF links
  <2>. QED  BY <1>8, <2>1, Zenon DEF Ring
<1>10. Simple(Fronted(o, j)) /\ Range(Fronted(o, j)) = inList'
  BY <1>1, <1>6, FrontedFacts, Zenon
<1>11. IsOrder(Fronted(o, j))'
  BY <1>1, <1>9, <1>10, Zenon DEF IsOrder
<1>. QED  BY <1>4, <1>5, <1>7, <1>11, Zenon

(* removeElement, called by Delete, by the eviction loop of Set and by     *)
(* removeExpired.                                                          *)
LEMMA RemoveOrder ==
  ASSUME IndInv, UseInv, NEW o, IsOrder(o), readers = {}, NEW e \in inList, RemoveElement(e),
         UNCHANGED <<now, readers, pc, stmt, elem, reg, arg, janitor>>
  PROVE  /\ UseInv' /\ \A x \in inList' : entry'[x].key = entry[x].key
         /\ \E j \in 1 .. Len(o) : o[j] = e /\ IsOrder(RemoveAt(o, j))'
<1>. DEFINE kk == entry[e].key
<1>0. /\ inList \subseteq Elements /\ Nil \notin Elements /\ items \in [Keys -> Elements \cup {Nil}]
      /\ entry \in [Elements -> Entry \cup {Nil}] /\ kk \in Keys
      /\ \A x \in inList : entry[x] \in Entry /\ entry[x].key \in Keys
  BY UseFacts, Zenon
<1>1. /\ inList' = inList \ {e} /\ items' = [items EXCEPT ![kk] = Nil]
      /\ next' = Unlink(e, links).next /\ prev' = Unlink(e, links).prev
      /\ \A x \in Elements : x # e => entry'[x] = entry[x]
  BY <1>0, Zenon DEF RemoveElement, SetLinks
<1>2. \A x \in inList' : entry'[x] = entry[x] /\ x \in inList /\ x # e /\ x \in Elements
  BY <1>0, <1>1, Zenon
<1>3. \A x \in inList' : items'[entry'[x].key] = x
  <2>. SUFFICES ASSUME NEW x \in inList' PROVE items'[entry[x].key] = x
    BY <1>2, Zenon
  <2>1. items[entry[x].key] = x /\ items[kk] = e /\ entry[x].key \in Keys
    BY <1>0, <1>2, Zenon DEF UseInv
  <2>2. entry[x].key # kk
    BY <1>2, <2>1, Zenon
  <2>. HIDE DEF kk
  <2>. QED  BY <1>0, <1>1, <2>1, <2>2
<1>4. \A k \in Keys : ~Present(k) => ~Present(k)'
  BY <1>0, <1>1, Zenon DEF Present
<1>5. \A t \in Threads : pc'[t] = "evict" => ~Present(arg[t].key)'
  <2>. SUFFICES ASSUME NEW t \in Threads, pc[t] = "evict" PROVE ~Present(arg[t].key)'
    BY Zenon
  <2>1. arg[t].key \in Keys /\ ~Present(arg[t].key) /\ arg' = arg
    BY Zenon DEF IndInv, LockInv, Call, UseInv
  <2>. QED  BY <1>4, <2>1, Zenon DEF Present
<1>6. UseInv'
  BY <1>3, <1>5, Zenon DEF UseInv, OneGetter
<1>7. Simple(o) /\ Range(o) = inList /\ Ring(links, o) /\ links \in LinkPair
  BY AtRest, Zenon
<1>8. PICK j \in 1 .. Len(o) : o[j] = e
  BY PlaceOf, Zenon
<1>9. Ring(Unlink(e, links), RemoveAt(o, j))
  BY <1>7, <1>8, UnlinkRing, Zenon
<1>10. Ring(links', RemoveAt(o, j))
  <2>1. links'.next = Unlink(e, links).next /\ links'.prev = Unlink(e, links).prev
    BY <1>1, Zenon DEF links
  <2>. QED  BY <1>9, <2>1, Zenon DEF Ring
<1>11. Simple(RemoveAt(o, j)) /\ Range(RemoveAt(o, j)) = inList'
  BY <1>1, <1>7, <1>8, CutFacts, SMTT(30)
<1>12. IsOrder(RemoveAt(o, j))'
  BY <1>10, <1>11, Zenon DEF IsOrder
<1>. QED  BY <1>2, <1>6, <1>8, <1>12, Zenon

(* Set of a new key.                                                       *)
LEMMA SetInsertOrder ==
  ASSUME IndInv, UseInv, NEW o, IsOrder(o), NEW t \in Threads, SetInsert(t)
  PROVE  /\ UseInv' /\ readers = {} /\ ~Present(arg[t].key) /\ arg[t] \in Call
         /\ \A x \in inList : entry'[x] = entry[x]
         /\ \E e \in Elements \ inList : entry'[e].key = arg[t].key /\ IsOrder(<<e>> \o o)'
<1>. DEFINE c == arg[t]
            r == [key |-> c.key, value |-> c.value, expiresAt |-> now + c.ttl]
<1>1. PICK e \in Fresh :
        /\ next' = PushFront(e, links).next /\ prev' = PushFront(e, links).prev
        /\ inList' = inList \cup {e} /\ items' = [items EXCEPT ![c.key] = e] /\ entry' = [entry EXCEPT ![e] = r]
  BY Zenon DEF SetInsert, SetLinks
<1>2. e \in Elements /\ e \notin inList
  BY Zenon DEF Fresh
<1>3. writer = t /\ c \in Call /\ readers = {} /\ pc[t] = "evict" /\ writer # Nil
  BY CacheAssumption DEF SetInsert, IndInv, LockInv
<1>4. ~Present(c.key) /\ c.key \in Keys
  BY <1>3, Zenon DEF UseInv, Call
<1>5. UNCHANGED <<now, readers, janitor>> /\ pc' = [pc EXCEPT ![t] = "idle"] /\ arg' = [arg EXCEPT ![t] = Nil]
  BY Zenon DEF SetInsert, Return
<1>6. /\ inList \subseteq Elements /\ Nil \notin Elements /\ items \in [Keys -> Elements \cup {Nil}]
      /\ entry \in [Elements -> Entry \cup {Nil}]
      /\ \A x \in inList : entry[x] \in Entry /\ entry[x].key \in Keys
  BY UseFacts, Zenon
<1>. HIDE DEF c
<1>7. (\A x \in inList : entry'[x] = entry[x]) /\ entry'[e] = r /\ r.key = c.key
  BY <1>1, <1>2, <1>6, Zenon
<1>. HIDE DEF r
<1>8. \A x \in inList' : items'[entry'[x].key] = x
  <2>1. items'[c.key] = e
    BY <1>1, <1>4, <1>6, Zenon
  <2>2. ASSUME NEW x \in inList PROVE items'[entry[x].key] = x
    <3>1. items[entry[x].key] = x /\ entry[x].key \in Keys /\ x # Nil
      BY <1>6, Zenon DEF UseInv
    <3>2. entry[x].key # c.key
      BY <1>4, <3>1, Zenon DEF Present
    <3>. QED  BY <1>1, <1>6, <3>1, <3>2
  <2>. QED  BY <1>1, <1>7, <2>1, <2>2
<1>9. \A u \in Threads : pc'[u] # "evict"
  <2>1. pc \in [Threads -> {"idle", "load", "store", "evict"}]
    BY Zenon DEF IndInv, TypeOK
  <2>2. \A u \in Threads : u # t => pc[u] # "evict"
    BY <1>3, Zenon DEF IndInv, LockInv
  <2>. QED  BY <1>5, <2>1, <2>2, Zenon
<1>10. UseInv'
  BY <1>3, <1>5, <1>8, <1>9, Zenon DEF UseInv, OneGetter
<1>11. Simple(o) /\ Range(o) = inList /\ Ring(links, o) /\ links \in LinkPair
  BY <1>3, AtRest, Zenon
<1>12. Ring(PushFront(e, links), <<e>> \o o)
  BY <1>2, <1>11, PushRing, Zenon
<1>13. Ring(links', <<e>> \o o)
  <2>1. links'.next = PushFront(e, links).next /\ links'.prev = PushFront(e, links).prev
    BY <1>1, Zenon DEF links
  <2>. QED  BY <1>12, <2>1, Zenon DEF Ring
<1>14. Simple(<<e>> \o o) /\ Range(<<e>> \o o) = inList'
  BY <1>1, <1>2, <1>11, ConsFacts, Zenon
<1>15. IsOrder(<<e>> \o o)'
  BY <1>3, <1>5, <1>13, <1>14, Zenon DEF IsOrder
<1>. QED  BY <1>2, <1>3, <1>4, <1>7, <1>10, <1>15, SMTT(30) DEF c

(* evictOldest finds the element at the end of the order.                  *)
LEMMA SetEvictOrder ==
  ASSUME IndInv, UseInv, NEW o, IsOrder(o), NEW t \in Threads, SetEvict(t)
  PROVE  /\ readers = {} /\ UNCHANGED <<now, readers, pc, stmt, elem, reg, arg, janitor, latest>>
         /\ \/ UNCHANGED entry /\ UseInv' /\ IsOrder(o)'
            \/ /\ Len(o) = MaxEntries /\ Len(o) \in 1 .. Len(o)
               /\ o[Len(o)] \in inList /\ RemoveElement(o[Len(o)])
<1>1. UNCHANGED <<now, readers, pc, stmt, elem, reg, arg, janitor, latest>> /\ len >= MaxEntries
  BY Zenon DEF SetEvict, threadVars
<1>2. readers = {}
  BY CacheAssumption, Zenon DEF SetEvict, IndInv, LockInv
<1>3. CASE Back = Nil
  <2>1. UNCHANGED <<next, prev, inList, entry, items>>
    BY <1>3, Zenon DEF SetEvict, listVars
  <2>2. IsOrder(o)'
    BY <1>1, <1>2, <2>1, OrderStays, Zenon
  <2>3. UseInv'
    BY <1>1, <2>1, Zenon DEF UseInv, OneGetter, Present
  <2>. QED  BY <1>1, <1>2, <2>1, <2>2, <2>3, SMTT(30)
<1>4. CASE Back # Nil
  <2>. DEFINE n == Len(o)
  <2>1. Simple(o) /\ Range(o) = inList /\ Ring(links, o)
    BY <1>2, AtRest, Zenon
  <2>2. len = n /\ n \in Nat /\ len <= MaxEntries /\ MaxEntries \in Nat
    BY <2>1, SimpleCard, AtFacts, CacheAssumption, Zenon DEF IndInv, LenInv
  <2>3. n > 0 /\ Back = prev[Root]
    BY <1>4, <2>2 DEF Back
  <2>4. prev[Root] = o[n]
    <3>1. At(o, n + 1) = Root /\ At(o, n) = o[n] /\ n \in 0 .. Len(o)
      BY <2>1, <2>2, <2>3, AtFacts, SMTT(30)
    <3>. QED  BY <2>1, <3>1, Zenon DEF Ring, PrevRing, links
  <2>5. n \in DOMAIN o
    BY <2>1, <2>2, <2>3 DEF Simple
  <2>6. o[n] \in inList /\ RemoveElement(o[n])
    BY <1>4, <2>1, <2>3, <2>4, <2>5, Zenon DEF SetEvict, Range
  <2>7. n = MaxEntries /\ n \in 1 .. n
    BY <1>1, <2>2, <2>3, SMTT(30)
  <2>. QED  BY <1>1, <1>2, <2>6, <2>7, Zenon
<1>. QED  BY <1>3, <1>4, Zenon
-----------------------------------------------------------------------------
(* The steps that leave the list and the entries alone.                    *)
Quiet ==
  \/ \E t \in Getters, k \in Keys : GetMiss(t, k) \/ GetFront(t, k)
  \/ \E t \in Threads : SetFail(t)
  \/ \E t \in Threads, k \in Keys, v \in Values, ttl \in TTLs : SetBegin(t, k, v, ttl)
  \/ JanitorTick \/ JanitorDone \/ JanitorStop
  \/ \E t \in Closers : Close(t)
  \/ UNCHANGED vars

(* They keep the order.                                                    *)
LEMMA QuietOrder ==
  ASSUME IndInv, UseInv, NEW o, IsOrder(o), Quiet
  PROVE  UseInv' /\ IsOrder(o)' /\ UNCHANGED <<entry, now, latest>>
<1>. pc \in [Threads -> {"idle", "load", "store", "evict"}] /\ now \in Nat /\ arg \in [Threads -> Call \cup {Nil}]
  BY Zenon DEF IndInv, TypeOK
<1>1. ASSUME NEW t \in Getters, NEW k \in Keys, GetMiss(t, k) \/ GetFront(t, k) PROVE UNCHANGED vars
  BY <1>1, Zenon DEF GetMiss, GetFront
<1>2. ASSUME NEW t \in Threads, SetFail(t)
      PROVE  UseInv' /\ IsOrder(o)' /\ UNCHANGED <<entry, now, latest>>
  <2>1. /\ UNCHANGED <<now, readers, items, next, prev, inList, entry, janitor, latest>>
        /\ pc' = [pc EXCEPT ![t] = "idle"] /\ arg' = [arg EXCEPT ![t] = Nil]
    BY <1>2, Zenon DEF SetFail, Return, listVars
  <2>2. readers = {}
    BY <1>2, CacheAssumption, Zenon DEF SetFail, IndInv, LockInv
  <2>3. IsOrder(o)'
    BY <2>1, <2>2, OrderStays, Zenon
  <2>4. UseInv'
    BY <2>1, <2>2 DEF UseInv, OneGetter, Present
  <2>. QED  BY <2>1, <2>3, <2>4, Zenon
<1>3. ASSUME NEW t \in Threads, NEW k \in Keys, NEW v \in Values, NEW ttl \in TTLs, SetBegin(t, k, v, ttl)
      PROVE  UseInv' /\ IsOrder(o)' /\ UNCHANGED <<entry, now, latest>>
  <2>1. /\ UNCHANGED <<now, readers, items, next, prev, inList, entry, janitor, latest>>
        /\ pc' = [pc EXCEPT ![t] = "evict"]
        /\ arg' = [arg EXCEPT ![t] = [key |-> k, value |-> v, ttl |-> ttl]]
        /\ readers = {} /\ ~Present(k)
    BY <1>3, Zenon DEF SetBegin, Unlocked, listVars
  <2>2. IsOrder(o)'
    BY <2>1, OrderStays, Zenon
  <2>3. arg'[t].key = k /\ \A u \in Threads : u # t => arg'[u] = arg[u] /\ pc'[u] = pc[u]
    BY <2>1, Zenon
  <2>4. UseInv'
    BY <2>1, <2>3, ZenonT(30) DEF UseInv, OneGetter, Present
  <2>. QED  BY <2>1, <2>2, <2>4, Zenon
<1>4. ASSUME UNCHANGED <<readers, items, next, prev, inList, entry, pc, stmt, elem, reg, arg, now, latest>>,
             janitor'.now <= now
      PROVE  UseInv' /\ IsOrder(o)' /\ UNCHANGED <<entry, now, latest>>
  <2>1. IsOrder(o)'
    BY <1>4, OrderStays, Zenon
  <2>. QED  BY <1>4, <2>1, Zenon DEF UseInv, OneGetter, Present
<1>5. CASE JanitorTick \/ JanitorDone \/ JanitorStop
  <2>1. UNCHANGED <<readers, items, next, prev, inList, entry, pc, stmt, elem, reg, arg, now, latest>>
    BY <1>5, Zenon DEF JanitorTick, JanitorDone, JanitorStop, listVars, threadVars
  <2>2. janitor'.now <= now
    BY <1>5 DEF JanitorTick, JanitorDone, JanitorStop
  <2>. QED  BY <1>4, <2>1, <2>2, Zenon
<1>6. ASSUME NEW t \in Closers, Close(t) PROVE UseInv' /\ IsOrder(o)' /\ UNCHANGED <<entry, now, latest>>
  <2>1. UNCHANGED <<readers, items, next, prev, inList, entry, pc, stmt, elem, reg, arg, now, latest, janitor>>
    BY <1>6, Zenon DEF Close, listVars, threadVars
  <2>. QED  BY <1>4, <2>1, Zenon DEF UseInv
<1>7. CASE UNCHANGED vars
  <2>1. UNCHANGED <<readers, items, next, prev, inList, entry, pc, stmt, elem, reg, arg, now, latest, janitor>>
    BY <1>7, Zenon DEF vars
  <2>. QED  BY <1>4, <2>1, Zenon DEF UseInv
<1>. QED  BY <1>1, <1>2, <1>3, <1>5, <1>6, <1>7, SMTT(30) DEF Quiet

(* So does the clock, ...                                                  *)
LEMMA TickOrder ==
  ASSUME IndInv, UseInv, NEW o, IsOrder(o), Tick
  PROVE  UseInv' /\ IsOrder(o)'
<1>1. UNCHANGED <<readers, items, next, prev, inList, entry, pc, stmt, elem, reg, arg, janitor>> /\ now' = now + 1
  BY Zenon DEF Tick, listVars, threadVars
<1>2. IsOrder(o)'
  BY <1>1, OrderStays, Zenon
<1>3. janitor.now \in Nat /\ now \in Nat
  BY Zenon DEF IndInv, TypeOK
<1>4. janitor'.now <= now'
  <2>1. janitor' = janitor /\ janitor.now <= now /\ now' = now + 1
    BY <1>1, Zenon DEF UseInv
  <2>. QED  BY <1>3, <2>1
<1>. QED  BY <1>1, <1>2, <1>4, Zenon DEF UseInv, OneGetter, Present

(* The steps of Next, sorted.                                              *)
LEMMA StepKinds ==
  ASSUME [Next]_vars
  PROVE  \/ Quiet \/ Tick
         \/ \E t \in Getters, k \in Keys : GetHit(t, k)
         \/ \E t \in Threads : MoveLoad(t) \/ MoveStore(t) \/ SetEvict(t) \/ SetInsert(t)
         \/ \E t \in Threads, k \in Keys, v \in Values, ttl \in TTLs : SetUpdate(t, k, v, ttl)
         \/ \E t \in Threads, k \in Keys : Delete(t, k)
         \/ \E k \in Keys : JanitorRemove(k)
BY Zenon DEF Next, Quiet, GetStep, SetStep, JanitorScan

(* Delete and removeExpired keep an order.                                 *)
LEMMA RemovalOrder ==
  ASSUME IndInv, UseInv, NEW o, IsOrder(o), NEW k \in Keys,
         JanitorRemove(k) \/ \E t \in Threads : Delete(t, k)
  PROVE  UseInv' /\ \E q : IsOrder(q)'
<1>1. UNCHANGED <<now, readers, pc, stmt, elem, reg, arg, janitor>> /\ readers = {}
  BY CacheAssumption, Zenon DEF Delete, JanitorRemove, Unlocked, threadVars, IndInv, LockInv
<1>2. CASE Present(k)
  <2>1. items[k] \in inList /\ RemoveElement(items[k])
    BY <1>2, EntryIsLatest, Zenon DEF Delete, JanitorRemove
  <2>. QED  BY <1>1, <2>1, RemoveOrder, Zenon
<1>3. CASE ~Present(k)
  <2>1. UNCHANGED <<items, next, prev, inList, entry>>
    BY <1>3, Zenon DEF Delete, JanitorRemove, listVars
  <2>2. IsOrder(o)'
    BY <1>1, <2>1, OrderStays, Zenon
  <2>3. UseInv'
    BY <1>1, <2>1, Zenon DEF UseInv, OneGetter, Present
  <2>. QED  BY <2>2, <2>3, Zenon
<1>. QED  BY <1>2, <1>3, Zenon

(* An empty cache has the empty order.                                     *)
LEMMA LruInit == OneGetter /\ Init => LruInv
<1>. SUFFICES ASSUME OneGetter, Init PROVE LruInv
  BY Zenon
<1>1. UseInv
  <2>1. pc = [t \in Threads |-> "idle"] /\ readers = {} /\ inList = {} /\ now = 0 /\ janitor = [at |-> "select", now |-> 0]
    BY Zenon DEF Init
  <2>. QED  BY <2>1 DEF UseInv
<1>2. IsOrder(<<>>)
  <2>1. Simple(<<>>) /\ Range(<<>>) = {} /\ Len(<<>>) = 0
    <3>1. Len(<<>>) = 0 /\ DOMAIN <<>> = {} /\ \A i \in 1..Len(<<>>) : FALSE
      OBVIOUS
    <3>2. Range(<<>>) = {}
      BY <3>1, Zenon DEF Range
    <3>. QED  BY <3>1, <3>2 DEF Simple
  <2>2. At(<<>>, 0) = Root /\ At(<<>>, 1) = Root
    BY <2>1, AtFacts
  <2>3. links.next[Root] = Root /\ links.prev[Root] = Root /\ inList = {} /\ readers = {}
    BY Zenon DEF Init, links, Node
  <2>4. Ring(links, <<>>)
    BY <2>1, <2>2, <2>3, SMTT(30) DEF Ring, NextRing, PrevRing
  <2>. QED  BY <2>1, <2>3, <2>4 DEF IsOrder
<1>. QED  BY <1>1, <1>2, Zenon DEF LruInv

(* Every operation leaves an order of the elements in use.                 *)
LEMMA LruNext == IndInv /\ LruInv /\ [Next]_vars => LruInv'
<1>. SUFFICES ASSUME IndInv, LruInv, [Next]_vars PROVE UseInv' /\ \E q : IsOrder(q)'
  BY Zenon DEF LruInv
<1>1. UseInv
  BY Zenon DEF LruInv
<1>2. PICK o : IsOrder(o)
  BY Zenon DEF LruInv
<1>3. CASE Quiet
  BY <1>1, <1>2, <1>3, QuietOrder, Zenon
<1>4. CASE Tick
  BY <1>1, <1>2, <1>4, TickOrder, Zenon
<1>5. ASSUME NEW t \in Getters, NEW k \in Keys, GetHit(t, k) PROVE UseInv' /\ \E q : IsOrder(q)'
  BY <1>1, <1>2, <1>5, GetHitOrder, Zenon
<1>6. ASSUME NEW t \in Threads, MoveLoad(t) \/ MoveStore(t) PROVE UseInv' /\ \E q : IsOrder(q)'
  BY <1>1, <1>2, <1>6, MoveLoadOrder, MoveStoreOrder, SMTT(30)
<1>7. ASSUME NEW t \in Threads, SetEvict(t) PROVE UseInv' /\ \E q : IsOrder(q)'
  <2>1. readers = {} /\ UNCHANGED <<now, readers, pc, stmt, elem, reg, arg, janitor>>
    BY <1>1, <1>2, <1>7, SetEvictOrder, Zenon
  <2>2. CASE UseInv' /\ IsOrder(o)'
    BY <2>2, Zenon
  <2>3. CASE o[Len(o)] \in inList /\ RemoveElement(o[Len(o)])
    BY <1>1, <1>2, <2>1, <2>3, RemoveOrder, SMTT(30)
  <2>. QED  BY <1>1, <1>2, <1>7, <2>2, <2>3, SetEvictOrder, SMTT(30)
<1>8. ASSUME NEW t \in Threads, SetInsert(t) PROVE UseInv' /\ \E q : IsOrder(q)'
  BY <1>1, <1>2, <1>8, SetInsertOrder, Zenon
<1>9. ASSUME NEW t \in Threads, NEW k \in Keys, NEW v \in Values, NEW ttl \in TTLs, SetUpdate(t, k, v, ttl)
      PROVE  UseInv' /\ \E q : IsOrder(q)'
  BY <1>1, <1>2, <1>9, SetUpdateOrder, Zenon
<1>10. ASSUME NEW k \in Keys, JanitorRemove(k) \/ \E t \in Threads : Delete(t, k)
       PROVE  UseInv' /\ \E q : IsOrder(q)'
  BY <1>1, <1>2, <1>10, RemovalOrder, Zenon
<1>. QED  BY <1>3, <1>4, <1>5, <1>6, <1>7, <1>8, <1>9, <1>10, StepKinds, SMTT(30)
-----------------------------------------------------------------------------
(* Outside a move the list has every element of the map once, and the      *)
(* links lead through it both ways.                                        *)
LEMMA RingAtRest == IndInv /\ LruInv => RingMatchesMap
<1>. SUFFICES ASSUME IndInv, LruInv, readers = {}
              PROVE  /\ Range(Walk) = {items[k] : k \in {j \in Keys : Present(j)}}
                     /\ Len(Walk) = Cardinality(Range(Walk)) /\ Len(Walk) = len
                     /\ \A n \in inList \cup {Root} : next[prev[n]] = n /\ prev[next[n]] = n
  BY Zenon DEF RingMatchesMap
<1>1. PICK o : IsOrder(o)
  BY Zenon DEF LruInv
<1>2. Simple(o) /\ Range(o) = inList /\ NextRing(next, o) /\ PrevRing(prev, o)
  BY <1>1, Zenon DEF IsOrder, Ring, links
<1>3. Walk = o
  BY <1>2, WalkIs, Zenon
<1>4. Cardinality(inList) = Len(o) /\ Cardinality(inList) = len /\ Len(o) \in Nat
  BY <1>2, SimpleCard, AtFacts, Zenon DEF IndInv, LenInv
<1>5. inList = {items[k] : k \in {j \in Keys : Present(j)}}
  <2>1. ASSUME NEW e \in inList PROVE \E k \in Keys : Present(k) /\ items[k] = e
    <3>1. items[entry[e].key] = e /\ entry[e].key \in Keys /\ e # Nil
      BY UseFacts, Zenon DEF LruInv, UseInv
    <3>. QED  BY <3>1, Zenon DEF Present
  <2>2. \A k \in Keys : Present(k) => items[k] \in inList
    BY EntryIsLatest, Zenon
  <2>. QED  BY <2>1, <2>2, Zenon
<1>6. ASSUME NEW n \in inList \cup {Root} PROVE next[prev[n]] = n /\ prev[next[n]] = n
  <2>. DEFINE m == Len(o)
  <2>1. /\ m \in Nat /\ At(o, 0) = Root /\ At(o, m + 1) = Root /\ \A i \in 1 .. m : At(o, i) = o[i]
    BY <1>2, AtFacts, Zenon
  <2>2. \A i \in 0 .. m : next[At(o, i)] = At(o, i + 1) /\ prev[At(o, i + 1)] = At(o, i)
    BY <1>2, Zenon DEF NextRing, PrevRing
  <2>3. n \in inList => \E i \in 1 .. m : At(o, i) = n
    BY <1>2, <2>1 DEF Range, Simple
  <2>. HIDE DEF m
  <2>4. PICK i \in 0 .. m : At(o, i) = n
    <3>1. CASE n = Root
      BY <2>1, <3>1
    <3>2. CASE n \in inList
      BY <2>1, <2>3, <3>2
    <3>. QED  BY <3>1, <3>2, Zenon
  <2>5. PICK j \in 0 .. m : At(o, j + 1) = n
    <3>1. CASE n = Root
      BY <2>1, <3>1
    <3>2. CASE n # Root
      <4>1. i \in 1 .. m /\ i - 1 \in 0 .. m /\ (i - 1) + 1 = i
        BY <2>1, <2>4, <3>2
      <4>. QED  BY <2>4, <4>1, Zenon
    <3>. QED  BY <3>1, <3>2, Zenon
  <2>. QED  BY <2>2, <2>4, <2>5, Zenon
<1>. QED  BY <1>2, <1>3, <1>4, <1>5, <1>6

(* So there is one in every state.                                         *)
LEMMA LruInvariant == OneGetter /\ Spec => [](IndInv /\ LruInv)
<1>1. OneGetter /\ Init => LruInv
  BY LruInit, Zenon
<1>2. IndInv /\ LruInv /\ [Next]_vars => LruInv'
  BY LruNext, Zenon
<1>3. Spec => []IndInv
  BY Invariance, Zenon
<1>. QED  BY <1>1, <1>2, <1>3, PTL DEF Spec

(* With one goroutine that calls Get, whatever the others do: the ring of  *)
(* container/list visits the element of every cached key exactly once,     *)
(* forwards and backwards, and l.len counts them, whenever no Get is in    *)
(* the middle of list.move.                                                *)
THEOREM RingMatchesMapHolds == OneGetter /\ Spec => []RingMatchesMap
BY LruInvariant, RingAtRest, PTL
-----------------------------------------------------------------------------
(* With one Get at a time the cache implements LRUCache: every step of an  *)
(* operation, list.move included, is a step of LRUCache on the keys in the *)
(* order of their use, or one that it does not see.                        *)

(* The keys of the elements of o.                                          *)
KeysOf(en, o) == [i \in 1 .. Len(o) |-> en[o[i]].key]

(* What the refinement mapping gives.                                      *)
RecencyOK == \A o : IsOrder(o) => Recency = KeysOf(entry, o)

(* RemoveFirst finds the only place of an element.                         *)
LEMMA RemoveFirstIs ==
  ASSUME NEW p, Simple(p), NEW k \in 1 .. Len(p)
  PROVE  RemoveFirst(p, p[k]) = RemoveAt(p, k)
<1>1. DOMAIN p = 1 .. Len(p) /\ \A i \in DOMAIN p : p[i] = p[k] => i = k
  BY DEF Simple
<1>2. p[k] \in Range(p)
  BY <1>1, Zenon DEF Range
<1>3. (CHOOSE i \in DOMAIN p : p[i] = p[k]) = k
  BY <1>1, Zenon
<1>. QED  BY <1>2, <1>3 DEF RemoveFirst

(* It leaves a sequence alone that has no such element, ...                *)
LEMMA RemoveAbsent ==
  ASSUME NEW q, NEW e, e \notin Range(q)
  PROVE  RemoveFirst(q, e) = q
BY Zenon DEF RemoveFirst

(* ... and takes it off the front.                                         *)
LEMMA RemoveFront ==
  ASSUME NEW q, Simple(q), NEW e \in Elements, e \notin Range(q)
  PROVE  RemoveFirst(<<e>> \o q, e) = q
<1>. DEFINE r == <<e>> \o q
            n == Len(q)
            u == RemoveAt(r, 1)
<1>1. Simple(r) /\ Len(r) = n + 1 /\ r[1] = e /\ n \in Nat
  BY ConsFacts, AtFacts, Zenon
<1>2. \A i \in 1 .. n + 1 : At(r, i + 1) = At(q, i)
  BY ConsFacts, Zenon
<1>. HIDE DEF r
<1>3. 1 \in 1 .. Len(r)
  BY <1>1
<1>4. RemoveFirst(r, e) = u
  <2>1. RemoveFirst(r, r[1]) = u
    BY <1>1, <1>3, RemoveFirstIs, Zenon
  <2>. QED  BY <1>1, <2>1, Zenon
<1>5. Simple(u) /\ Len(u) = Len(r) - 1 /\ \A i \in 0 .. Len(r) : At(u, i) = IF i < 1 THEN At(r, i) ELSE At(r, i + 1)
  BY <1>1, <1>3, CutFacts, Zenon
<1>. HIDE DEF u, n
<1>6. u \in Seq(Elements) /\ q \in Seq(Elements) /\ Len(u) = n /\ Len(q) = n
  BY <1>1, <1>5 DEF Simple, n
<1>7. ASSUME NEW i \in 1 .. n PROVE u[i] = q[i]
  <2>1. i \in 0 .. Len(r) /\ ~(i < 1) /\ i \in 1 .. n + 1
    BY <1>1
  <2>2. At(u, i) = At(q, i)
    BY <1>2, <1>5, <2>1, Zenon
  <2>. QED  BY <1>6, <2>2, Zenon DEF At
<1>8. u = q
  BY <1>6, <1>7
<1>. QED  BY <1>4, <1>8, Zenon DEF r

(* While a Get moves its element the others keep their order, and outside  *)
(* a move the ring has it.                                                 *)
LEMMA RecencyIs == IndInv /\ LruInv => RecencyOK
<1>. SUFFICES ASSUME IndInv, LruInv, NEW o, IsOrder(o) PROVE Recency = KeysOf(entry, o)
  BY Zenon DEF RecencyOK
<1>. DEFINE first == CHOOSE e \in Moving : TRUE
            all == IF Moving = {} THEN Walk ELSE <<first>> \o RemoveFirst(Walk, first)
<1>1. Recency = [i \in DOMAIN all |-> entry[all[i]].key]
  BY Zenon DEF Recency
<1>2. all = o
  <2>1. CASE readers = {}
    <3>1. Moving = {}
      BY <2>1, Zenon DEF Moving
    <3>2. Simple(o) /\ NextRing(next, o)
      BY <2>1, Zenon DEF IsOrder, Ring, links
    <3>. QED  BY <3>1, <3>2, WalkIs, Zenon
  <2>2. CASE readers # {}
    <3>1. PICK t \in readers : TRUE
      BY <2>2, Zenon
    <3>2. readers \subseteq Threads /\ stmt \in [Threads -> 1 .. 6]
      BY Zenon DEF IndInv, TypeOK
    <3>3. \A u \in readers : u = t
      BY <3>1, <3>2, Zenon DEF LruInv, UseInv, OneGetter
    <3>4. Moving = {elem[t]}
      BY <3>1, <3>3, Zenon DEF Moving
    <3>5. first = elem[t]
      BY <3>4, Zenon
    <3>6. PICK p, k : MovesAt(t, p, k) /\ o = Fronted(p, k)
      BY <3>1, Zenon DEF IsOrder
    <3>. DEFINE e == elem[t]
                q == RemoveAt(p, k)
                s == stmt[t]
    <3>7. Simple(p) /\ k \in 1 .. Len(p) /\ p[k] = e /\ Stage(s, links, p, k) /\ o = <<e>> \o q /\ s \in 1 .. 6
      BY <3>1, <3>2, <3>6, Zenon DEF MovesAt, Fronted
    <3>8. Simple(q) /\ e \notin Range(q) /\ e \in Elements
      <4>1. p[k] \in Elements
        BY <3>7, AtFacts, Zenon
      <4>2. Simple(q) /\ Range(q) = Range(p) \ {p[k]}
        BY <3>7, CutFacts, Zenon
      <4>. QED  BY <3>7, <4>1, <4>2, Zenon
    <3>9. /\ s = 1 => NextRing(next, p)
          /\ s \in 2 .. 5 => NextRing(next, q)
          /\ s = 6 => NextRing(next, <<e>> \o q)
      BY <3>7 DEF Stage, links
    <3>. HIDE DEF first, e, q, s
    <3>10. RemoveFirst(Walk, e) = q
      <4>1. CASE s = 1
        <5>1. Walk = p
          BY <3>7, <3>9, <4>1, WalkIs, Zenon
        <5>2. RemoveFirst(p, p[k]) = q
          BY <3>7, RemoveFirstIs, Zenon DEF q
        <5>. QED  BY <3>7, <5>1, <5>2, Zenon
      <4>2. CASE s \in 2 .. 5
        <5>1. Walk = q
          BY <3>8, <3>9, <4>2, WalkIs, Zenon
        <5>. QED  BY <3>8, <5>1, RemoveAbsent, Zenon
      <4>3. CASE s = 6
        <5>1. Simple(<<e>> \o q)
          BY <3>8, ConsFacts, Zenon
        <5>2. Walk = <<e>> \o q
          BY <3>9, <4>3, <5>1, WalkIs
        <5>. QED  BY <3>8, <5>2, RemoveFront, Zenon
      <4>4. s = 1 \/ s \in 2 .. 5 \/ s = 6
        BY <3>7
      <4>. QED  BY <4>1, <4>2, <4>3, <4>4, Zenon
    <3>11. Moving # {} /\ first = e
      BY <3>4, <3>5, Zenon DEF e
    <3>12. all = <<first>> \o RemoveFirst(Walk, first)
      BY <3>11, Zenon
    <3>. QED  BY <3>7, <3>10, <3>11, <3>12
  <2>. QED  BY <2>1, <2>2, Zenon
<1>. HIDE DEF all
<1>3. DOMAIN o = 1 .. Len(o)
  BY DEF IsOrder, Simple
<1>. QED  BY <1>1, <1>2, <1>3, Zenon DEF KeysOf
-----------------------------------------------------------------------------
(* A function on the numbers up to n is a sequence.                        *)
LEMMA FunctionIsList ==
  ASSUME NEW K, NEW n \in Nat, NEW u \in [1 .. n -> K]
  PROVE  u \in Seq(K) /\ Len(u) = n
OBVIOUS

(* The keys in the order of their elements, each of them once.             *)
LEMMA KeysFacts ==
  ASSUME IndInv, UseInv, NEW o, IsOrder(o)
  PROVE  LET R == KeysOf(entry, o)
         IN  /\ o \in Seq(Elements) /\ Len(o) \in Nat /\ R \in Seq(Keys) /\ Len(R) = Len(o) /\ DOMAIN R = 1 .. Len(o)
             /\ \A i \in 1 .. Len(o) : R[i] = entry[o[i]].key /\ o[i] \in inList /\ items[R[i]] = o[i]
             /\ \A i, j \in 1 .. Len(o) : R[i] = R[j] => i = j
<1>. DEFINE R == KeysOf(entry, o)
            n == Len(o)
<1>1. o \in Seq(Elements) /\ n \in Nat /\ \A i, j \in 1 .. n : o[i] = o[j] => i = j
  BY DEF IsOrder, Simple
<1>2. \A i \in 1 .. n : o[i] \in inList
  BY <1>1 DEF IsOrder, Range
<1>3. \A i \in 1 .. n : entry[o[i]].key \in Keys
  BY <1>2, UseFacts, Zenon
<1>4. R \in [1 .. n -> Keys] /\ \A i \in 1 .. n : R[i] = entry[o[i]].key
  BY <1>3, Zenon DEF KeysOf
<1>. HIDE DEF R
<1>5. R \in Seq(Keys) /\ Len(R) = n /\ DOMAIN R = 1 .. n
  BY <1>1, <1>4, FunctionIsList, Zenon
<1>6. \A i \in 1 .. n : items[R[i]] = o[i]
  BY <1>2, <1>4, Zenon DEF UseInv
<1>. QED  BY <1>1, <1>2, <1>4, <1>5, <1>6, SMTT(30) DEF R

(* Two lists of keys are the same when they agree place by place.          *)
LEMMA SameKeys ==
  ASSUME NEW u \in Seq(Keys), NEW v \in Seq(Keys), Len(u) = Len(v), \A i \in 1 .. Len(v) : u[i] = v[i]
  PROVE  u = v
OBVIOUS

(* The keys of elements whose entries keep theirs.                         *)
LEMMA KeysKept ==
  ASSUME NEW o, Simple(o), NEW en, NEW fn, \A e \in Range(o) : en[e].key = fn[e].key
  PROVE  KeysOf(en, o) = KeysOf(fn, o)
<1>1. \A i \in 1 .. Len(o) : o[i] \in Range(o)
  BY DEF Range, Simple
<1>. QED  BY <1>1, Zenon DEF KeysOf

(* The abstract order without, and with in front, the key of an element.   *)
LEMMA WithoutIs ==
  ASSUME IndInv, UseInv, NEW o, IsOrder(o), RecencyOK, NEW j \in 1 .. Len(o)
  PROVE  LET k == entry[o[j]].key
         IN  /\ LRU!Cached(k) /\ Len(Recency) = Len(o)
             /\ LRU!Without(k) = KeysOf(entry, RemoveAt(o, j))
             /\ LRU!ToFront(k) = KeysOf(entry, Fronted(o, j))
<1>. DEFINE R == Recency
            n == Len(o)
            k == entry[o[j]].key
            q == RemoveAt(o, j)
            at == CHOOSE i \in DOMAIN R : R[i] = k
<1>1. R = KeysOf(entry, o)
  BY Zenon DEF RecencyOK
<1>2. /\ o \in Seq(Elements) /\ n \in Nat /\ R \in Seq(Keys) /\ Len(R) = n /\ DOMAIN R = 1 .. n
      /\ \A i \in 1 .. n : R[i] = entry[o[i]].key /\ o[i] \in inList
  BY <1>1, KeysFacts, Zenon
<1>3. \A h, i \in 1 .. n : R[h] = R[i] => h = i
  BY <1>1, KeysFacts, Zenon
<1>4. LRU!Cached(k) <=> \E i \in DOMAIN R : R[i] = k
  BY Zenon DEF LRU!Cached
<1>5. LRU!Without(k) = IF LRU!Cached(k) THEN RemoveAt(R, at) ELSE R
  BY Zenon DEF LRU!Without, RemoveAt
<1>6. LRU!ToFront(k) = <<k>> \o LRU!Without(k)
  BY Zenon DEF LRU!ToFront
<1>. HIDE DEF R
<1>7. R[j] = k /\ k \in Keys /\ j \in 1 .. n
  BY <1>2
<1>. HIDE DEF k, n
<1>8. at = j
  BY <1>2, <1>3, <1>7, Zenon
<1>9. LRU!Cached(k)
  BY <1>2, <1>4, <1>7, Zenon
<1>10. LRU!Without(k) = RemoveAt(R, j)
  BY <1>5, <1>8, <1>9, Zenon
<1>. HIDE DEF at
<1>11. q \in Seq(Elements) /\ Len(q) = n - 1 /\ \A i \in 1 .. n - 1 : q[i] = IF i < j THEN o[i] ELSE o[i + 1]
  BY <1>2, CutSeq, Zenon DEF n
<1>12. /\ RemoveAt(R, j) \in Seq(Keys) /\ Len(RemoveAt(R, j)) = n - 1
       /\ \A i \in 1 .. n - 1 : RemoveAt(R, j)[i] = IF i < j THEN R[i] ELSE R[i + 1]
  <2>1. j \in 1 .. Len(R)
    BY <1>2, <1>7, Zenon
  <2>. QED  BY <1>2, <2>1, CutSeq, Zenon
<1>. DEFINE S == RemoveAt(R, j)
            Q == KeysOf(entry, q)
<1>. HIDE DEF q
<1>13. \A i \in 1 .. n - 1 : Q[i] = S[i] /\ Q[i] \in Keys
  <2>. SUFFICES ASSUME NEW i \in 1 .. n - 1 PROVE Q[i] = S[i] /\ Q[i] \in Keys
    BY Zenon
  <2>1. Q[i] = entry[q[i]].key
    BY <1>11, Zenon DEF KeysOf
  <2>2. i \in 1 .. n /\ i + 1 \in 1 .. n /\ R[i] \in Keys /\ R[i + 1] \in Keys
    BY <1>2
  <2>3. CASE i < j
    BY <1>2, <1>11, <1>12, <2>1, <2>2, <2>3, SMTT(30)
  <2>4. CASE ~(i < j)
    BY <1>2, <1>11, <1>12, <2>1, <2>2, <2>4
  <2>. QED  BY <2>3, <2>4, Zenon
<1>14. Q \in Seq(Keys) /\ Len(Q) = n - 1
  <2>1. n - 1 \in Nat
    BY <1>2, <1>7
  <2>2. Q \in [1 .. n - 1 -> Keys]
    BY <1>11, <1>13, Zenon DEF KeysOf
  <2>. HIDE DEF Q
  <2>. QED  BY <2>1, <2>2, FunctionIsList, Zenon
<1>. HIDE DEF Q, S
<1>15. Q = S
  BY <1>12, <1>13, <1>14, SameKeys, Zenon DEF S
<1>. DEFINE e == o[j]
            F == KeysOf(entry, <<e>> \o q)
<1>16. e \in Elements /\ entry[e].key = k /\ Fronted(o, j) = <<e>> \o q
  BY <1>2, <1>7 DEF Fronted, q, k
<1>. HIDE DEF e
<1>17. Len(<<e>> \o q) = n /\ (<<e>> \o q)[1] = e /\ \A i \in 2 .. n : (<<e>> \o q)[i] = q[i - 1] /\ i - 1 \in 1 .. n - 1
  BY <1>2, <1>7, <1>11, <1>16, SMTT(30)
<1>18. <<k>> \o Q \in Seq(Keys) /\ Len(<<k>> \o Q) = n /\ (<<k>> \o Q)[1] = k
       /\ \A i \in 2 .. n : (<<k>> \o Q)[i] = Q[i - 1]
  BY <1>2, <1>7, <1>14
<1>19. \A i \in 1 .. n : F[i] = (<<k>> \o Q)[i]
  <2>. SUFFICES ASSUME NEW i \in 1 .. n PROVE F[i] = (<<k>> \o Q)[i]
    BY Zenon
  <2>1. F[i] = entry[(<<e>> \o q)[i]].key
    BY <1>17, Zenon DEF KeysOf
  <2>2. CASE i = 1
    BY <1>16, <1>17, <1>18, <2>1, <2>2, SMTT(30)
  <2>3. CASE i \in 2 .. n
    <3>1. Q[i - 1] = entry[q[i - 1]].key
      BY <1>11, <1>17, <2>3, Zenon DEF KeysOf, Q
    <3>. QED  BY <1>17, <1>18, <2>1, <2>3, <3>1, SMTT(30)
  <2>4. i = 1 \/ i \in 2 .. n
    BY <1>2
  <2>. QED  BY <2>2, <2>3, <2>4, Zenon
<1>20. F = [i \in 1 .. n |-> F[i]] /\ <<k>> \o Q = [i \in 1 .. n |-> (<<k>> \o Q)[i]]
  BY <1>17, <1>18 DEF KeysOf
<1>. HIDE DEF F
<1>21. F = <<k>> \o Q
  BY <1>19, <1>20, Zenon
<1>22. LRU!ToFront(k) = KeysOf(entry, Fronted(o, j))
  BY <1>6, <1>10, <1>15, <1>16, <1>21, SMTT(30) DEF F, S
<1>23. LRU!Without(k) = KeysOf(entry, RemoveAt(o, j))
  BY <1>10, <1>15, Zenon DEF Q, S, q
<1>. QED  BY <1>2, <1>9, <1>22, <1>23, Zenon DEF R, n, k

(* A key that is absent is not in the abstract order.                      *)
LEMMA NotCached ==
  ASSUME IndInv, UseInv, NEW o, IsOrder(o), RecencyOK, NEW k \in Keys, ~Present(k)
  PROVE  LRU!Without(k) = Recency /\ LRU!ToFront(k) = <<k>> \o Recency /\ Len(Recency) = Len(o) /\ Recency \in Seq(Keys)
<1>1. Recency = KeysOf(entry, o)
  BY Zenon DEF RecencyOK
<1>2. /\ DOMAIN Recency = 1 .. Len(o) /\ Len(Recency) = Len(o) /\ Recency \in Seq(Keys)
      /\ \A i \in 1 .. Len(o) : o[i] \in inList /\ items[Recency[i]] = o[i]
  BY <1>1, KeysFacts, Zenon
<1>3. \A i \in DOMAIN Recency : Recency[i] # k
  BY <1>2, UseFacts, Zenon DEF Present
<1>4. ~LRU!Cached(k)
  BY <1>3, Zenon DEF LRU!Cached
<1>5. LRU!Without(k) = Recency
  BY <1>4, Zenon DEF LRU!Without
<1>. QED  BY <1>2, <1>5, Zenon DEF LRU!ToFront
-----------------------------------------------------------------------------
(* A step of LRUCache or one it does not see.                              *)
LRUStep == LRU!Next \/ UNCHANGED LRU!vars

(* A step that keeps the order, the entries, the clock and what Set stored *)
(* is invisible.                                                           *)
LEMMA Invisible ==
  ASSUME NEW o, IsOrder(o), IsOrder(o)', RecencyOK, RecencyOK', UNCHANGED <<entry, now, latest>>
  PROVE  LRUStep
<1>1. Recency = KeysOf(entry, o) /\ Recency' = KeysOf(entry', o)
  BY Zenon DEF RecencyOK
<1>. QED  BY <1>1, Zenon DEF LRUStep, LRU!vars

(* A Get that starts to move its element is a hit of LRUCache.             *)
LEMMA GetHitRefines ==
  ASSUME IndInv, UseInv, NEW o, IsOrder(o), RecencyOK, RecencyOK', NEW t \in Getters, NEW k \in Keys, GetHit(t, k)
  PROVE  LRUStep
<1>1. PICK j \in 1 .. Len(o) : o[j] = items[k] /\ IsOrder(Fronted(o, j))'
  BY GetHitOrder, Zenon
<1>2. Present(k) /\ ~Expired(items[k], now) /\ UNCHANGED <<entry, now, latest>>
  BY Zenon DEF GetHit
<1>3. entry[o[j]].key = k
  BY <1>1, <1>2, EntryIsLatest, ZenonT(30)
<1>4. LRU!Cached(k) /\ LRU!ToFront(k) = KeysOf(entry, Fronted(o, j))
  BY <1>3, WithoutIs, Zenon
<1>5. Recency' = LRU!ToFront(k)
  BY <1>1, <1>2, <1>4, Zenon DEF RecencyOK
<1>6. now <= latest[k].expiresAt
  <2>1. now \in Int /\ ~(now > latest[k].expiresAt) /\ latest[k].expiresAt \in Int
    BY <1>2, EntryIsLatest DEF Expired, IndInv, TypeOK
  <2>. QED  BY <2>1, SMTT(30)
<1>7. LRU!Get(k)
  BY <1>2, <1>4, <1>5, <1>6, Zenon DEF LRU!Get
<1>. QED  BY <1>7, Zenon DEF LRUStep, LRU!Next

(* Set of a present key moves it to the front with its new value.          *)
LEMMA SetUpdateRefines ==
  ASSUME IndInv, UseInv, NEW o, IsOrder(o), RecencyOK, RecencyOK', NEW t \in Threads, NEW k \in Keys,
         NEW v \in Values, NEW ttl \in TTLs, SetUpdate(t, k, v, ttl)
  PROVE  LRUStep
<1>1. \A e \in inList : entry'[e].key = entry[e].key
  BY SetUpdateOrder, Zenon
<1>2. PICK j \in 1 .. Len(o) : o[j] = items[k] /\ IsOrder(Fronted(o, j))'
  BY SetUpdateOrder, Zenon
<1>3. /\ Present(k) /\ UNCHANGED now /\ inList' = inList
      /\ latest' = [latest EXCEPT ![k] = [value |-> v, expiresAt |-> now + ttl]]
  BY Zenon DEF SetUpdate
<1>4. entry[o[j]].key = k
  BY <1>2, <1>3, EntryIsLatest, Zenon
<1>5. LRU!Cached(k) /\ LRU!ToFront(k) = KeysOf(entry, Fronted(o, j))
  BY <1>4, WithoutIs, Zenon
<1>6. Recency' = KeysOf(entry', Fronted(o, j))
  BY <1>2, Zenon DEF RecencyOK
<1>7. Simple(Fronted(o, j)) /\ Range(Fronted(o, j)) = inList
  BY <1>2, <1>3, Zenon DEF IsOrder
<1>8. KeysOf(entry', Fronted(o, j)) = KeysOf(entry, Fronted(o, j))
  BY <1>1, <1>7, KeysKept, ZenonT(30)
<1>9. LRU!Set(k, v, ttl)
  BY <1>3, <1>5, <1>6, <1>8, SMTT(30) DEF LRU!Set
<1>. QED  BY <1>9, Zenon DEF LRUStep, LRU!Next

(* removeElement takes the key of the element out of the order.            *)
LEMMA RemoveRefines ==
  ASSUME IndInv, UseInv, NEW o, IsOrder(o), RecencyOK, RecencyOK', readers = {}, NEW e \in inList, RemoveElement(e),
         UNCHANGED <<now, readers, pc, stmt, elem, reg, arg, janitor>>
  PROVE  LRU!Cached(entry[e].key) /\ Recency' = LRU!Without(entry[e].key)
<1>1. \A x \in inList' : entry'[x].key = entry[x].key
  BY RemoveOrder, Zenon
<1>2. PICK j \in 1 .. Len(o) : o[j] = e /\ IsOrder(RemoveAt(o, j))'
  BY RemoveOrder, Zenon
<1>3. LRU!Cached(entry[e].key) /\ LRU!Without(entry[e].key) = KeysOf(entry, RemoveAt(o, j))
  BY <1>2, WithoutIs, Zenon
<1>4. Recency' = KeysOf(entry', RemoveAt(o, j)) /\ Simple(RemoveAt(o, j)) /\ Range(RemoveAt(o, j)) = inList'
  BY <1>2, Zenon DEF RecencyOK, IsOrder
<1>5. KeysOf(entry', RemoveAt(o, j)) = KeysOf(entry, RemoveAt(o, j))
  BY <1>1, <1>4, KeysKept, Zenon
<1>. QED  BY <1>3, <1>4, <1>5, Zenon

(* Delete takes the key out of the order.                                  *)
LEMMA DeleteRefines ==
  ASSUME IndInv, UseInv, NEW o, IsOrder(o), RecencyOK, RecencyOK', NEW t \in Threads, NEW k \in Keys, Delete(t, k)
  PROVE  LRUStep
<1>1. /\ readers = {} /\ UNCHANGED <<now, readers, pc, stmt, elem, reg, arg, janitor>>
      /\ latest' = [latest EXCEPT ![k] = Nil]
  BY Zenon DEF Delete, Unlocked, threadVars
<1>2. CASE Present(k)
  <2>1. items[k] \in inList /\ entry[items[k]].key = k /\ RemoveElement(items[k])
    BY <1>2, EntryIsLatest, Zenon DEF Delete
  <2>2. Recency' = LRU!Without(k)
    BY <1>1, <2>1, RemoveRefines, Zenon
  <2>3. LRU!Delete(k)
    BY <1>1, <2>2, Zenon DEF LRU!Delete
  <2>. QED  BY <2>3, Zenon DEF LRUStep, LRU!Next
<1>3. CASE ~Present(k)
  <2>1. UNCHANGED <<next, prev, inList, entry>>
    BY <1>3, Zenon DEF Delete, listVars
  <2>2. IsOrder(o)'
    BY <1>1, <2>1, OrderStays, Zenon
  <2>3. Recency = KeysOf(entry, o) /\ Recency' = KeysOf(entry', o)
    BY <2>2, Zenon DEF RecencyOK
  <2>4. LRU!Without(k) = Recency
    BY <1>3, NotCached, Zenon
  <2>5. LRU!Delete(k)
    BY <1>1, <2>1, <2>3, <2>4, SMTT(30) DEF LRU!Delete
  <2>. QED  BY <2>5, Zenon DEF LRUStep, LRU!Next
<1>. QED  BY <1>2, <1>3, Zenon

(* removeExpired takes keys out that have expired.                         *)
LEMMA JanitorRemoveRefines ==
  ASSUME IndInv, UseInv, NEW o, IsOrder(o), RecencyOK, RecencyOK', NEW k \in Keys, JanitorRemove(k)
  PROVE  LRUStep
<1>1. UNCHANGED <<now, readers, pc, stmt, elem, reg, arg, janitor, latest>> /\ RemoveElement(items[k])
  BY Zenon DEF JanitorRemove, threadVars
<1>2. readers = {}
  BY CacheAssumption, Zenon DEF JanitorRemove, IndInv, LockInv
<1>3. Present(k) /\ Expired(items[k], janitor.now)
  BY Zenon DEF JanitorRemove
<1>4. items[k] \in inList /\ entry[items[k]].key = k
  BY <1>3, EntryIsLatest, Zenon
<1>5. Recency' = LRU!Without(k) /\ LRU!Cached(k)
  BY <1>1, <1>2, <1>4, RemoveRefines, ZenonT(30)
<1>6. now > latest[k].expiresAt
  <2>1. janitor.now > latest[k].expiresAt /\ latest[k].expiresAt \in Int
    BY <1>3, EntryIsLatest, Zenon DEF Expired
  <2>2. janitor.now \in Nat /\ now \in Nat /\ janitor.now <= now
    BY Zenon DEF IndInv, TypeOK, UseInv
  <2>. QED  BY <2>1, <2>2
<1>7. LRU!Expire(k)
  BY <1>1, <1>5, <1>6, Zenon DEF LRU!Expire
<1>. QED  BY <1>7, Zenon DEF LRUStep, LRU!Next

(* The loop of Set evicts the least recently used entry of a full cache.   *)
LEMMA SetEvictRefines ==
  ASSUME IndInv, UseInv, NEW o, IsOrder(o), RecencyOK, RecencyOK', NEW t \in Threads, SetEvict(t)
  PROVE  LRUStep
<1>1. readers = {} /\ UNCHANGED <<now, readers, pc, stmt, elem, reg, arg, janitor, latest>>
  BY SetEvictOrder, Zenon
<1>2. CASE UNCHANGED entry /\ UseInv' /\ IsOrder(o)'
  BY <1>1, <1>2, Invisible, Zenon
<1>3. CASE /\ Len(o) = MaxEntries /\ Len(o) \in 1 .. Len(o)
           /\ o[Len(o)] \in inList /\ RemoveElement(o[Len(o)])
  <2>. DEFINE n == Len(o)
              R == Recency
  <2>1. R' = LRU!Without(entry[o[n]].key)
    BY <1>1, <1>3, RemoveRefines, Zenon
  <2>2. LRU!Without(entry[o[n]].key) = KeysOf(entry, RemoveAt(o, n)) /\ Len(R) = n
    BY <1>3, WithoutIs, Zenon
  <2>3. /\ o \in Seq(Elements) /\ R \in Seq(Keys) /\ R = KeysOf(entry, o) /\ n \in Nat
        /\ \A i \in 1 .. n : R[i] = entry[o[i]].key
    <3>1. R = KeysOf(entry, o)
      BY Zenon DEF RecencyOK
    <3>. QED  BY <3>1, KeysFacts, Zenon
  <2>4. /\ Len(RemoveAt(o, n)) = n - 1
        /\ \A i \in 1 .. n - 1 : RemoveAt(o, n)[i] = o[i]
    <3>1. /\ Len(RemoveAt(o, n)) = n - 1
          /\ \A i \in 1 .. n - 1 : RemoveAt(o, n)[i] = IF i < n THEN o[i] ELSE o[i + 1]
      BY <1>3, <2>3, CutSeq, ZenonT(30)
    <3>. QED  BY <2>3, <3>1
  <2>. HIDE DEF n, R
  <2>5. KeysOf(entry, RemoveAt(o, n)) = [i \in 1 .. n - 1 |-> R[i]]
    BY <2>3, <2>4, SMTT(30) DEF KeysOf
  <2>6. SubSeq(R, 1, Len(R) - 1) = [i \in 1 .. n - 1 |-> R[i]]
    BY <2>2, <2>3
  <2>7. LRU!Evict
    BY <1>1, <1>3, <2>1, <2>2, <2>5, <2>6, ZenonT(30) DEF LRU!Evict, R, n
  <2>. QED  BY <2>7, Zenon DEF LRUStep, LRU!Next
<1>. QED  BY <1>2, <1>3, SetEvictOrder, SMTT(30)

(* Set of an absent key puts it in front of the others.                    *)
LEMMA SetInsertRefines ==
  ASSUME IndInv, UseInv, NEW o, IsOrder(o), RecencyOK, RecencyOK', NEW t \in Threads, SetInsert(t)
  PROVE  LRUStep
<1>. DEFINE c == arg[t]
<1>1. readers = {} /\ ~Present(c.key) /\ c \in Call /\ \A x \in inList : entry'[x] = entry[x]
  BY SetInsertOrder, Zenon
<1>2. PICK e \in Elements \ inList : entry'[e].key = c.key /\ IsOrder(<<e>> \o o)'
  BY SetInsertOrder, Zenon
<1>3. /\ len < MaxEntries /\ now' = now
      /\ latest' = [latest EXCEPT ![c.key] = [value |-> c.value, expiresAt |-> now + c.ttl]]
  BY Zenon DEF SetInsert
<1>4. c.key \in Keys /\ c.value \in Values /\ c.ttl \in TTLs
  BY <1>1, Zenon DEF Call
<1>. HIDE DEF c
<1>5. Recency' = KeysOf(entry', <<e>> \o o) /\ Recency = KeysOf(entry, o)
  BY <1>2, Zenon DEF RecencyOK
<1>6. LRU!ToFront(c.key) = <<c.key>> \o Recency /\ Len(Recency) = Len(o) /\ Recency \in Seq(Keys)
  BY <1>1, <1>4, NotCached, Zenon
<1>7. /\ o \in Seq(Elements) /\ Len(o) \in Nat
      /\ \A i \in 1 .. Len(o) : Recency[i] = entry[o[i]].key /\ o[i] \in inList
  BY <1>5, KeysFacts, Zenon
<1>8. Len(o) = len
  BY SimpleCard, Zenon DEF IsOrder, IndInv, LenInv
<1>9. Recency' = <<c.key>> \o Recency
  <2>. DEFINE n == Len(o)
              r == <<e>> \o o
              R == Recency
  <2>1. /\ Len(r) = n + 1 /\ r[1] = e /\ \A i \in 2 .. n + 1 : r[i] = o[i - 1] /\ i - 1 \in 1 .. n
    BY <1>7
  <2>. HIDE DEF r, n, R
  <2>2. R \in Seq(Keys) /\ Len(R) = n /\ n \in Nat /\ \A i \in 1 .. n : R[i] = entry[o[i]].key /\ o[i] \in inList
    BY <1>6, <1>7, Zenon DEF n, R
  <2>3. <<c.key>> \o R = [i \in 1 .. n + 1 |-> IF i = 1 THEN c.key ELSE R[i - 1]]
    BY <1>4, <2>2
  <2>4. KeysOf(entry', r) = [i \in 1 .. n + 1 |-> entry'[r[i]].key]
    BY <2>1, Zenon DEF KeysOf
  <2>5. ASSUME NEW i \in 1 .. n + 1 PROVE entry'[r[i]].key = IF i = 1 THEN c.key ELSE R[i - 1]
    <3>1. CASE i = 1
      BY <1>2, <2>1, <3>1, SMTT(30)
    <3>2. CASE i # 1
      <4>1. i \in 2 .. n + 1 /\ i - 1 \in 1 .. n
        BY <2>2, <3>2, SMTT(30)
      <4>. QED  BY <1>1, <2>1, <2>2, <3>2, <4>1, SMTT(30)
    <3>. QED  BY <3>1, <3>2, SMTT(30)
  <2>6. KeysOf(entry', r) = <<c.key>> \o R
    BY <2>3, <2>4, <2>5
  <2>. QED  BY <1>5, <2>6, Zenon DEF r, R
<1>10. LRU!Set(c.key, c.value, c.ttl)
  BY <1>3, <1>6, <1>8, <1>9 DEF LRU!Set
<1>. QED  BY <1>4, <1>10, Zenon DEF LRUStep, LRU!Next

(* ... which LRUCache has too.                                             *)
LEMMA TickRefines ==
  ASSUME IndInv, UseInv, NEW o, IsOrder(o), RecencyOK, RecencyOK', Tick
  PROVE  LRUStep
<1>1. now < Horizon /\ now' = now + 1 /\ UNCHANGED <<entry, latest>>
  BY Zenon DEF Tick
<1>2. Recency = KeysOf(entry, o) /\ Recency' = KeysOf(entry', o)
  BY TickOrder, Zenon DEF RecencyOK
<1>3. LRU!Tick
  BY <1>1, <1>2, SMTT(30) DEF LRU!Tick
<1>. QED  BY <1>3, Zenon DEF LRUStep, LRU!Next

(* Every operation acts on that order as LRUCache does.                    *)
LEMMA LruRefines == IndInv /\ LruInv /\ RecencyOK /\ RecencyOK' /\ [Next]_vars => [LRU!Next]_(LRU!vars)
<1>. SUFFICES ASSUME IndInv, LruInv, RecencyOK, RecencyOK', [Next]_vars PROVE LRUStep
  BY Zenon DEF LRUStep
<1>1. UseInv
  BY Zenon DEF LruInv
<1>2. PICK o : IsOrder(o)
  BY Zenon DEF LruInv
<1>3. CASE Quiet
  BY <1>1, <1>2, <1>3, QuietOrder, Invisible, SMTT(30)
<1>4. CASE Tick
  BY <1>1, <1>2, <1>4, TickRefines, SMTT(30)
<1>5. ASSUME NEW t \in Getters, NEW k \in Keys, GetHit(t, k) PROVE LRUStep
  BY <1>1, <1>2, <1>5, GetHitRefines, SMTT(30)
<1>6. ASSUME NEW t \in Threads, MoveLoad(t) \/ MoveStore(t) PROVE LRUStep
  <2>1. IsOrder(o)'
    BY <1>1, <1>2, <1>6, MoveLoadOrder, MoveStoreOrder, SMTT(30)
  <2>2. UNCHANGED <<entry, now, latest>>
    BY <1>6 DEF MoveLoad, MoveStore
  <2>. QED  BY <1>2, <2>1, <2>2, Invisible, SMTT(30)
<1>7. ASSUME NEW t \in Threads, SetEvict(t) PROVE LRUStep
  BY <1>1, <1>2, <1>7, SetEvictRefines, SMTT(30)
<1>8. ASSUME NEW t \in Threads, SetInsert(t) PROVE LRUStep
  BY <1>1, <1>2, <1>8, SetInsertRefines, SMTT(30)
<1>9. ASSUME NEW t \in Threads, NEW k \in Keys, NEW v \in Values, NEW ttl \in TTLs, SetUpdate(t, k, v, ttl)
      PROVE  LRUStep
  BY <1>1, <1>2, <1>9, SetUpdateRefines, SMTT(30)
<1>10. ASSUME NEW k \in Keys, JanitorRemove(k) PROVE LRUStep
  BY <1>1, <1>2, <1>10, JanitorRemoveRefines, Zenon
<1>11. ASSUME NEW k \in Keys, NEW t \in Threads, Delete(t, k) PROVE LRUStep
  BY <1>1, <1>2, <1>11, DeleteRefines, SMTT(30)
<1>. QED  BY <1>3, <1>4, <1>5, <1>6, <1>7, <1>8, <1>9, <1>10, <1>11, StepKinds, SMTT(30)

(* With one goroutine that calls Get the cache implements LRUCache: Get,   *)
(* Set, Delete, evictOldest and removeExpired act on the order of use as   *)
(* the tests describe it, and each assignment of list.move is a stutter.   *)
THEOREM ImplementsLRUHolds == OneGetter /\ Spec => ImplementsLRU
<1>1. IndInv /\ LruInv => RecencyOK
  BY RecencyIs, Zenon
<1>2. OneGetter /\ Init /\ IndInv => LRU!Init
  <2>. SUFFICES ASSUME OneGetter, Init, IndInv PROVE LRU!Init
    BY Zenon
  <2>1. LruInv
    BY LruInit, Zenon
  <2>2. PICK o : IsOrder(o)
    BY <2>1 DEF LruInv
  <2>3. Range(o) = {} /\ Simple(o)
    BY <2>2, Zenon DEF IsOrder, Init
  <2>4. Len(o) = 0
    <3>1. Len(o) \in Nat /\ \A i \in 1 .. Len(o) : o[i] \in Range(o)
      BY <2>3, AtFacts, SMTT(30) DEF Simple, Range
    <3>. QED  BY <2>3, <3>1, SMTT(30)
  <2>5. Recency = KeysOf(entry, o)
    BY <1>1, <2>1, <2>2, Zenon DEF RecencyOK
  <2>6. KeysOf(entry, o) = <<>>
    BY <2>4 DEF KeysOf
  <2>. QED  BY <2>5, <2>6 DEF LRU!Init, Init
<1>3. IndInv /\ LruInv /\ RecencyOK /\ RecencyOK' /\ [Next]_vars => [LRU!Next]_(LRU!vars)
  BY LruRefines, Zenon
<1>. QED  BY <1>1, <1>2, <1>3, LruInvariant, PTL DEF Spec, ImplementsLRU, LRU!Spec
=============================================================================
