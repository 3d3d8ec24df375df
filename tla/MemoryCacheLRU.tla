--------------------------- MODULE MemoryCacheLRU ---------------------------
(***************************************************************************)
(* The ring of MemoryCache read as a recency order, and the cache shown to *)
(* implement LRUCache under that reading.                                  *)
(***************************************************************************)
EXTENDS MemoryCache, Sequences, Functions

(* The nodes met when the ring is followed from the sentinel; Nil after    *)
(* the way has come back to it.                                            *)
Visit[i \in 0 .. Cardinality(Elements)] ==
  IF i = 0 THEN next[Root]
  ELSE IF Visit[i - 1] \in Elements THEN next[Visit[i - 1]] ELSE Nil

Walk ==
  LET n == Cardinality({i \in DOMAIN Visit : Visit[i] \in Elements})
  IN  [i \in 1 .. n |-> Visit[i - 1]]

(* A Get has used its entry once it has looked it up: while list.move is   *)
(* under way the element is already the most recent one.                   *)
Moving == {elem[t] : t \in readers}

RemoveAt(s, i) == SubSeq(s, 1, i - 1) \o SubSeq(s, i + 1, Len(s))

(* s without x, which it has once at most.                                 *)
RemoveFirst(s, x) ==
  IF x \in Range(s) THEN RemoveAt(s, CHOOSE i \in DOMAIN s : s[i] = x) ELSE s

Recency ==
  LET e   == CHOOSE e \in Moving : TRUE
      all == IF Moving = {} THEN Walk ELSE <<e>> \o RemoveFirst(Walk, e)
  IN  [i \in DOMAIN all |-> entry[all[i]].key]

(* One goroutine at most calls Get: its list.move has the ring to itself.  *)
OneGetter == \A t, u \in Getters : t = u

(* Outside a move the ring visits the element of every cached key exactly  *)
(* once, forwards and backwards, and l.len counts them.                    *)
RingMatchesMap ==
  readers = {} =>
    /\ Range(Walk) = {items[k] : k \in {j \in Keys : Present(j)}}
    /\ Len(Walk) = Cardinality(Range(Walk)) /\ Len(Walk) = len
    /\ \A n \in inList \cup {Root} : next[prev[n]] = n /\ prev[next[n]] = n

LRU == INSTANCE LRUCache WITH order <- Recency

(* With one Get at a time the cache is the LRU cache its tests describe:   *)
(* an unexpired entry is lost only to Delete or, when the cache is full,   *)
(* as the least recently used one.                                         *)
ImplementsLRU == LRU!Spec
=============================================================================
