------------------------------ MODULE LRUCache ------------------------------
(***************************************************************************)
(* What the in-memory cache promises to its callers: a bounded map with    *)
(* expiry that forgets an entry only when it is deleted, when it has       *)
(* expired, or when it is the least recently used one of a full cache.     *)
(***************************************************************************)
EXTENDS Integers, Sequences

CONSTANTS Keys, Values, TTLs, MaxEntries, Horizon, Nil

VARIABLES
  now,
  latest,  \* what the last Set of a key stored, Nil after Delete
  order    \* the keys that are cached, most recently used first

vars == <<now, latest, order>>

Cached(k) == \E i \in DOMAIN order : order[i] = k

(* Every key is in the order once at most. *)
Without(k) ==
  LET i == CHOOSE i \in DOMAIN order : order[i] = k
  IN  IF Cached(k) THEN SubSeq(order, 1, i - 1) \o SubSeq(order, i + 1, Len(order)) ELSE order

ToFront(k) == <<k>> \o Without(k)

Init == now = 0 /\ latest = [k \in Keys |-> Nil] /\ order = <<>>

(* A hit: the entry has not expired; it becomes the most recently used. *)
Get(k) ==
  /\ Cached(k) /\ now <= latest[k].expiresAt
  /\ order' = ToFront(k)
  /\ UNCHANGED <<now, latest>>

Set(k, v, ttl) ==
  /\ Cached(k) \/ Len(order) < MaxEntries
  /\ latest' = [latest EXCEPT ![k] = [value |-> v, expiresAt |-> now + ttl]]
  /\ order' = ToFront(k)
  /\ UNCHANGED now

Evict ==
  /\ Len(order) = MaxEntries
  /\ order' = SubSeq(order, 1, Len(order) - 1)
  /\ UNCHANGED <<now, latest>>

Delete(k) ==
  /\ latest' = [latest EXCEPT ![k] = Nil]
  /\ order' = Without(k)
  /\ UNCHANGED now

Expire(k) ==
  /\ Cached(k) /\ now > latest[k].expiresAt
  /\ order' = Without(k)
  /\ UNCHANGED <<now, latest>>

Tick == now < Horizon /\ now' = now + 1 /\ UNCHANGED <<latest, order>>

Next ==
  \/ \E k \in Keys : Get(k) \/ Delete(k) \/ Expire(k)
  \/ \E k \in Keys, v \in Values, ttl \in TTLs : Set(k, v, ttl)
  \/ Evict \/ Tick

Spec == Init /\ [][Next]_vars
=============================================================================
