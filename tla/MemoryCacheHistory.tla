------------------------- MODULE MemoryCacheHistory -------------------------
(***************************************************************************)
(* MemoryCache with a history variable that records which keys were used   *)
(* since the last Set, to state what the tests of cache/memory.go say      *)
(* about the order of eviction.                                            *)
(***************************************************************************)
EXTENDS MemoryCache

VARIABLE touched  \* history: the keys used since the last Set, its own included

hvars == <<vars, touched>>

Uses(k) == touched' = touched \cup {k}

HNext ==
  \/ \E t \in Getters, k \in Keys : (GetFront(t, k) \/ GetHit(t, k)) /\ Uses(k)
  \/ \E t \in Threads, k \in Keys, v \in Values, ttl \in TTLs :
        SetUpdate(t, k, v, ttl) /\ touched' = {k}
  \/ \E t \in Threads : SetInsert(t) /\ touched' = {arg[t].key}
  \/ /\ \/ \E t \in Threads : GetStep(t) \/ SetEvict(t) \/ SetFail(t)
        \/ \E t \in Threads, k \in Keys, v \in Values, ttl \in TTLs :
              SetBegin(t, k, v, ttl)
        \/ \E t \in Threads, k \in Keys : Delete(t, k)
        \/ JanitorTick \/ JanitorScan \/ Tick
     /\ UNCHANGED touched

HSpec == Init /\ touched = {} /\ [][HNext]_hvars

(* TestMemory_EvictionRespectsAccess: an entry used by a Get or Set since  *)
(* the last Set is not evicted while an entry that was not used remains.   *)
EvictionRespectsAccess ==
  [][\A t \in Threads, k \in Keys :
       /\ pc[t] = "evict" /\ Present(k) /\ items'[k] = Nil /\ k \in touched
       => \A j \in Keys : Present(j) => j \in touched]_hvars
=============================================================================
