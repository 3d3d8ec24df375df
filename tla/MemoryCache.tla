---------------------------- MODULE MemoryCache ----------------------------
(***************************************************************************)
(* The in-process cache of cache/memory.go: a map from keys to the         *)
(* elements of a container/list ring, guarded by a sync.RWMutex, with a    *)
(* background goroutine that removes expired entries.                      *)
(*                                                                         *)
(* Get holds only the read lock, yet it calls evictList.MoveToFront, which *)
(* writes list pointers: two concurrent Gets race on the ring.  The ring   *)
(* is therefore modelled pointer by pointer, and a Get performs the six    *)
(* assignments of list.move as separate loads and stores.  Everything done *)
(* under the exclusive lock is atomic, except the eviction loop of Set and *)
(* the scan of removeExpired, which take one step per iteration.           *)
(***************************************************************************)
EXTENDS Integers, FiniteSets

CONSTANTS
  Threads,     \* goroutines that call the cache
  Getters,     \* those of them that call Get
  Closers,     \* those of them that may call Close
  Keys, Values,
  TTLs,        \* the ttl arguments of Set, in clock units
  MaxEntries,  \* maxSize
  Elements,    \* heap cells the list elements are allocated from
  Root,        \* the sentinel &l.root of the ring
  Janitor,     \* the goroutine running cleanup()
  Nil,
  Horizon      \* bound: the clock stops here

ASSUME CacheAssumption ==
  /\ Getters \subseteq Threads /\ Closers \subseteq Threads
  /\ Janitor \notin Threads
  /\ Nil \notin Threads \cup {Janitor}
  /\ Nil \notin Elements \cup {Root}
  /\ Nil \notin [key : Keys, value : Values, expiresAt : Int]
  /\ Nil \notin [value : Values, expiresAt : Int]
  /\ Root \notin Elements
  /\ IsFiniteSet(Elements)
  /\ TTLs \subseteq Int
  /\ MaxEntries \in Nat
  /\ Horizon \in Nat

VARIABLES
  now,      \* the wall clock
  readers,  \* holders of mu.RLock
  writer,   \* holder of mu.Lock, or Nil
  items,    \* key -> element, Nil when absent
  next, prev, \* the links of the ring
  inList,   \* elements whose list field is l
  len,      \* l.len
  entry,    \* the memoryEntry an element points to
  pc,       \* where a caller is
  stmt,     \* the assignment of list.move a Get is at
  elem,     \* the element a Get is moving
  reg,      \* the operands a Get has loaded: <<target, source>>
  arg,      \* the arguments of a Set that is evicting
  janitor,  \* where cleanup() is, and the time removeExpired read
  stopped,  \* stopCh is closed
  latest    \* history: what the last Set of a key stored, Nil after Delete

vars == <<now, readers, writer, items, next, prev, inList, len, entry, pc,
          stmt, elem, reg, arg, janitor, stopped, latest>>

listVars   == <<next, prev, inList, len>>
threadVars == <<pc, stmt, elem, reg, arg>>

Node  == Elements \cup {Root}
Entry == [key : Keys, value : Values, expiresAt : Int]
Call  == [key : Keys, value : Values, ttl : TTLs]

Present(k) == items[k] # Nil
-----------------------------------------------------------------------------
(* container/list, on a pair of link functions l = [next, prev].           *)

(* The six assignments of list.move(e, &l.root), as "target.field = source". *)
Target(s, e, l) == CASE s \in {1, 5} -> l.prev[e]
                     [] s \in {2, 6} -> l.next[e]
                     [] s \in {3, 4} -> e

Source(s, e, l) == CASE s = 1 -> l.next[e]
                     [] s = 2 -> l.prev[e]
                     [] s = 3 -> Root
                     [] s = 4 -> l.next[Root]
                     [] s \in {5, 6} -> e

Assign(s, target, source, l) ==
  IF s \in {1, 4, 5}
  THEN [l EXCEPT !.next[target] = source]
  ELSE [l EXCEPT !.prev[target] = source]

Exec(s, e, l) == Assign(s, Target(s, e, l), Source(s, e, l), l)

MoveToFront(e, l) ==
  IF e \notin inList \/ l.next[Root] = e
  THEN l
  ELSE Exec(6, e, Exec(5, e, Exec(4, e, Exec(3, e, Exec(2, e, Exec(1, e, l))))))

(* PushFront: insert(e, &l.root). *)
PushFront(e, l) ==
  LET first == l.next[Root]
      own   == [next |-> [l.next EXCEPT ![e] = first],
                prev |-> [l.prev EXCEPT ![e] = Root]]
  IN  [next |-> [own.next EXCEPT ![Root] = e],
       prev |-> [own.prev EXCEPT ![first] = e]]

(* remove(e): unlink e and clear its own links. *)
Unlink(e, l) ==
  LET nxt == [l.next EXCEPT ![l.prev[e]] = l.next[e]]
      prv == [l.prev EXCEPT ![nxt[e]] = l.prev[e]]
  IN  [next |-> [nxt EXCEPT ![e] = Nil], prev |-> [prv EXCEPT ![e] = Nil]]

links == [next |-> next, prev |-> prev]

SetLinks(l) == next' = l.next /\ prev' = l.prev

(* Fault: evictOldest asks for Front. *)
BackIsFront == IF len = 0 THEN Nil ELSE next[Root]

Back == IF len = 0 THEN Nil ELSE prev[Root]

Linked(e, nxt, prv) == \E n \in Node : nxt[n] = e \/ prv[n] = e

(* Cells the program can no longer reach may be allocated again. *)
Fresh == {e \in Elements : /\ e \notin inList
                           /\ \A k \in Keys : items[k] # e
                           /\ ~Linked(e, next, prev)}
-----------------------------------------------------------------------------
Init ==
  /\ now = 0
  /\ readers = {} /\ writer = Nil
  /\ items = [k \in Keys |-> Nil]
  /\ next = [n \in Node |-> IF n = Root THEN Root ELSE Nil]
  /\ prev = [n \in Node |-> IF n = Root THEN Root ELSE Nil]
  /\ inList = {} /\ len = 0
  /\ entry = [e \in Elements |-> Nil]
  /\ pc = [t \in Threads |-> "idle"]
  /\ stmt = [t \in Threads |-> 1]
  /\ elem = [t \in Threads |-> Nil]
  /\ reg = [t \in Threads |-> <<Nil, Nil>>]
  /\ arg = [t \in Threads |-> Nil]
  /\ janitor = [at |-> "select", now |-> 0]
  /\ stopped = FALSE
  /\ latest = [k \in Keys |-> Nil]

Expired(e, t) == t > entry[e].expiresAt

(* Fault: the key stays in the map. *)
RemoveElementKeepsKey(e) ==
  /\ IF e \in inList
     THEN /\ SetLinks(Unlink(e, links))
          /\ inList' = inList \ {e}
          /\ len' = len - 1
     ELSE UNCHANGED listVars
  /\ UNCHANGED <<items, entry>>

(* removeElement: list.Remove(elem), then delete(m.items, entry.key).      *)
(* Remove does nothing to an element whose list field is not l.  A cell    *)
(* that nothing links to any more is garbage.                              *)
RemoveElement(e) ==
  /\ IF e \in inList
     THEN /\ SetLinks(Unlink(e, links))
          /\ inList' = inList \ {e}
          /\ len' = len - 1
     ELSE UNCHANGED listVars
  /\ items' = [items EXCEPT ![entry[e].key] = Nil]
  /\ entry' = [entry EXCEPT ![e] = IF Linked(e, next', prev') THEN @ ELSE Nil]

(* A Get that misses, or finds its element at the front already: it takes  *)
(* the read lock, writes nothing and releases it.                          *)
GetMiss(t, k) ==
  /\ pc[t] = "idle" /\ writer = Nil
  /\ IF Present(k) THEN Expired(items[k], now) ELSE TRUE
  /\ UNCHANGED vars

GetFront(t, k) ==
  /\ pc[t] = "idle" /\ writer = Nil
  /\ Present(k) /\ ~Expired(items[k], now)
  /\ items[k] \notin inList \/ next[Root] = items[k]
  /\ UNCHANGED vars

(* A Get that goes on to list.move, holding the read lock. *)
GetHit(t, k) ==
  /\ pc[t] = "idle" /\ writer = Nil
  /\ Present(k) /\ ~Expired(items[k], now)
  /\ items[k] \in inList /\ next[Root] # items[k]
  /\ readers' = readers \cup {t}
  /\ pc' = [pc EXCEPT ![t] = "load"]
  /\ stmt' = [stmt EXCEPT ![t] = 1]
  /\ elem' = [elem EXCEPT ![t] = items[k]]
  /\ UNCHANGED <<now, writer, items, listVars, entry, reg, arg, janitor,
                 stopped, latest>>

MoveLoad(t) ==
  /\ pc[t] = "load"
  /\ reg' = [reg EXCEPT ![t] = <<Target(stmt[t], elem[t], links),
                                 Source(stmt[t], elem[t], links)>>]
  /\ pc' = [pc EXCEPT ![t] = "store"]
  /\ UNCHANGED <<now, readers, writer, items, listVars, entry, stmt, elem,
                 arg, janitor, stopped, latest>>

(* After the sixth assignment Get reads entry.value and releases the lock. *)
MoveStore(t) ==
  /\ pc[t] = "store"
  /\ SetLinks(Assign(stmt[t], reg[t][1], reg[t][2], links))
  /\ reg' = [reg EXCEPT ![t] = <<Nil, Nil>>]
  /\ \/ /\ stmt[t] < 6
        /\ stmt' = [stmt EXCEPT ![t] = @ + 1]
        /\ pc' = [pc EXCEPT ![t] = "load"]
        /\ UNCHANGED <<readers, elem>>
     \/ /\ stmt[t] = 6
        /\ stmt' = [stmt EXCEPT ![t] = 1]
        /\ pc' = [pc EXCEPT ![t] = "idle"]
        /\ elem' = [elem EXCEPT ![t] = Nil]
        /\ readers' = readers \ {t}
  /\ UNCHANGED <<now, writer, items, inList, len, entry, arg, janitor,
                 stopped, latest>>

Unlocked == writer = Nil /\ readers = {}

(* Fault: only the expiry of a present key is refreshed. *)
SetUpdateKeepsValue(t, k, v, ttl) ==
  /\ pc[t] = "idle" /\ Unlocked
  /\ Present(k)
  /\ SetLinks(MoveToFront(items[k], links))
  /\ entry' = [entry EXCEPT ![items[k]].expiresAt = now + ttl]
  /\ latest' = [latest EXCEPT ![k] = [value |-> v, expiresAt |-> now + ttl]]
  /\ UNCHANGED <<now, readers, writer, items, inList, len, threadVars,
                 janitor, stopped>>

(* Set of a key that is present: move to front and overwrite. *)
SetUpdate(t, k, v, ttl) ==
  /\ pc[t] = "idle" /\ Unlocked
  /\ Present(k)
  /\ SetLinks(MoveToFront(items[k], links))
  /\ entry' = [entry EXCEPT ![items[k]] =
                 [key |-> k, value |-> v, expiresAt |-> now + ttl]]
  /\ latest' = [latest EXCEPT ![k] = [value |-> v, expiresAt |-> now + ttl]]
  /\ UNCHANGED <<now, readers, writer, items, inList, len, threadVars,
                 janitor, stopped>>

(* Set of an absent key enters the eviction loop holding the lock. *)
SetBegin(t, k, v, ttl) ==
  /\ pc[t] = "idle" /\ Unlocked
  /\ ~Present(k)
  /\ writer' = t
  /\ pc' = [pc EXCEPT ![t] = "evict"]
  /\ arg' = [arg EXCEPT ![t] = [key |-> k, value |-> v, ttl |-> ttl]]
  /\ UNCHANGED <<now, readers, items, listVars, entry, stmt, elem, reg,
                 janitor, stopped, latest>>

(* Fault: evictOldest spares an entry that has not expired. *)
SetEvictExpired(t) ==
  /\ pc[t] = "evict" /\ len >= MaxEntries
  /\ Back \notin {Root, Nil} /\ Expired(Back, now)
  /\ RemoveElement(Back)
  /\ UNCHANGED <<now, readers, writer, threadVars, janitor, stopped, latest>>

(* One iteration: evictOldest. An empty list makes it a no-op. *)
SetEvict(t) ==
  /\ pc[t] = "evict" /\ len >= MaxEntries
  /\ Back # Root
  /\ IF Back = Nil
     THEN UNCHANGED <<listVars, items, entry>>
     ELSE RemoveElement(Back)
  /\ UNCHANGED <<now, readers, writer, threadVars, janitor, stopped,
                 latest>>

Return(t) ==
  /\ writer' = Nil
  /\ pc' = [pc EXCEPT ![t] = "idle"]
  /\ arg' = [arg EXCEPT ![t] = Nil]
  /\ UNCHANGED <<stmt, elem, reg>>

(* Back() is the sentinel although len > 0: it carries no *memoryEntry, so *)
(* toMemoryEntry fails and Set returns ErrInvalidValue.                    *)
SetFail(t) ==
  /\ pc[t] = "evict" /\ len >= MaxEntries
  /\ Back = Root
  /\ Return(t)
  /\ UNCHANGED <<now, readers, items, listVars, entry, janitor, stopped,
                 latest>>

SetInsert(t) ==
  LET c == arg[t] IN
  /\ pc[t] = "evict" /\ len < MaxEntries
  /\ \E e \in Fresh :    \* bound: the heap
     /\ SetLinks(PushFront(e, links))
     /\ inList' = inList \cup {e}
     /\ items' = [items EXCEPT ![c.key] = e]
     /\ entry' = [entry EXCEPT ![e] =
           [key |-> c.key, value |-> c.value, expiresAt |-> now + c.ttl]]
  /\ len' = len + 1
  /\ latest' = [latest EXCEPT ![c.key] =
                  [value |-> c.value, expiresAt |-> now + c.ttl]]
  /\ Return(t)
  /\ UNCHANGED <<now, readers, janitor, stopped>>

(* Fault: Delete takes the read lock only. *)
DeleteReadLocked(t, k) ==
  /\ pc[t] = "idle" /\ writer = Nil
  /\ IF Present(k)
     THEN RemoveElement(items[k])
     ELSE UNCHANGED <<listVars, items, entry>>
  /\ latest' = [latest EXCEPT ![k] = Nil]
  /\ UNCHANGED <<now, readers, writer, threadVars, janitor, stopped>>

Delete(t, k) ==
  /\ pc[t] = "idle" /\ Unlocked
  /\ IF Present(k)
     THEN RemoveElement(items[k])
     ELSE UNCHANGED <<listVars, items, entry>>
  /\ latest' = [latest EXCEPT ![k] = Nil]
  /\ UNCHANGED <<now, readers, writer, threadVars, janitor, stopped>>

(* Close is called once, by the owner: closing stopCh twice panics. *)
Close(t) ==
  /\ pc[t] = "idle" /\ ~stopped
  /\ stopped' = TRUE
  /\ UNCHANGED <<now, readers, writer, items, listVars, entry, threadVars,
                 janitor, latest>>

(* Fault: the clock is read once, when the goroutine starts. *)
JanitorTickOldClock ==
  /\ janitor.at = "select" /\ Unlocked
  /\ writer' = Janitor
  /\ janitor' = [at |-> "scan", now |-> 0]
  /\ UNCHANGED <<now, readers, items, listVars, entry, threadVars, stopped,
                 latest>>

(* cleanup() takes a tick: removeExpired locks and reads the clock.  A     *)
(* tick may still win the select after stopCh is closed.                   *)
JanitorTick ==
  /\ janitor.at = "select" /\ Unlocked
  /\ writer' = Janitor
  /\ janitor' = [at |-> "scan", now |-> now]
  /\ UNCHANGED <<now, readers, items, listVars, entry, threadVars, stopped,
                 latest>>

JanitorRemove(k) ==
  /\ janitor.at = "scan"
  /\ Present(k) /\ Expired(items[k], janitor.now)
  /\ RemoveElement(items[k])
  /\ UNCHANGED <<now, readers, writer, threadVars, janitor, stopped,
                 latest>>

JanitorDone ==
  /\ janitor.at = "scan"
  /\ \A k \in Keys : Present(k) => ~Expired(items[k], janitor.now)
  /\ writer' = Nil
  /\ janitor' = [at |-> "select", now |-> 0]
  /\ UNCHANGED <<now, readers, items, listVars, entry, threadVars, stopped,
                 latest>>

JanitorStop ==
  /\ janitor.at = "select" /\ stopped
  /\ janitor' = [at |-> "returned", now |-> 0]
  /\ UNCHANGED <<now, readers, writer, items, listVars, entry, threadVars,
                 stopped, latest>>

Tick ==
  /\ now < Horizon
  /\ now' = now + 1
  /\ UNCHANGED <<readers, writer, items, listVars, entry, threadVars, janitor,
                 stopped, latest>>

GetStep(t) == MoveLoad(t) \/ MoveStore(t)
SetStep(t) == SetEvict(t) \/ SetFail(t) \/ SetInsert(t)
JanitorScan == (\E k \in Keys : JanitorRemove(k)) \/ JanitorDone

Next ==
  \/ \E t \in Getters, k \in Keys : GetMiss(t, k) \/ GetFront(t, k) \/ GetHit(t, k)
  \/ \E t \in Threads : GetStep(t) \/ SetStep(t)
  \/ \E t \in Threads, k \in Keys, v \in Values, ttl \in TTLs :
        SetUpdate(t, k, v, ttl) \/ SetBegin(t, k, v, ttl)
  \/ \E t \in Threads, k \in Keys : Delete(t, k)
  \/ JanitorTick \/ JanitorScan \/ JanitorStop
  \/ \E t \in Closers : Close(t)
  \/ Tick

Spec == Init /\ [][Next]_vars

(* A goroutine that is inside an operation keeps running.  The ticker      *)
(* fires every minute until Close and sync.RWMutex does not starve the     *)
(* goroutine that waits in Lock.  The select of cleanup() picks at random  *)
(* between a tick and stopCh, so stopCh is not passed over for ever.       *)
Fairness ==
  /\ \A t \in Threads : WF_vars(GetStep(t)) /\ WF_vars(SetStep(t))
  /\ WF_vars(JanitorScan)
  /\ SF_vars(~stopped /\ JanitorTick)
  /\ SF_vars(JanitorStop)

FairSpec == Spec /\ Fairness
-----------------------------------------------------------------------------
(* The variables have the types of Memory, list.List and memoryEntry: in   *)
(* particular no Set ever stores a value under the wrong map key.          *)
TypeOK ==
  /\ now \in Nat
  /\ readers \subseteq Threads
  /\ writer \in Threads \cup {Janitor, Nil}
  /\ items \in [Keys -> Elements \cup {Nil}]
  /\ next \in [Node -> Node \cup {Nil}]
  /\ prev \in [Node -> Node \cup {Nil}]
  /\ inList \subseteq Elements
  /\ len \in Nat
  /\ entry \in [Elements -> Entry \cup {Nil}]
  /\ pc \in [Threads -> {"idle", "load", "store", "evict"}]
  /\ stmt \in [Threads -> 1 .. 6]
  /\ elem \in [Threads -> Elements \cup {Nil}]
  /\ reg \in [Threads -> (Node \cup {Nil}) \X (Node \cup {Nil})]
  /\ arg \in [Threads -> Call \cup {Nil}]
  /\ janitor \in [at : {"select", "scan", "returned"}, now : Nat]
  /\ stopped \in BOOLEAN
  /\ latest \in [Keys -> [value : Values, expiresAt : Int] \cup {Nil}]

(* Whatever concurrent Gets do to the ring, an entry that Get can find     *)
(* holds the value and expiry of the latest Set of that key, and a deleted *)
(* key stays gone: Get and Set reach entries through items only.           *)
StoreIntegrity ==
  \A k \in Keys : Present(k) =>
    /\ latest[k] # Nil
    /\ entry[items[k]] = [key |-> k, value |-> latest[k].value,
                          expiresAt |-> latest[k].expiresAt]

(* The map never holds more than maxSize entries, even when a corrupted    *)
(* ring makes evictOldest pick an element that left the list long ago:     *)
(* the loop of Set goes by l.len, which no Get writes.                     *)
Bounded == Cardinality({k \in Keys : Present(k)}) <= MaxEntries

(* No operation dereferences a nil link, racing Gets included: a pointer   *)
(* that list.move is about to write through, and the links of every        *)
(* element it will read next, are never nil.                               *)
NoNilDereference ==
  /\ \A t \in Threads : pc[t] = "store" => reg[t][1] # Nil
  /\ \A n \in inList \cup {Root} : next[n] # Nil /\ prev[n] # Nil

(* A Set that is inside its eviction loop leaves it and returns. *)
SetReturns == \A t \in Threads : pc[t] = "evict" ~> pc[t] = "idle"

(* The cleanup goroutine: until Close an expired entry leaves the map or is *)
(* overwritten, and after Close the goroutine ends.                         *)
CleanupWorks ==
  /\ \A k \in Keys :
       (Present(k) /\ IF Present(k) THEN Expired(items[k], now) ELSE FALSE)
         ~> (stopped \/ ~Present(k) \/ ~Expired(items[k], now))
  /\ stopped ~> janitor.at = "returned"
=============================================================================
