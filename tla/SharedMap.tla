----------------------------- MODULE SharedMap -----------------------------
(* types/map.go: goroutines that use one Map.  sync.RWMutex is external: a  *)
(* writer takes its mutex first, which keeps new readers out, and then      *)
(* waits for those that are in.  Range and DeleteFunc call back between the *)
(* entries, with the lock held; Range's callback may itself read the map.   *)
(* Every Set stores a new value, the number of the operation.               *)
EXTENDS Integers, FiniteSets

CONSTANTS
  MapKeys, Goroutines,
  MaxOps  \* bound: operations in all

ASSUME MapAssumption == MaxOps \in Nat /\ "none" \notin Goroutines

VARIABLES
  data,      \* the entries: a function on the keys present
  readers,   \* read locks held, per goroutine
  writer,    \* the goroutine that has the writers' mutex, or none
  doing,     \* per goroutine: its operation, how far it is, what it saw
  ops,       \* operations begun
  reentrant, \* Range's callbacks read the map
  gone       \* history: how often each value was removed or overwritten

mapVars == <<data, readers, writer, doing, ops, reentrant, gone>>

None == "none"
Resting == [op |-> None, at |-> None, key |-> None, value |-> 0, seen |-> {}, deleted |-> 0, size |-> 0]
Writes == {"Set", "Delete", "Clear", "DeleteFunc"}
Entries == {<<k, data[k]>> : k \in DOMAIN data}

MapStart ==
  /\ data = [k \in {} |-> 0] /\ readers = [g \in Goroutines |-> 0] /\ writer = None
  /\ doing = [g \in Goroutines |-> Resting] /\ gone = [n \in 1..MaxOps |-> 0]

MapInit == MapStart /\ ops = 0 /\ reentrant \in BOOLEAN
MapIdle == MapStart /\ ops = MaxOps /\ reentrant = FALSE

(* A goroutine calls a method, which asks for its lock.                     *)
BeginOp(g, op, k) ==
  /\ doing[g] = Resting /\ ops < MaxOps /\ ops' = ops + 1
  /\ doing' = [doing EXCEPT ![g] = [Resting EXCEPT !.op = op, !.at = "lock", !.key = k, !.value = ops + 1]]
  /\ UNCHANGED <<data, readers, writer, reentrant, gone>>

Moves(g, at) == doing' = [doing EXCEPT ![g].at = at] /\ UNCHANGED <<data, ops, reentrant, gone>>

RLock(g) ==
  /\ doing[g].at = "lock" /\ doing[g].op \notin Writes /\ writer = None
  /\ readers' = [readers EXCEPT ![g] = @ + 1] /\ UNCHANGED writer /\ Moves(g, "held")

TakeWriterMutex(g) ==
  /\ doing[g].at = "lock" /\ doing[g].op \in Writes /\ writer = None
  /\ writer' = g /\ UNCHANGED readers /\ Moves(g, "wait")

(* Fault: the writer does not wait for the readers that are in. *)
LockAmongReaders(g) ==
  /\ doing[g].at = "wait" /\ UNCHANGED <<readers, writer>> /\ Moves(g, "held")

Lock(g) ==
  /\ doing[g].at = "wait" /\ \A r \in Goroutines : readers[r] = 0
  /\ UNCHANGED <<readers, writer>> /\ Moves(g, "held")

Unlock(g) == writer' = None /\ doing' = [doing EXCEPT ![g] = Resting] /\ UNCHANGED <<readers, ops, reentrant>>
RUnlock(g) ==
  /\ readers' = [readers EXCEPT ![g] = @ - 1] /\ doing' = [doing EXCEPT ![g] = Resting]
  /\ UNCHANGED <<data, writer, ops, reentrant, gone>>

Holds(g, op) == doing[g].at = "held" /\ doing[g].op = op
TakenOut(keys) == [n \in DOMAIN gone |-> gone[n] + Cardinality({k \in keys \cap DOMAIN data : data[k] = n})]
DropKeys(keys) == data' = [k \in DOMAIN data \ keys |-> data[k]] /\ gone' = TakenOut(keys)

Set(g) ==
  LET k == doing[g].key IN
  /\ Holds(g, "Set") /\ gone' = TakenOut({k})
  /\ data' = [j \in DOMAIN data \cup {k} |-> IF j = k THEN doing[g].value ELSE data[j]]
  /\ Unlock(g)

(* Get; Len, Has, Keys and Values read under the same lock in one step too. *)
Get(g) == Holds(g, "Get") /\ RUnlock(g)

Delete(g) == Holds(g, "Delete") /\ DropKeys({doing[g].key}) /\ Unlock(g)

Clear(g) == Holds(g, "Clear") /\ DropKeys(DOMAIN data) /\ Unlock(g)

(* Range: the callback on one more entry, which returns or first reads the  *)
(* map, for which it needs a second read lock; then the end, after all the  *)
(* entries or because the callback said so.                                 *)
RangeVisits(g) ==
  /\ Holds(g, "Range")
  /\ \E e \in Entries \ doing[g].seen :
       doing' = [doing EXCEPT ![g].seen = @ \cup {e}, ![g].at = IF reentrant THEN "nested" ELSE "held"]
  /\ UNCHANGED <<data, readers, writer, ops, reentrant, gone>>

RangeCallbackGets(g) ==
  /\ doing[g].at = "nested" /\ writer = None /\ UNCHANGED <<readers, writer>> /\ Moves(g, "held")

RangeEnds(g) == Holds(g, "Range") /\ (Entries = {} \/ doing[g].seen # {}) /\ RUnlock(g)

DeleteFuncCounts(g, e, del, n) ==
  /\ doing' = [doing EXCEPT ![g].seen = @ \cup {e}, ![g].deleted = @ + n,
                            ![g].size = IF doing[g].seen = {} THEN Cardinality(DOMAIN data) ELSE @]
  /\ IF del THEN DropKeys({e[1]}) ELSE UNCHANGED <<data, gone>>
  /\ UNCHANGED <<readers, writer, ops, reentrant>>

(* Fault: an entry that the callback keeps is counted as deleted. *)
DeleteFuncVisitsMiscounting(g) ==
  /\ Holds(g, "DeleteFunc")
  /\ \E e \in Entries \ doing[g].seen, del \in BOOLEAN : DeleteFuncCounts(g, e, del, 1)

(* DeleteFunc: the callback keeps or deletes one more entry; size records   *)
(* how many there were at the first.                                        *)
DeleteFuncVisits(g) ==
  /\ Holds(g, "DeleteFunc")
  /\ \E e \in Entries \ doing[g].seen, del \in BOOLEAN : DeleteFuncCounts(g, e, del, IF del THEN 1 ELSE 0)

DeleteFuncEnds(g) ==
  /\ Holds(g, "DeleteFunc") /\ Entries \subseteq doing[g].seen /\ UNCHANGED <<data, gone>> /\ Unlock(g)

OpStep(g) ==
  \/ RLock(g) \/ TakeWriterMutex(g) \/ Lock(g) \/ Set(g) \/ Get(g) \/ Delete(g) \/ Clear(g)
  \/ RangeVisits(g) \/ RangeCallbackGets(g) \/ RangeEnds(g) \/ DeleteFuncVisits(g) \/ DeleteFuncEnds(g)

MapNext ==
  \E g \in Goroutines :
    \/ OpStep(g)
    \/ \E op \in {"Get", "Range", "Clear", "DeleteFunc"} : BeginOp(g, op, None)
    \/ \E op \in {"Set", "Delete"}, k \in MapKeys : BeginOp(g, op, k)

MapFairness == \A g \in Goroutines : WF_mapVars(OpStep(g))

MapSpec == MapInit /\ [][MapNext]_mapVars /\ MapFairness
----------------------------------------------------------------------------
(* Types of the map's state.                                                *)
MapTypeOK ==
  /\ DOMAIN data \subseteq MapKeys /\ readers \in [Goroutines -> Nat]
  /\ ops \in 0..MaxOps /\ writer \in Goroutines \cup {None}

(* Range and DeleteFunc, between their callbacks: what Range has visited is *)
(* still in the map, and what DeleteFunc has deleted and what is left add   *)
(* up to what it found, however many goroutines use the map.                *)
VisitsAreConsistent ==
  \A g \in Goroutines :
    /\ doing[g].op = "Range" => doing[g].seen \subseteq Entries
    /\ doing[g].op = "DeleteFunc" /\ doing[g].seen # {} => doing[g].deleted + Cardinality(DOMAIN data) = doing[g].size

(* Set, Delete, Clear and DeleteFunc: a value that was set is in the map or *)
(* was handed out or overwritten once, never both and never twice.          *)
GivenOutOnce ==
  \A n \in DOMAIN gone : gone[n] = 0 \/ (gone[n] = 1 /\ \A k \in DOMAIN data : data[k] # n)

(* Range's callback that reads the map is kept waiting only by a writer     *)
(* that itself waits for this Range: the two then wait for ever.            *)
StuckBehindWriter ==
  \A g \in Goroutines : doing[g].at = "nested" /\ writer # None => doing[writer].at = "wait"

(* A Range whose callback wants to read the map behind a writer.            *)
Deadlocked == \E g \in Goroutines : doing[g].at = "nested" /\ writer # None

(* Every operation has ended, or waits in such a deadlock.                  *)
MapOver == Deadlocked \/ \A g \in Goroutines : doing[g].op = None
=============================================================================
