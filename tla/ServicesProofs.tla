--------------------------- MODULE ServicesProofs ---------------------------
(* Proofs for every value of the constants about what goroutines, servers   *)
(* and services share: NewWithConfig and Close (DBConnect), Map (SharedMap),*)
(* the HTTP server and the runner (ServerApp).                              *)
EXTENDS DBConnect, SharedMap, ServerApp, FiniteSetTheorems, TLAPS
-----------------------------------------------------------------------------
(* DBConnect.                                                               *)

(* What ensureDatabaseExists stands on: it runs only where it was asked     *)
(* for, and a service of PostgreSQL that is about to create the database    *)
(* found it missing, so that one there is by now is another's work.         *)
EnsureInv ==
  \A s \in Services :
    /\ stage[s] \in {"server", "check", "create"} => ensure[s]
    /\ dialect = "postgres" /\ stage[s] = "create" /\ exists => creator \in Services \ {s}

(* The inductive invariant of NewWithConfig and Close.                      *)
DBInv == DBTypeOK /\ PoolsReleased /\ EnsureInv /\ EnsureRace

(* The first state satisfies the invariant.                                 *)
LEMMA DBInvInit == DBInit => DBInv
<1>. SUFFICES ASSUME DBInit PROVE DBInv
  BY Zenon
<1>1. DBTypeOK
  BY PingsAssumption DEF DBInit, DBTypeOK, Stages, Causes
<1>2. PoolsReleased
  <2>. SUFFICES ASSUME NEW s \in Services
                PROVE  open[s] = Held(s) + (IF dialect = "mysql" THEN 0 ELSE failures[s])
    BY Zenon DEF PoolsReleased
  <2>1. open[s] = 0 /\ stage[s] = "start" /\ failures[s] = 0
    BY Zenon DEF DBInit
  <2>. QED  BY <2>1 DEF Held, Connecting
<1>3. EnsureInv /\ EnsureRace
  BY Zenon DEF DBInit, EnsureInv, EnsureRace
<1>. QED  BY <1>1, <1>2, <1>3, Zenon DEF DBInv

(* Every step keeps the types.                                              *)
LEMMA DBTypeNext ==
  ASSUME DBTypeOK, [DBNext]_dbVars
  PROVE  DBTypeOK'
<1>. USE DEF DBTypeOK, Stages, Causes
<1>1. ASSUME NEW s \in Services, validate(s) PROVE DBTypeOK'
  BY PingsAssumption, <1>1, Zenon DEF validate, Fail
<1>2. ASSUME NEW s \in Services, Begin(s) PROVE DBTypeOK'
  BY PingsAssumption, <1>2 DEF Begin, Go, Pools, Opens
<1>3. ASSUME NEW s \in Services, PingFails(s) PROVE DBTypeOK'
  BY PingsAssumption, <1>3 DEF PingFails, Connecting, Failed, Pools, Opens
<1>4. ASSUME NEW s \in Services, PingWorks(s) PROVE DBTypeOK'
  BY PingsAssumption, <1>4 DEF PingWorks, Connecting, Go, Pools, Opens
<1>5. ASSUME NEW s \in Services, GiveUp(s) PROVE DBTypeOK'
  BY PingsAssumption, <1>5 DEF GiveUp, Connecting, Fail, Pools, Opens
<1>6. ASSUME NEW s \in Services, databaseExists(s) PROVE DBTypeOK'
  BY PingsAssumption, <1>6 DEF databaseExists, EnsureDone, EnsureFails, Go, Fail, Pools, Opens
<1>7. ASSUME NEW s \in Services, createDatabase(s) PROVE DBTypeOK'
  <2>1. exists' \in BOOLEAN
    BY <1>7, Zenon DEF createDatabase, Created
  <2>2. creator' \in Services \cup {Else}
    BY <1>7, Zenon DEF createDatabase, Created
  <2>3. open' \in [Services -> Int] /\ stage' \in [Services -> Stages] /\ cause' \in [Services -> Causes]
    BY <1>7 DEF createDatabase, EnsureDone, EnsureFails, Go, Fail, Pools, Opens
  <2>. QED  BY <1>7, <2>1, <2>2, <2>3, Zenon DEF createDatabase
<1>8. ASSUME NEW s \in Services, gormOpen(s) PROVE DBTypeOK'
  BY PingsAssumption, <1>8 DEF gormOpen, Go, Fail, Pools, Opens, Failed
<1>9. ASSUME NEW s \in Services, Close(s) PROVE DBTypeOK'
  BY PingsAssumption, <1>9 DEF Close, Go, Pools
<1>11. ASSUME NEW s \in Services, Cancel(s) PROVE DBTypeOK'
  BY <1>11, Zenon DEF Cancel
<1>10. CASE UNCHANGED dbVars
  BY <1>10, Zenon DEF dbVars
<1>. QED
  BY <1>1, <1>2, <1>3, <1>4, <1>5, <1>6, <1>7, <1>8, <1>9, <1>10, <1>11, Zenon DEF DBNext, NewStep

(* Every step opens and closes the pools its stage calls for.               *)
LEMMA PoolsNext ==
  ASSUME DBTypeOK, PoolsReleased, [DBNext]_dbVars
  PROVE  PoolsReleased'
<1>. USE DEF DBTypeOK, PoolsReleased, Held, Connecting, Opens
<1>1. ASSUME NEW s \in Services, validate(s) PROVE PoolsReleased'
  BY <1>1, Zenon DEF validate, Fail
<1>2. ASSUME NEW s \in Services, Begin(s) PROVE PoolsReleased'
  BY <1>2 DEF Begin, Go, Pools, Opens
<1>3. ASSUME NEW s \in Services, PingFails(s) PROVE PoolsReleased'
  BY <1>3 DEF PingFails, Connecting, Failed, Pools, Opens
<1>4. ASSUME NEW s \in Services, PingWorks(s) PROVE PoolsReleased'
  BY <1>4 DEF PingWorks, Connecting, Go, Pools, Opens
<1>5. ASSUME NEW s \in Services, GiveUp(s) PROVE PoolsReleased'
  BY <1>5 DEF GiveUp, Connecting, Fail, Pools, Opens
<1>6. ASSUME NEW s \in Services, databaseExists(s) PROVE PoolsReleased'
  BY <1>6 DEF databaseExists, EnsureDone, EnsureFails, Go, Fail, Pools, Opens
<1>7. ASSUME NEW s \in Services, createDatabase(s) PROVE PoolsReleased'
  BY <1>7 DEF createDatabase, Created, EnsureDone, EnsureFails, Go, Fail, Pools, Opens
<1>8. ASSUME NEW s \in Services, gormOpen(s) PROVE PoolsReleased'
  BY <1>8 DEF gormOpen, Go, Fail, Pools, Opens, Failed
<1>9. ASSUME NEW s \in Services, Close(s) PROVE PoolsReleased'
  BY <1>9 DEF Close, Go, Pools
<1>11. ASSUME NEW s \in Services, Cancel(s) PROVE PoolsReleased'
  BY <1>11, Zenon DEF Cancel
<1>10. CASE UNCHANGED dbVars
  BY <1>10, Zenon DEF dbVars
<1>. QED
  BY <1>1, <1>2, <1>3, <1>4, <1>5, <1>6, <1>7, <1>8, <1>9, <1>10, <1>11, Zenon DEF DBNext, NewStep

(* Every step keeps what ensureDatabaseExists stands on.                    *)
LEMMA EnsureNext ==
  ASSUME DBTypeOK, EnsureInv, EnsureRace, [DBNext]_dbVars
  PROVE  (EnsureInv /\ EnsureRace)'
<1>. USE DEF DBTypeOK, EnsureInv, EnsureRace
<1>1. ASSUME NEW s \in Services, validate(s) PROVE (EnsureInv /\ EnsureRace)'
  BY <1>1, Zenon DEF validate, Fail
<1>2. ASSUME NEW s \in Services, Begin(s) PROVE (EnsureInv /\ EnsureRace)'
  BY <1>2, Zenon DEF Begin, Go, Pools, Opens
<1>3. ASSUME NEW s \in Services, PingFails(s) PROVE (EnsureInv /\ EnsureRace)'
  BY <1>3, Zenon DEF PingFails, Connecting, Failed, Pools, Opens
<1>4. ASSUME NEW s \in Services, PingWorks(s) PROVE (EnsureInv /\ EnsureRace)'
  BY <1>4, Zenon DEF PingWorks, Connecting, Go, Pools, Opens
<1>5. ASSUME NEW s \in Services, GiveUp(s) PROVE (EnsureInv /\ EnsureRace)'
  BY <1>5, Zenon DEF GiveUp, Connecting, Fail, Pools, Opens
<1>6. ASSUME NEW s \in Services, databaseExists(s) PROVE (EnsureInv /\ EnsureRace)'
  BY <1>6 DEF databaseExists, EnsureDone, EnsureFails, Go, Fail, Pools, Opens
<1>7. ASSUME NEW s \in Services, createDatabase(s) PROVE (EnsureInv /\ EnsureRace)'
  BY <1>7 DEF createDatabase, Created, EnsureDone, EnsureFails, Go, Fail, Pools, Opens
<1>8. ASSUME NEW s \in Services, gormOpen(s) PROVE (EnsureInv /\ EnsureRace)'
  BY <1>8 DEF gormOpen, Go, Fail, Pools, Opens, Failed
<1>9. ASSUME NEW s \in Services, Close(s) PROVE (EnsureInv /\ EnsureRace)'
  BY <1>9, Zenon DEF Close, Go, Pools
<1>11. ASSUME NEW s \in Services, Cancel(s) PROVE (EnsureInv /\ EnsureRace)'
  BY <1>11, Zenon DEF Cancel
<1>10. CASE UNCHANGED dbVars
  BY <1>10, Zenon DEF dbVars
<1>. QED
  BY <1>1, <1>2, <1>3, <1>4, <1>5, <1>6, <1>7, <1>8, <1>9, <1>10, <1>11, Zenon DEF DBNext, NewStep

(* The invariant holds in every behaviour.                                  *)
LEMMA DBInvHolds == DBSpec => []DBInv
<1>1. DBInv /\ [DBNext]_dbVars => DBInv'
  BY DBTypeNext, PoolsNext, EnsureNext, Zenon DEF DBInv
<1>. QED  BY <1>1, DBInvInit, PTL DEF DBSpec

(* NewWithConfig: a connect never fails more pings than its time allows.    *)
THEOREM DBTypeCorrect == DBSpec => []DBTypeOK
<1>1. DBInv => DBTypeOK
  BY Zenon DEF DBInv
<1>. QED  BY <1>1, DBInvHolds, PTL

(* NewWithConfig and Close: MySQL leaves no pool behind on any path, and    *)
(* PostgreSQL exactly one for each failed ping and each failed gorm.Open.   *)
THEOREM PoolsReleasedHolds == DBSpec => []PoolsReleased
<1>1. DBInv => PoolsReleased
  BY Zenon DEF DBInv
<1>. QED  BY <1>1, DBInvHolds, PTL

(* ensureDatabaseExists: only another service's CREATE DATABASE between the *)
(* look and the creation makes the creation fail as a duplicate.            *)
THEOREM EnsureRaceHolds == DBSpec => []EnsureRace
<1>1. DBInv => EnsureRace
  BY Zenon DEF DBInv
<1>. QED  BY <1>1, DBInvHolds, PTL
-----------------------------------------------------------------------------
(* SharedMap.                                                               *)


(* The types of the map and of the calls of its methods.                    *)
Ops == {"Get", "Range", "Set", "Delete", "Clear", "DeleteFunc"}

Doing ==
  [op : Ops \cup {None}, at : {None, "lock", "wait", "held", "nested"}, key : MapKeys \cup {None}, value : 0..MaxOps,
   seen : SUBSET (MapKeys \X (1..MaxOps)), deleted : Nat, size : Nat]

MapTypes ==
  /\ doing \in [Goroutines -> Doing] /\ readers \in [Goroutines -> Nat]
  /\ writer \in Goroutines \cup {None} /\ ops \in 0..MaxOps /\ gone \in [1..MaxOps -> Nat]
  /\ DOMAIN data \subseteq MapKeys /\ \A k \in DOMAIN data : data[k] \in 1..MaxOps
  /\ IsFiniteSet(DOMAIN data)

(* Who holds what: a goroutine's read lock, the writers' mutex, the map.    *)
Reading(g) == doing[g].at \in {"held", "nested"} /\ doing[g].op \notin Writes
Writing(g) == doing[g].at = "held" /\ doing[g].op \in Writes

(* The locks are held by the operations under way, a writer shares the map  *)
(* with nobody, and only operations on a key have one.                      *)
LockInv ==
  /\ \A g \in Goroutines :
       /\ readers[g] = IF Reading(g) THEN 1 ELSE 0
       /\ doing[g].at = "wait" \/ Writing(g) => writer = g
       /\ Writing(g) => \A r \in Goroutines : readers[r] = 0
       /\ doing[g].at = "wait" => doing[g].op \in Writes
       /\ doing[g].at = "nested" => doing[g].op = "Range"
       /\ (doing[g].at = None) = (doing[g].op = None)
       /\ doing[g].op \in {"Set", "Delete"} => doing[g].key \in MapKeys
  /\ writer # None => doing[writer].at = "wait" \/ Writing(writer)

(* Every operation that is done starts again from rest.                     *)
LEMMA RestingType == Resting \in Doing /\ Resting.at = None /\ Resting.op = None
BY MapAssumption DEF Resting, Doing, None

(* The first state satisfies the types and the discipline.                  *)
LEMMA LockInit == MapInit => MapTypes /\ LockInv
<1>. SUFFICES ASSUME MapInit PROVE MapTypes /\ LockInv
  BY Zenon
<1>1. MapTypes
  BY RestingType, MapAssumption, FS_EmptySet DEF MapInit, MapStart, MapTypes
<1>2. \A g \in Goroutines : doing[g].at = None /\ doing[g].op = None /\ readers[g] = 0
  BY RestingType, Zenon DEF MapInit, MapStart
<1>3. writer = None
  BY Zenon DEF MapInit, MapStart
<1>. QED  BY <1>1, <1>2, <1>3, Zenon DEF LockInv, Reading, Writing, None
(* What a step of goroutine g does to g and to the locks; it changes the    *)
(* map only with the write lock.                                            *)
Turn(g, at, op) ==
  /\ doing'[g].at = at /\ doing'[g].op = op /\ doing'[g].key \in {doing[g].key, None}
  /\ op # None => doing'[g].key = doing[g].key
  /\ \A h \in Goroutines \ {g} : doing'[h] = doing[h]

LockStep(g) ==
  \/ /\ doing[g].at = "lock" /\ doing[g].op \notin Writes /\ writer = None
     /\ Turn(g, "held", doing[g].op) /\ readers' = [readers EXCEPT ![g] = @ + 1] /\ UNCHANGED <<writer, data>>
  \/ /\ doing[g].at = "lock" /\ doing[g].op \in Writes /\ writer = None
     /\ Turn(g, "wait", doing[g].op) /\ writer' = g /\ UNCHANGED <<readers, data>>
  \/ /\ doing[g].at = "wait" /\ \A r \in Goroutines : readers[r] = 0
     /\ Turn(g, "held", doing[g].op) /\ UNCHANGED <<readers, writer, data>>
  \/ Writing(g) /\ Turn(g, None, None) /\ writer' = None /\ UNCHANGED readers
  \/ Writing(g) /\ Turn(g, "held", doing[g].op) /\ UNCHANGED <<readers, writer>>
  \/ /\ doing[g].at = "held" /\ doing[g].op \notin Writes
     /\ Turn(g, None, None) /\ readers' = [readers EXCEPT ![g] = @ - 1] /\ UNCHANGED <<writer, data>>
  \/ /\ doing[g].at \in {"held", "nested"} /\ doing[g].op = "Range"
     /\ \E to \in {"held", "nested"} : Turn(g, to, "Range")
     /\ UNCHANGED <<readers, writer, data>>

(* Every step of an operation is one of these.                              *)
LEMMA OpStepLocks ==
  ASSUME MapTypes, LockInv, NEW g \in Goroutines, OpStep(g)
  PROVE  LockStep(g)
<1>0. doing \in [Goroutines -> Doing] /\ doing[g] \in Doing /\ DOMAIN doing = Goroutines
  BY Zenon DEF MapTypes
<1>. USE <1>0 DEF LockStep, Turn, Doing
<1>1. CASE RLock(g)
  BY <1>1, Zenon DEF RLock, Moves
<1>2. CASE TakeWriterMutex(g)
  BY <1>2, Zenon DEF TakeWriterMutex, Moves
<1>3. CASE Lock(g)
  BY <1>3, Zenon DEF Lock, Moves
<1>4. ASSUME Writing(g), Unlock(g) PROVE LockStep(g)
  BY <1>4, RestingType, Zenon DEF Unlock, Resting
<1>5. ASSUME doing[g].at = "held", doing[g].op \notin Writes, RUnlock(g) PROVE LockStep(g)
  BY <1>5, RestingType, Zenon DEF RUnlock, Resting
<1>6. CASE RangeVisits(g)
  BY <1>6 DEF RangeVisits, Holds
<1>7. CASE RangeCallbackGets(g)
  BY <1>7, Zenon DEF RangeCallbackGets, Moves, LockInv
<1>8. CASE DeleteFuncVisits(g)
  BY <1>8 DEF DeleteFuncVisits, DeleteFuncCounts, Holds, Writing, Writes
<1>9. Set(g) \/ Delete(g) \/ Clear(g) \/ DeleteFuncEnds(g) => Writing(g) /\ Unlock(g)
  BY Zenon DEF Set, Delete, Clear, DeleteFuncEnds, Holds, Writing, Writes
<1>10. Get(g) \/ RangeEnds(g) => doing[g].at = "held" /\ doing[g].op \notin Writes /\ RUnlock(g)
  BY Zenon DEF Get, RangeEnds, Holds, Writes
<1>. QED
  BY <1>1, <1>2, <1>3, <1>4, <1>5, <1>6, <1>7, <1>8, <1>9, <1>10, Zenon DEF OpStep
(* They keep the discipline of the locks.                                   *)
LEMMA LockStepKeeps ==
  ASSUME MapTypes, LockInv, NEW g \in Goroutines, LockStep(g)
  PROVE  LockInv'
<1>0. /\ readers \in [Goroutines -> Nat] /\ writer \in Goroutines \cup {None} /\ None \notin Goroutines
      /\ doing[g].op # "none" => doing[g].at # "none"
  BY MapAssumption, Zenon DEF MapTypes, None, LockInv
<1>1. CASE /\ doing[g].at = "lock" /\ doing[g].op \notin Writes /\ writer = None
           /\ Turn(g, "held", doing[g].op) /\ readers' = [readers EXCEPT ![g] = @ + 1] /\ UNCHANGED <<writer, data>>
  BY <1>0, <1>1, SMTT(30) DEF LockInv, Reading, Writing, Turn, None, Writes
<1>2. CASE /\ doing[g].at = "lock" /\ doing[g].op \in Writes /\ writer = None
           /\ Turn(g, "wait", doing[g].op) /\ writer' = g /\ UNCHANGED <<readers, data>>
  BY <1>0, <1>2, SMTT(30) DEF LockInv, Reading, Writing, Turn, None, Writes
<1>3. CASE /\ doing[g].at = "wait" /\ \A r \in Goroutines : readers[r] = 0
           /\ Turn(g, "held", doing[g].op) /\ UNCHANGED <<readers, writer, data>>
  BY <1>0, <1>3, SMTT(30) DEF LockInv, Reading, Writing, Turn, None, Writes
<1>4. CASE Writing(g) /\ Turn(g, None, None) /\ writer' = None /\ UNCHANGED readers
  BY <1>0, <1>4, SMTT(30) DEF LockInv, Reading, Writing, Turn, None, Writes
<1>5. CASE Writing(g) /\ Turn(g, "held", doing[g].op) /\ UNCHANGED <<readers, writer>>
  BY <1>0, <1>5, SMTT(30) DEF LockInv, Reading, Writing, Turn, None, Writes
<1>6. CASE /\ doing[g].at = "held" /\ doing[g].op \notin Writes
           /\ Turn(g, None, None) /\ readers' = [readers EXCEPT ![g] = @ - 1] /\ UNCHANGED <<writer, data>>
  BY <1>0, <1>6, SMTT(30) DEF LockInv, Reading, Writing, Turn, None, Writes
<1>7. CASE /\ doing[g].at \in {"held", "nested"} /\ doing[g].op = "Range"
           /\ \E to \in {"held", "nested"} : Turn(g, to, "Range")
           /\ UNCHANGED <<readers, writer, data>>
  BY <1>0, <1>7, SMTT(30) DEF LockInv, Reading, Writing, Turn, None, Writes
<1>. QED  BY <1>1, <1>2, <1>3, <1>4, <1>5, <1>6, <1>7, Zenon DEF LockStep

(* A call that begins holds nothing.                                        *)
LEMMA BeginKeeps ==
  ASSUME MapTypes, LockInv, NEW g \in Goroutines, NEW op \in Ops, NEW k \in MapKeys \cup {None}, BeginOp(g, op, k),
         op \in {"Set", "Delete"} => k \in MapKeys
  PROVE  LockInv' /\ doing' \in [Goroutines -> Doing]
<1>. DEFINE new == [Resting EXCEPT !.op = op, !.at = "lock", !.key = k, !.value = ops + 1]
<1>1. ops + 1 \in 0..MaxOps
  BY MapAssumption DEF BeginOp, MapTypes
<1>2. new \in Doing /\ new.at = "lock" /\ new.op = op /\ new.key = k
  BY <1>1, Zenon DEF Resting, Doing, Ops
<1>. HIDE DEF new
<1>3. doing' = [doing EXCEPT ![g] = new] /\ doing \in [Goroutines -> Doing]
  BY Zenon DEF BeginOp, MapTypes, new
<1>4. doing' \in [Goroutines -> Doing] /\ doing'[g] = new /\ \A h \in Goroutines \ {g} : doing'[h] = doing[h]
  BY <1>2, <1>3, Zenon
<1>5. /\ doing[g].at = None /\ doing[g].op = None /\ UNCHANGED <<readers, writer>>
      /\ writer \in Goroutines \cup {None}
  BY RestingType, Zenon DEF BeginOp, MapTypes
<1>. QED  BY <1>2, <1>4, <1>5 DEF LockInv, Reading, Writing, None, Ops, Writes
(* Values: each is new when its Set begins, is in the map under one key at  *)
(* most, and has not been handed out or overwritten while it is there or    *)
(* still to come.                                                           *)
ValueInv ==
  /\ \A k \in DOMAIN data : data[k] <= ops /\ gone[data[k]] = 0
  /\ \A j, k \in DOMAIN data : data[j] = data[k] => j = k
  /\ \A n \in 1..MaxOps : gone[n] \in {0, 1} /\ (n > ops => gone[n] = 0)
  /\ \A g \in Goroutines : doing[g].op = "Set" =>
       doing[g].value \in 1..ops /\ gone[doing[g].value] = 0 /\ \A k \in DOMAIN data : data[k] # doing[g].value
  /\ \A g, h \in Goroutines : doing[g].op = "Set" /\ doing[h].op = "Set" /\ doing[g].value = doing[h].value => g = h

(* What a removal adds to the history: one for each value removed.          *)
LEMMA TakenOutIs ==
  ASSUME MapTypes, ValueInv, NEW keys
  PROVE  /\ TakenOut(keys) \in [1..MaxOps -> Nat]
         /\ \A n \in 1..MaxOps :
              TakenOut(keys)[n] = gone[n] + (IF \E k \in keys \cap DOMAIN data : data[k] = n THEN 1 ELSE 0)
<1>. DEFINE Found(n) == {k \in keys \cap DOMAIN data : data[k] = n}
<1>1. gone \in [1..MaxOps -> Nat] /\ DOMAIN gone = 1..MaxOps
  BY Zenon DEF MapTypes
<1>2. \A n \in 1..MaxOps : Cardinality(Found(n)) = IF \E k \in keys \cap DOMAIN data : data[k] = n THEN 1 ELSE 0
  <2>. TAKE n \in 1..MaxOps
  <2>1. CASE \E k \in keys \cap DOMAIN data : data[k] = n
    <3>1. PICK k \in keys \cap DOMAIN data : data[k] = n
      BY <2>1, Zenon
    <3>2. Found(n) = {k}
      BY <3>1, Zenon DEF ValueInv
    <3>3. Cardinality({k}) = 1
      BY FS_Singleton, Zenon
    <3>. QED  BY <2>1, <3>2, <3>3, Zenon
  <2>2. CASE ~\E k \in keys \cap DOMAIN data : data[k] = n
    <3>1. Found(n) = {}
      BY <2>2, Zenon
    <3>. QED  BY <2>2, <3>1, FS_EmptySet, Zenon
  <2>. QED  BY <2>1, <2>2, Zenon
<1>3. TakenOut(keys) = [n \in 1..MaxOps |-> gone[n] + Cardinality(Found(n))]
  BY <1>1, Zenon DEF TakenOut
<1>. HIDE DEF Found
<1>4. \A n \in 1..MaxOps : Cardinality(Found(n)) \in Nat
  BY <1>2
<1>. QED  BY <1>1, <1>2, <1>3, <1>4
(* What a step of goroutine g does to the entries and the history.          *)
SetsKey(g) ==
  /\ doing[g].op = "Set" /\ gone' = TakenOut({doing[g].key})
  /\ data' = [j \in DOMAIN data \cup {doing[g].key} |-> IF j = doing[g].key THEN doing[g].value ELSE data[j]]

MapStep(g) ==
  /\ ops' = ops /\ doing' \in [Goroutines -> Doing]
  /\ doing'[g].op = None \/ (doing'[g].op = doing[g].op /\ doing'[g].value = doing[g].value)
  /\ \A h \in Goroutines \ {g} : doing'[h] = doing[h]
  /\ \/ UNCHANGED <<data, gone>>
     \/ \E keys : DropKeys(keys)
     \/ doing'[g].op = None /\ SetsKey(g)

(* The entries are pairs of a key and a value.                              *)
LEMMA EntriesType == ASSUME MapTypes PROVE Entries \subseteq MapKeys \X (1..MaxOps)
BY DEF MapTypes, Entries

(* Every step of an operation is one of these.                              *)
LEMMA OpStepData ==
  ASSUME MapTypes, NEW g \in Goroutines, OpStep(g)
  PROVE  MapStep(g)
<1>0. doing \in [Goroutines -> Doing] /\ doing[g] \in Doing
  BY Zenon DEF MapTypes
<1>1. ASSUME NEW at \in {"wait", "held"}, Moves(g, at) PROVE MapStep(g)
  BY <1>0, <1>1, Zenon DEF Moves, MapStep, Doing
<1>2. ASSUME doing' = [doing EXCEPT ![g] = Resting], ops' = ops
      PROVE  doing' \in [Goroutines -> Doing] /\ doing'[g].op = None /\ \A h \in Goroutines \ {g} : doing'[h] = doing[h]
  BY <1>0, <1>2, RestingType, Zenon
<1>3. CASE RUnlock(g)
  BY <1>2, <1>3, Zenon DEF RUnlock, MapStep
<1>4. CASE Set(g)
  <2>1. SetsKey(g) /\ Unlock(g)
    BY <1>4, Zenon DEF Set, SetsKey, Holds
  <2>. QED  BY <1>2, <2>1, Zenon DEF Unlock, MapStep
<1>5. CASE Delete(g) \/ Clear(g)
  <2>1. (\E keys : DropKeys(keys)) /\ Unlock(g)
    BY <1>5, Zenon DEF Delete, Clear
  <2>. QED  BY <1>2, <2>1, Zenon DEF Unlock, MapStep
<1>6. CASE DeleteFuncEnds(g)
  <2>1. UNCHANGED <<data, gone>> /\ Unlock(g)
    BY <1>6, Zenon DEF DeleteFuncEnds
  <2>. QED  BY <1>2, <2>1, Zenon DEF Unlock, MapStep
<1>7. CASE RangeVisits(g)
  <2>1. PICK e \in Entries :
          doing' = [doing EXCEPT ![g].seen = @ \cup {e}, ![g].at = IF reentrant THEN "nested" ELSE "held"]
    BY <1>7, Zenon DEF RangeVisits
  <2>2. doing[g].seen \cup {e} \in SUBSET (MapKeys \X (1..MaxOps)) /\ (IF reentrant THEN "nested" ELSE "held") \in {"nested", "held"}
    BY <1>0, <2>1, EntriesType, Zenon DEF Doing
  <2>3. ops' = ops /\ UNCHANGED <<data, gone>>
    BY <1>7, Zenon DEF RangeVisits
  <2>. QED  BY <1>0, <2>1, <2>2, <2>3, Zenon DEF MapStep, Doing
<1>8. CASE DeleteFuncVisits(g)
  <2>1. PICK e \in Entries, del \in BOOLEAN : DeleteFuncCounts(g, e, del, IF del THEN 1 ELSE 0)
    BY <1>8, Zenon DEF DeleteFuncVisits
  <2>2. doing[g].seen \cup {e} \in SUBSET (MapKeys \X (1..MaxOps))
    BY <1>0, <2>1, EntriesType, Zenon DEF Doing
  <2>3. Cardinality(DOMAIN data) \in Nat
    BY FS_CardinalityType, Zenon DEF MapTypes
  <2>4. PICK n \in {0, 1}, z \in Nat : doing' = [doing EXCEPT ![g].seen = @ \cup {e}, ![g].deleted = @ + n, ![g].size = z]
    <3>1. doing[g].size \in Nat
      BY <1>0, Zenon DEF Doing
    <3>. QED  BY <2>1, <2>3, <3>1, Zenon DEF DeleteFuncCounts
  <2>5. UNCHANGED <<data, gone>> \/ \E keys : DropKeys(keys)
    BY <2>1, Zenon DEF DeleteFuncCounts
  <2>6. ops' = ops
    BY <2>1, Zenon DEF DeleteFuncCounts
  <2>7. /\ doing' \in [Goroutines -> Doing] /\ doing'[g].op = doing[g].op /\ doing'[g].value = doing[g].value
        /\ \A h \in Goroutines \ {g} : doing'[h] = doing[h]
    <3>. DEFINE new == [doing[g] EXCEPT !.seen = @ \cup {e}, !.deleted = @ + n, !.size = z]
    <3>1. doing[g].deleted + n \in Nat
      BY <1>0, <2>4 DEF Doing
    <3>2. new \in Doing /\ new.op = doing[g].op /\ new.value = doing[g].value
      BY <1>0, <2>2, <2>4, <3>1, Zenon DEF Doing
    <3>3. doing' = [doing EXCEPT ![g] = new]
      BY <1>0, <2>4, Zenon
    <3>. HIDE DEF new
    <3>. QED  BY <1>0, <3>2, <3>3, Zenon
  <2>. QED  BY <2>5, <2>6, <2>7, Zenon DEF MapStep
<1>. QED
  BY <1>1, <1>3, <1>4, <1>5, <1>6, <1>7, <1>8, Zenon
  DEF OpStep, RLock, TakeWriterMutex, Lock, RangeCallbackGets, Get, RangeEnds
(* Dropping keys gives each of their values out once.                       *)
LEMMA DropKeeps ==
  ASSUME MapTypes, ValueInv, NEW g \in Goroutines, MapStep(g), NEW keys, DropKeys(keys)
  PROVE  /\ ValueInv' /\ DOMAIN data' \subseteq MapKeys /\ \A k \in DOMAIN data' : data'[k] \in 1..MaxOps
         /\ IsFiniteSet(DOMAIN data') /\ gone' \in [1..MaxOps -> Nat]
<1>1. /\ data' = [k \in DOMAIN data \ keys |-> data[k]] /\ DOMAIN data' = DOMAIN data \ keys
      /\ \A k \in DOMAIN data' : k \in DOMAIN data /\ k \notin keys /\ data'[k] = data[k]
  BY Zenon DEF DropKeys
<1>2. /\ gone' \in [1..MaxOps -> Nat]
      /\ \A n \in 1..MaxOps : gone'[n] = gone[n] + (IF \E k \in keys \cap DOMAIN data : data[k] = n THEN 1 ELSE 0)
  BY TakenOutIs, Zenon DEF DropKeys
<1>3. IsFiniteSet(DOMAIN data')
  BY <1>1, FS_Subset, Zenon DEF MapTypes
<1>4. ops \in Nat /\ ops' = ops /\ \A k \in DOMAIN data : data[k] \in 1..MaxOps
  BY MapAssumption, SMTT(30) DEF MapTypes, MapStep
<1>5. \A n \in 1..MaxOps : gone[n] # 0 => gone'[n] = gone[n]
  BY <1>2, <1>4 DEF ValueInv
<1>6. \A n \in 1..MaxOps : gone[n] = 0 =>
        gone'[n] = 0 \/ (gone'[n] = 1 /\ \E k \in keys \cap DOMAIN data : data[k] = n)
  <2>. SUFFICES ASSUME NEW n \in 1..MaxOps, gone[n] = 0
                PROVE  gone'[n] = 0 \/ (gone'[n] = 1 /\ \E k \in keys \cap DOMAIN data : data[k] = n)
    BY Zenon
  <2>1. CASE \E k \in keys \cap DOMAIN data : data[k] = n
    BY <1>2, <2>1
  <2>2. CASE ~\E k \in keys \cap DOMAIN data : data[k] = n
    BY <1>2, <2>2
  <2>. QED  BY <2>1, <2>2, Zenon
<1>7. \A n \in 1..MaxOps : (\A k \in keys \cap DOMAIN data : data[k] # n) => gone'[n] = gone[n]
  BY <1>2, SMTT(30) DEF MapTypes
<1>8. \A k \in DOMAIN data' : data'[k] <= ops' /\ gone'[data'[k]] = 0
  BY <1>1, <1>4, <1>7 DEF ValueInv
<1>9. \A j, k \in DOMAIN data' : data'[j] = data'[k] => j = k
  BY <1>1, Zenon DEF ValueInv
<1>10. \A n \in 1..MaxOps : gone'[n] \in {0, 1} /\ (n > ops' => gone'[n] = 0)
  BY <1>4, <1>5, <1>6, SMTT(30) DEF ValueInv
<1>11. /\ \A h \in Goroutines : doing'[h].op = "Set" =>
            doing'[h].value \in 1..ops' /\ gone'[doing'[h].value] = 0 /\ \A k \in DOMAIN data' : data'[k] # doing'[h].value
       /\ \A f, h \in Goroutines : doing'[f].op = "Set" /\ doing'[h].op = "Set" /\ doing'[f].value = doing'[h].value => f = h
  <2>1. \A h \in Goroutines : doing'[h].op = "Set" => doing[h].op = "Set" /\ doing'[h].value = doing[h].value
    BY Zenon DEF MapStep, None
  <2>2. \A n \in 1..ops : n \in 1..MaxOps
    BY MapAssumption DEF MapTypes
  <2>. QED  BY <1>1, <1>4, <1>7, <2>1, <2>2, SMTT(30) DEF ValueInv
<1>. QED  BY <1>1, <1>2, <1>3, <1>4, <1>8, <1>9, <1>10, <1>11, Zenon DEF ValueInv, MapTypes

(* Set gives the value it overwrites out, and puts its own, new one there.  *)
LEMMA SetKeeps ==
  ASSUME MapTypes, LockInv, ValueInv, NEW g \in Goroutines, MapStep(g), SetsKey(g), doing'[g].op = None
  PROVE  /\ ValueInv' /\ DOMAIN data' \subseteq MapKeys /\ \A k \in DOMAIN data' : data'[k] \in 1..MaxOps
         /\ IsFiniteSet(DOMAIN data') /\ gone' \in [1..MaxOps -> Nat]
<1>. DEFINE key == doing[g].key
            val == doing[g].value
<1>0. doing[g].op = "Set" /\ key \in MapKeys /\ val \in 1..ops /\ gone[val] = 0 /\ \A k \in DOMAIN data : data[k] # val
  BY Zenon DEF SetsKey, LockInv, ValueInv
<1>1. /\ DOMAIN data' = DOMAIN data \cup {key} /\ data'[key] = val
      /\ \A k \in DOMAIN data' : k # key => k \in DOMAIN data /\ data'[k] = data[k]
  BY Zenon DEF SetsKey
<1>2. /\ gone' \in [1..MaxOps -> Nat]
      /\ \A n \in 1..MaxOps : gone'[n] = gone[n] + (IF \E k \in {key} \cap DOMAIN data : data[k] = n THEN 1 ELSE 0)
  BY TakenOutIs, Zenon DEF SetsKey
<1>3. IsFiniteSet(DOMAIN data')
  <2>1. IsFiniteSet(DOMAIN data)
    BY Zenon DEF MapTypes
  <2>2. IsFiniteSet(DOMAIN data \cup {key})
    BY <2>1, FS_AddElement, Zenon
  <2>. QED  BY <1>1, <2>2, Zenon
<1>4. ops \in Nat /\ ops' = ops /\ \A k \in DOMAIN data : data[k] \in 1..MaxOps
  BY MapAssumption, SMTT(30) DEF MapTypes, MapStep
<1>a. val \in 1..MaxOps /\ \A n \in 1..ops : n \in 1..MaxOps
  BY <1>0, MapAssumption, SMTT(30) DEF MapTypes
<1>. HIDE DEF key, val
<1>5. \A n \in 1..MaxOps : gone[n] # 0 => gone'[n] = gone[n]
  BY <1>2, <1>4 DEF ValueInv
<1>6. \A n \in 1..MaxOps : gone[n] = 0 => gone'[n] = 0 \/ (gone'[n] = 1 /\ key \in DOMAIN data /\ data[key] = n)
  BY <1>2
<1>7. \A n \in 1..MaxOps : (key \in DOMAIN data => data[key] # n) => gone'[n] = gone[n]
  BY <1>2, SMTT(30) DEF MapTypes
<1>8. \A k \in DOMAIN data' : data'[k] \in 1..MaxOps /\ data'[k] <= ops' /\ gone'[data'[k]] = 0
  BY <1>0, <1>1, <1>4, <1>7, <1>a DEF ValueInv
<1>9. \A j, k \in DOMAIN data' : data'[j] = data'[k] => j = k
  BY <1>0, <1>1, SMTT(30) DEF ValueInv
<1>10. \A n \in 1..MaxOps : gone'[n] \in {0, 1} /\ (n > ops' => gone'[n] = 0)
  BY <1>4, <1>5, <1>6, SMTT(30) DEF ValueInv
<1>11. /\ \A h \in Goroutines : doing'[h].op = "Set" =>
            doing'[h].value \in 1..ops' /\ gone'[doing'[h].value] = 0 /\ \A k \in DOMAIN data' : data'[k] # doing'[h].value
       /\ \A f, h \in Goroutines : doing'[f].op = "Set" /\ doing'[h].op = "Set" /\ doing'[f].value = doing'[h].value => f = h
  <2>1. \A h \in Goroutines : doing'[h].op = "Set" => h # g /\ doing[h].op = "Set" /\ doing'[h].value = doing[h].value
    BY Zenon DEF MapStep, None
  <2>2. \A h \in Goroutines : h # g /\ doing[h].op = "Set" => doing[h].value # val
    BY <1>0, Zenon DEF ValueInv, val
  <2>. QED  BY <1>1, <1>4, <1>7, <1>a, <2>1, <2>2, SMTT(30) DEF ValueInv
<1>. QED  BY <1>0, <1>1, <1>2, <1>3, <1>8, <1>9, <1>10, <1>11, ZenonT(30) DEF ValueInv, MapTypes
(* What one goroutine has seen of the map agrees with the map.              *)
Visits(g) ==
  /\ doing[g].op = "Range" => doing[g].seen \subseteq Entries
  /\ doing[g].op = "DeleteFunc" /\ doing[g].seen # {} => doing[g].deleted + Cardinality(DOMAIN data) = doing[g].size
  /\ doing[g].at \in {"lock", "wait"} => doing[g].seen = {}
  /\ doing[g].op = "DeleteFunc" /\ doing[g].seen = {} => doing[g].deleted = 0

(* While one goroutine changes the map, no other is between two callbacks.  *)
LEMMA OthersKeepVisits ==
  ASSUME MapTypes, LockInv, NEW g \in Goroutines, LockStep(g), NEW h \in Goroutines \ {g}, Visits(h)
  PROVE  Visits(h)'
<1>1. doing'[h] = doing[h]
  BY Zenon DEF LockStep, Turn
<1>2. CASE UNCHANGED data
  BY <1>1, <1>2, Zenon DEF Visits, Entries
<1>3. CASE Writing(g)
  <2>1. writer = g /\ readers[h] = 0
    BY <1>3, Zenon DEF LockInv
  <2>2. ~Reading(h) /\ ~Writing(h)
    BY <2>1 DEF LockInv
  <2>3. doing[h].op \in {"Range", "DeleteFunc"} => doing[h].at \in {"lock", "wait"}
    BY <2>2, Zenon DEF MapTypes, Doing, Reading, Writing, Writes, LockInv, None
  <2>. QED  BY <1>1, <2>3, Zenon DEF Visits
<1>. QED  BY <1>2, <1>3, Zenon DEF LockStep

(* DeleteFunc counts what it deletes.                                       *)
LEMMA DeleteFuncKeepsVisits ==
  ASSUME MapTypes, NEW g \in Goroutines, Visits(g), DeleteFuncVisits(g)
  PROVE  Visits(g)'
<1>0. doing \in [Goroutines -> Doing] /\ doing[g] \in Doing /\ IsFiniteSet(DOMAIN data)
  BY Zenon DEF MapTypes
<1>1. PICK e \in Entries, del \in BOOLEAN : DeleteFuncCounts(g, e, del, IF del THEN 1 ELSE 0)
  BY Zenon DEF DeleteFuncVisits
<1>. DEFINE n == IF del THEN 1 ELSE 0
            earlier == Cardinality(DOMAIN data)
            new == [doing[g] EXCEPT !.seen = @ \cup {e}, !.deleted = @ + n, !.size = IF doing[g].seen = {} THEN earlier ELSE @]
<1>2. earlier \in Nat /\ n \in {0, 1}
  BY <1>0, FS_CardinalityType, Zenon
<1>3. Cardinality(DOMAIN data') = earlier - n
  <2>1. CASE del
    <3>1. e[1] \in DOMAIN data
      BY <1>1 DEF Entries
    <3>2. DOMAIN data' = DOMAIN data \ {e[1]}
      BY <1>1, <2>1, Zenon DEF DeleteFuncCounts, DropKeys
    <3>. QED  BY <1>0, <2>1, <3>1, <3>2, FS_RemoveElement, SMTT(30)
  <2>2. CASE ~del
    BY <1>1, <1>2, <2>2 DEF DeleteFuncCounts
  <2>. QED  BY <2>1, <2>2, Zenon
<1>4. doing'[g] = new
  BY <1>0, <1>1, Zenon DEF DeleteFuncCounts
<1>. HIDE DEF n, earlier
<1>5. /\ new.at = "held" /\ new.op = "DeleteFunc" /\ new.seen # {} /\ new.deleted = doing[g].deleted + n
      /\ new.size = IF doing[g].seen = {} THEN earlier ELSE doing[g].size
  BY <1>0, Zenon DEF DeleteFuncVisits, Holds, Doing
<1>6. doing[g].deleted \in Nat /\ doing[g].size \in Nat
  BY <1>0, Zenon DEF Doing
<1>7. /\ doing[g].seen = {} => doing[g].deleted = 0
      /\ doing[g].seen # {} => doing[g].deleted + earlier = doing[g].size
  BY Zenon DEF DeleteFuncVisits, Holds, Visits, earlier
<1>. HIDE DEF new
<1>8. new.deleted + (earlier - n) = new.size
  <2>1. CASE doing[g].seen = {}
    <3>1. new.deleted = 0 + n /\ new.size = earlier
      BY <1>5, <1>7, <2>1, Zenon
    <3>. QED  BY <1>2, <3>1
  <2>2. CASE doing[g].seen # {}
    <3>1. new.deleted = doing[g].deleted + n /\ new.size = doing[g].deleted + earlier
      BY <1>5, <1>7, <2>2, Zenon
    <3>. QED  BY <1>2, <1>6, <3>1
  <2>. QED  BY <2>1, <2>2, Zenon
<1>. QED  BY <1>3, <1>4, <1>5, <1>8, Zenon DEF Visits

(* So the goroutine that takes a step still agrees with the map.            *)
LEMMA OwnKeepsVisits ==
  ASSUME MapTypes, NEW g \in Goroutines, Visits(g), OpStep(g)
  PROVE  Visits(g)'
<1>0. doing \in [Goroutines -> Doing] /\ doing[g] \in Doing
  BY Zenon DEF MapTypes
<1>1. ASSUME NEW at \in {"wait", "held"}, Moves(g, at), at = "held" \/ doing[g].seen = {} PROVE Visits(g)'
  <2>1. /\ doing'[g].at = at /\ doing'[g].op = doing[g].op /\ doing'[g].seen = doing[g].seen
        /\ doing'[g].deleted = doing[g].deleted /\ doing'[g].size = doing[g].size
    BY <1>0, <1>1, Zenon DEF Moves, Doing
  <2>. QED  BY <1>1, <2>1, Zenon DEF Moves, Visits, Entries
<1>2. ASSUME doing'[g] = Resting PROVE Visits(g)'
  <2>1. doing'[g].op = None /\ doing'[g].at = None
    BY <1>2 DEF Resting
  <2>2. None \notin {"Range", "DeleteFunc", "lock", "wait"}
    BY DEF None
  <2>. QED  BY <2>1, <2>2, Zenon DEF Visits
<1>3. CASE RangeVisits(g)
  <2>1. PICK e \in Entries :
          doing' = [doing EXCEPT ![g].seen = @ \cup {e}, ![g].at = IF reentrant THEN "nested" ELSE "held"]
    BY <1>3, Zenon DEF RangeVisits
  <2>2. doing'[g].seen = doing[g].seen \cup {e} /\ doing'[g].op = "Range" /\ doing'[g].at \in {"nested", "held"}
    BY <1>0, <1>3, <2>1, Zenon DEF RangeVisits, Holds, Doing
  <2>3. Entries' = Entries
    BY <1>3, Zenon DEF RangeVisits, Entries
  <2>. QED  BY <1>3, <2>2, <2>3, Zenon DEF Visits, RangeVisits, Holds
<1>4. CASE RLock(g) \/ TakeWriterMutex(g) \/ Lock(g) \/ RangeCallbackGets(g)
  BY <1>1, <1>4, Zenon DEF RLock, TakeWriterMutex, Lock, RangeCallbackGets, Visits
<1>5. CASE Set(g) \/ Get(g) \/ Delete(g) \/ Clear(g) \/ RangeEnds(g) \/ DeleteFuncEnds(g)
  <2>1. doing' = [doing EXCEPT ![g] = Resting]
    BY <1>5, Zenon DEF Set, Get, Delete, Clear, RangeEnds, DeleteFuncEnds, Unlock, RUnlock
  <2>. QED  BY <1>0, <1>2, <2>1, Zenon
<1>. QED  BY <1>3, <1>4, <1>5, DeleteFuncKeepsVisits, Zenon DEF OpStep
(* The inductive invariant of the map.                                      *)
MapInv == MapTypes /\ LockInv /\ ValueInv /\ \A g \in Goroutines : Visits(g)

(* The first state satisfies the invariant.                                 *)
LEMMA MapInvInit == MapInit => MapInv
<1>. SUFFICES ASSUME MapInit PROVE MapInv
  BY Zenon
<1>1. \A g \in Goroutines : doing[g] = Resting
  BY Zenon DEF MapInit, MapStart
<1>2. \A g \in Goroutines : Visits(g)
  BY <1>1 DEF Visits, Resting, None
<1>3. ValueInv
  <2>1. DOMAIN data = {} /\ \A n \in 1..MaxOps : gone[n] = 0
    BY Zenon DEF MapInit, MapStart
  <2>2. \A g \in Goroutines : doing[g].op # "Set"
    BY <1>1, RestingType, Zenon DEF None
  <2>. QED  BY <2>1, <2>2, Zenon DEF ValueInv
<1>. QED  BY <1>2, <1>3, LockInit, Zenon DEF MapInv

(* A call that begins brings a new value and has seen nothing.              *)
LEMMA BeginKeepsMap ==
  ASSUME MapInv, NEW g \in Goroutines, NEW op \in Ops, NEW k \in MapKeys \cup {None}, BeginOp(g, op, k),
         op \in {"Set", "Delete"} => k \in MapKeys
  PROVE  MapInv'
<1>1. LockInv' /\ doing' \in [Goroutines -> Doing]
  BY BeginKeeps, Zenon DEF MapInv
<1>2. ops \in Nat /\ ops' = ops + 1 /\ ops' \in 0..MaxOps /\ UNCHANGED <<data, readers, writer, gone>>
  BY MapAssumption DEF BeginOp, MapInv, MapTypes
<1>3. MapTypes'
  BY <1>1, <1>2, Zenon DEF MapInv, MapTypes
<1>4. /\ doing'[g].op = op /\ doing'[g].at = "lock" /\ doing'[g].value = ops + 1 /\ doing'[g].seen = {} /\ doing'[g].deleted = 0
      /\ \A h \in Goroutines \ {g} : doing'[h] = doing[h]
  BY ZenonT(30) DEF BeginOp, Resting, MapInv, MapTypes
<1>5. \A h \in Goroutines : Visits(h)'
  BY <1>2, <1>4 DEF MapInv, Visits, Entries
<1>6. ValueInv'
  <2>1. ops + 1 \in 1..MaxOps /\ gone[ops + 1] = 0
    BY <1>2, MapAssumption, SMTT(30) DEF MapInv, ValueInv
  <2>2. /\ \A j \in DOMAIN data : data[j] <= ops' /\ data[j] # ops + 1 /\ gone[data[j]] = 0
        /\ \A n \in 1..MaxOps : gone[n] \in {0, 1} /\ (n > ops' => gone[n] = 0)
    <3>1. /\ \A j \in DOMAIN data : data[j] \in 1..MaxOps /\ data[j] <= ops /\ gone[data[j]] = 0
          /\ \A n \in 1..MaxOps : gone[n] \in {0, 1} /\ (n > ops => gone[n] = 0)
      BY Zenon DEF MapInv, MapTypes, ValueInv
    <3>. QED  BY <1>2, <3>1
  <2>3. \A h \in Goroutines \ {g} : doing[h].op = "Set" =>
          /\ doing[h].value \in 1..ops' /\ doing[h].value # ops + 1 /\ gone[doing[h].value] = 0
          /\ \A j \in DOMAIN data : data[j] # doing[h].value
    <3>1. \A h \in Goroutines : doing[h].op = "Set" =>
            /\ doing[h].value \in 1..ops /\ gone[doing[h].value] = 0
            /\ \A j \in DOMAIN data : data[j] # doing[h].value
      BY Zenon DEF MapInv, ValueInv
    <3>2. \A n \in 1..ops : n \in 1..ops' /\ n # ops + 1
      BY <1>2
    <3>. QED  BY <3>1, <3>2, Zenon
  <2>4. \A h \in Goroutines : doing'[h].op = "Set" =>
          doing'[h].value \in 1..ops' /\ gone'[doing'[h].value] = 0 /\ \A j \in DOMAIN data' : data'[j] # doing'[h].value
    <3>1. ops + 1 \in 1..ops'
      BY <1>2
    <3>2. data' = data /\ gone' = gone
      BY <1>2, Zenon
    <3>. SUFFICES ASSUME NEW h \in Goroutines, doing'[h].op = "Set"
                  PROVE  /\ doing'[h].value \in 1..ops' /\ gone[doing'[h].value] = 0
                         /\ \A j \in DOMAIN data : data[j] # doing'[h].value
      BY <3>2, Zenon
    <3>3. CASE h = g
      <4>1. doing'[h].value = ops + 1
        BY <1>4, <3>3, Zenon
      <4>. QED  BY <2>1, <2>2, <3>1, <4>1, Zenon
    <3>4. CASE h # g
      <4>1. h \in Goroutines \ {g} /\ doing'[h] = doing[h]
        BY <1>4, <3>4, ZenonT(30)
      <4>. QED  BY <2>3, <4>1, Zenon
    <3>. QED  BY <3>3, <3>4, Zenon
  <2>5. \A f, h \in Goroutines : doing'[f].op = "Set" /\ doing'[h].op = "Set" /\ doing'[f].value = doing'[h].value => f = h
    BY <1>4, <2>3 DEF MapInv, ValueInv
  <2>. QED  BY <1>2, <2>2, <2>4, <2>5, ZenonT(30) DEF MapInv, ValueInv
<1>. QED  BY <1>1, <1>3, <1>5, <1>6, Zenon DEF MapInv

(* Every step keeps the invariant.                                          *)
LEMMA MapInvNext == MapInv /\ [MapNext]_mapVars => MapInv'
<1>. SUFFICES ASSUME MapInv, [MapNext]_mapVars PROVE MapInv'
  BY Zenon
<1>1. ASSUME NEW g \in Goroutines, OpStep(g) PROVE MapInv'
  <2>1. LockStep(g) /\ MapStep(g) /\ LockInv'
    BY <1>1, OpStepLocks, OpStepData, LockStepKeeps, Zenon DEF MapInv
  <2>2. \A h \in Goroutines : Visits(h)'
    BY <1>1, <2>1, OthersKeepVisits, OwnKeepsVisits, ZenonT(30) DEF MapInv
  <2>3. readers' \in [Goroutines -> Nat] /\ writer' \in Goroutines \cup {None}
    <3>1. readers \in [Goroutines -> Nat] /\ writer \in Goroutines \cup {None}
      BY Zenon DEF MapInv, MapTypes
    <3>2. doing[g].at = "held" /\ doing[g].op \notin Writes => readers[g] = 1
      BY Zenon DEF MapInv, LockInv, Reading
    <3>3. \/ readers' = readers \/ readers' = [readers EXCEPT ![g] = @ + 1]
          \/ readers[g] = 1 /\ readers' = [readers EXCEPT ![g] = @ - 1]
      BY <2>1, <3>2, Zenon DEF LockStep
    <3>4. writer' \in {writer, g, None}
      BY <2>1, Zenon DEF LockStep
    <3>. QED  BY <3>1, <3>3, <3>4
  <2>4. /\ ValueInv' /\ DOMAIN data' \subseteq MapKeys /\ \A k \in DOMAIN data' : data'[k] \in 1..MaxOps
        /\ IsFiniteSet(DOMAIN data') /\ gone' \in [1..MaxOps -> Nat]
    <3>1. CASE UNCHANGED <<data, gone>>
      <4>1. ops' = ops /\ \A h \in Goroutines : doing'[h].op = "Set" => doing[h].op = "Set" /\ doing'[h].value = doing[h].value
        BY <2>1, Zenon DEF MapStep, None
      <4>2. ValueInv'
        <5>1. data' = data /\ gone' = gone /\ ops' = ops
          BY <3>1, <4>1, Zenon
        <5>2. /\ \A h \in Goroutines : doing[h].op = "Set" =>
                   /\ doing[h].value \in 1..ops /\ gone[doing[h].value] = 0
                   /\ \A k \in DOMAIN data : data[k] # doing[h].value
              /\ \A f, h \in Goroutines : doing[f].op = "Set" /\ doing[h].op = "Set" /\ doing[f].value = doing[h].value => f = h
          BY Zenon DEF MapInv, ValueInv
        <5>3. \A h \in Goroutines : doing'[h].op = "Set" =>
                /\ doing'[h].value \in 1..ops /\ gone[doing'[h].value] = 0
                /\ \A k \in DOMAIN data : data[k] # doing'[h].value
          <6>. SUFFICES ASSUME NEW h \in Goroutines, doing'[h].op = "Set"
                        PROVE  /\ doing'[h].value \in 1..ops /\ gone[doing'[h].value] = 0
                               /\ \A k \in DOMAIN data : data[k] # doing'[h].value
            BY Zenon
          <6>1. doing[h].op = "Set" /\ doing'[h].value = doing[h].value
            BY <4>1, Zenon
          <6>. QED  BY <5>2, <6>1, Zenon
        <5>4. ASSUME NEW f \in Goroutines, NEW h \in Goroutines, doing'[f].op = "Set", doing'[h].op = "Set",
                     doing'[f].value = doing'[h].value
              PROVE  f = h
          <6>1. doing[f].op = "Set" /\ doing[h].op = "Set" /\ doing[f].value = doing[h].value
            BY <4>1, <5>4, Zenon
          <6>. QED  BY <5>2, <6>1, Zenon
        <5>. QED  BY <5>1, <5>3, <5>4, Zenon DEF MapInv, ValueInv
      <4>. QED  BY <3>1, <4>2, Zenon DEF MapInv, MapTypes
    <3>2. CASE \E keys : DropKeys(keys)
      BY <2>1, <3>2, DropKeeps, Zenon DEF MapInv
    <3>3. CASE doing'[g].op = None /\ SetsKey(g)
      BY <2>1, <3>3, SetKeeps, Zenon DEF MapInv
    <3>. QED  BY <2>1, <3>1, <3>2, <3>3, Zenon DEF MapStep
  <2>5. doing' \in [Goroutines -> Doing] /\ ops' \in 0..MaxOps
    BY <2>1, Zenon DEF MapStep, MapInv, MapTypes
  <2>. QED  BY <2>1, <2>2, <2>3, <2>4, <2>5, Zenon DEF MapInv, MapTypes
<1>2. ASSUME NEW g \in Goroutines, NEW op \in {"Get", "Range", "Clear", "DeleteFunc"}, BeginOp(g, op, None) PROVE MapInv'
  BY <1>2, BeginKeepsMap, Zenon DEF Ops
<1>3. ASSUME NEW g \in Goroutines, NEW op \in {"Set", "Delete"}, NEW k \in MapKeys, BeginOp(g, op, k) PROVE MapInv'
  BY <1>3, BeginKeepsMap, Zenon DEF Ops
<1>4. CASE UNCHANGED mapVars
  <2>1. /\ data' = data /\ readers' = readers /\ writer' = writer /\ doing' = doing /\ ops' = ops /\ gone' = gone
    BY <1>4, Zenon DEF mapVars
  <2>2. MapTypes' /\ ValueInv'
    BY <2>1, Zenon DEF MapInv, MapTypes, ValueInv
  <2>3. LockInv'
    BY <2>1, Zenon DEF MapInv, LockInv, Reading, Writing
  <2>4. \A g \in Goroutines : Visits(g)'
    BY <2>1, ZenonT(30) DEF MapInv, Visits, Entries
  <2>. QED  BY <2>2, <2>3, <2>4, Zenon DEF MapInv
<1>. QED  BY <1>1, <1>2, <1>3, <1>4, Zenon DEF MapNext
(* The invariant holds in every behaviour.                                  *)
LEMMA MapInvHolds == MapSpec => []MapInv
BY MapInvInit, MapInvNext, PTL DEF MapSpec

(* The map's state keeps its types; no RUnlock comes without its RLock.     *)
THEOREM MapTypeCorrect == MapSpec => []MapTypeOK
<1>1. MapInv => MapTypeOK
  BY Zenon DEF MapInv, MapTypes, MapTypeOK
<1>. QED  BY <1>1, MapInvHolds, PTL

(* Map's mutex: the entries change only while the goroutine that changes    *)
(* them is the only one to hold a lock.                                     *)
WritesAlone ==
  data' # data => \E g \in Goroutines : Writing(g) /\ \A h \in Goroutines \ {g} : ~Reading(h) /\ ~Writing(h)

(* Map: a write excludes every other operation, whatever is called back.    *)
THEOREM WritesAloneHolds == MapSpec => [][WritesAlone]_mapVars
<1>1. MapInv /\ [MapNext]_mapVars => [WritesAlone]_mapVars
  <2>. SUFFICES ASSUME MapInv, MapNext, data' # data PROVE WritesAlone
    BY Zenon DEF WritesAlone, mapVars
  <2>1. PICK g \in Goroutines : OpStep(g)
    BY Zenon DEF MapNext, BeginOp
  <2>2. Writing(g)
    BY <2>1, OpStepLocks, ZenonT(30) DEF MapInv, LockStep
  <2>3. ASSUME NEW h \in Goroutines \ {g} PROVE ~Reading(h) /\ ~Writing(h)
    BY <2>2, SMTT(30) DEF MapInv, LockInv
  <2>. QED  BY <2>2, <2>3, Zenon DEF WritesAlone
<1>. QED  BY <1>1, MapInvHolds, PTL DEF MapSpec

(* Range and DeleteFunc: what a callback has been shown agrees with the     *)
(* entries, however many other goroutines call the map's methods.           *)
THEOREM VisitsAreConsistentHolds == MapSpec => []VisitsAreConsistent
<1>1. MapInv => VisitsAreConsistent
  BY Zenon DEF MapInv, Visits, VisitsAreConsistent
<1>. QED  BY <1>1, MapInvHolds, PTL

(* Set, Delete, Clear and DeleteFunc: no value is lost, kept twice or given *)
(* out twice.                                                               *)
THEOREM GivenOutOnceHolds == MapSpec => []GivenOutOnce
<1>1. MapInv => GivenOutOnce
  <2>. SUFFICES ASSUME MapInv, NEW n \in 1..MaxOps
                PROVE  gone[n] = 0 \/ (gone[n] = 1 /\ \A k \in DOMAIN data : data[k] # n)
    BY Zenon DEF GivenOutOnce, MapInv, MapTypes
  <2>. QED  BY Zenon DEF MapInv, ValueInv
<1>. QED  BY <1>1, MapInvHolds, PTL

(* Range: a callback that reads the map waits only for a writer that waits  *)
(* for this Range itself.                                                   *)
THEOREM StuckBehindWriterHolds == MapSpec => []StuckBehindWriter
<1>1. MapInv => StuckBehindWriter
  <2>. SUFFICES ASSUME MapInv, NEW g \in Goroutines, doing[g].at = "nested", writer # None
                PROVE  doing[writer].at = "wait"
    BY Zenon DEF StuckBehindWriter
  <2>1. writer \in Goroutines
    BY Zenon DEF MapInv, MapTypes
  <2>2. readers[g] = 1
    BY ZenonT(30) DEF MapInv, LockInv, Reading, Writes
  <2>3. ~Writing(writer)
    BY <2>1, <2>2 DEF MapInv, LockInv
  <2>. QED  BY <2>1, <2>3, Zenon DEF MapInv, LockInv
<1>. QED  BY <1>1, MapInvHolds, PTL
-----------------------------------------------------------------------------
(* ServerApp: the HTTP server, the runner with any Runnable, both together. *)


(* The server's types without the count of its requests.                    *)
EchoTypes ==
  /\ ctxDone \in BOOLEAN /\ closing \in BOOLEAN /\ appShut \in BOOLEAN
  /\ starter \in {"select", "shutdown", "returned"}
  /\ outcome \in {"pending", "nil", "server", "shutdown"}
  /\ server \in {"start", "listen", "serve", "send", "ended"}
  /\ serverErr \in {"none", "closed", "failed"} /\ serverCh \in {"empty", "closed", "failed"}
  /\ listener \in {"none", "open", "closed"}

(* Where Start stands, and why: the server is closing only if Start has     *)
(* begun to shut it down or the application has.                            *)
StarterInv ==
  /\ (outcome = "pending") = (starter # "returned")
  /\ starter = "shutdown" => ctxDone /\ closing
  /\ closing => starter # "select" \/ appShut
  /\ outcome = "nil" => closing /\ (ctxDone \/ serverErr = "closed")

(* The error the goroutine delivers is the one the server ended with, which *)
(* says "closed" only after a shutdown; a closing server that serves has no *)
(* open listener.                                                           *)
ServerInv ==
  /\ server \in {"start", "listen", "serve"} <=> serverErr = "none"
  /\ server = "listen" => listener = "open"
  /\ serverCh # "empty" => server = "ended" /\ serverCh = serverErr
  /\ serverErr = "closed" => closing
  /\ server = "serve" => closing = (listener = "closed")

(* The inductive invariant of the server.                                   *)
EchoInv == EchoTypes /\ conns \in 0..MaxConns /\ StarterInv /\ ServerInv /\ NilMeansDrained

(* The first state satisfies the invariant.                                 *)
LEMMA EchoInvInit == EchoInit => EchoInv
<1>. SUFFICES ASSUME EchoInit PROVE EchoInv
  BY Zenon
<1>1. EchoTypes /\ StarterInv /\ ServerInv /\ NilMeansDrained
  BY Zenon DEF EchoInit, EchoTypes, StarterInv, ServerInv, NilMeansDrained
<1>2. conns \in 0..MaxConns
  BY ConnsAssumption DEF EchoInit
<1>. QED  BY <1>1, <1>2, Zenon DEF EchoInv

(* The number of requests stays within its bound.                           *)
LEMMA ConnsType ==
  ASSUME conns \in 0..MaxConns, [EchoNext]_echoVars
  PROVE  conns' \in 0..MaxConns
<1>1. CASE Accept
  BY <1>1, ConnsAssumption DEF Accept
<1>2. CASE Respond
  BY <1>2, ConnsAssumption DEF Respond
<1>3. CASE UNCHANGED conns
  BY <1>3, Zenon
<1>. QED
  BY <1>1, <1>2, <1>3, Zenon DEF EchoNext, StartSteps, ServerSteps, TakeContextDone, Shutdown, TakeServerError,
    Listen, Serve, ServeEnds, Send, ContextEnds, AppShutdown, echoVars

(* Every step of Start, of its goroutine and of the requests keeps it.      *)
LEMMA EchoInvNext == EchoInv /\ [EchoNext]_echoVars => EchoInv'
<1>. SUFFICES ASSUME EchoInv, [EchoNext]_echoVars PROVE EchoInv'
  BY Zenon
<1>. USE DEF EchoTypes, StarterInv, ServerInv, NilMeansDrained
<1>0. conns' \in 0..MaxConns
  BY ConnsType, Zenon DEF EchoInv
<1>1. EchoTypes /\ StarterInv /\ ServerInv /\ NilMeansDrained
  BY Zenon DEF EchoInv
<1>2. CASE Listen
  BY <1>0, <1>1, <1>2, Zenon DEF EchoInv, Listen, ServerReturns
<1>3. CASE Serve
  BY <1>0, <1>1, <1>3, Zenon DEF EchoInv, Serve, ServerReturns
<1>4. CASE ServeEnds
  BY <1>0, <1>1, <1>4, ZenonT(30) DEF EchoInv, ServeEnds, ServerReturns
<1>5. CASE Send
  BY <1>0, <1>1, <1>5 DEF EchoInv, Send
<1>6. CASE TakeContextDone
  BY <1>0, <1>1, <1>6, Zenon DEF EchoInv, TakeContextDone, BeginShutdown
<1>7. CASE Shutdown
  BY <1>0, <1>1, <1>7, Zenon DEF EchoInv, Shutdown, StartReturns
<1>8. CASE TakeServerError
  BY <1>0, <1>1, <1>8, Zenon DEF EchoInv, TakeServerError, StartReturns
<1>9. CASE AppShutdown
  BY <1>0, <1>1, <1>9, Zenon DEF EchoInv, AppShutdown, BeginShutdown
<1>10. CASE ContextEnds
  BY <1>0, <1>1, <1>10 DEF EchoInv, ContextEnds
<1>11. CASE Accept
  BY <1>0, <1>1, <1>11, ZenonT(30) DEF EchoInv, Accept
<1>12. CASE Respond
  BY <1>0, <1>1, <1>12, SMTT(30) DEF EchoInv, Respond
<1>13. CASE UNCHANGED echoVars
  BY <1>0, <1>1, <1>13, SMTT(30) DEF EchoInv, echoVars
<1>. QED
  BY <1>2, <1>3, <1>4, <1>5, <1>6, <1>7, <1>8, <1>9, <1>10, <1>11, <1>12, <1>13, SMTT(30) DEF EchoNext, StartSteps, ServerSteps

(* The invariant holds in every behaviour.                                  *)
LEMMA EchoInvHolds == EchoSpec => []EchoInv
BY EchoInvInit, EchoInvNext, PTL DEF EchoSpec

(* Start: the server's state keeps its types.                               *)
THEOREM EchoTypeCorrect == EchoSpec => []EchoTypeOK
<1>1. EchoInv => EchoTypeOK
  BY Zenon DEF EchoInv, EchoTypes, EchoTypeOK
<1>. QED  BY <1>1, EchoInvHolds, PTL

(* Start: nil after the context has ended means that nothing is served any  *)
(* more, for any number of requests and any moment of the shutdown.         *)
THEOREM NilMeansDrainedHolds == EchoSpec => []NilMeansDrained
<1>1. EchoInv => NilMeansDrained
  BY Zenon DEF EchoInv
<1>. QED  BY <1>1, EchoInvHolds, PTL

(* Start's select: a failure of the server is swallowed only if the context *)
(* had ended.                                                               *)
THEOREM FailureToldHolds == EchoSpec => []FailureTold
<1>1. EchoInv => FailureTold
  BY Zenon DEF EchoInv, StarterInv, FailureTold
<1>. QED  BY <1>1, EchoInvHolds, PTL
----------------------------------------------------------------------------
(* The runner's two goroutines, and what may wait in their channels: runApp *)
(* sends what Run returned exactly once, and waitForShutdown takes it from  *)
(* errCh as its error or leaves it there.                                   *)
GoroutineInv ==
  /\ app \in [at : {"call", "send", "leave", "ended"}, err : {NoErr, RunErr}]
  /\ stop \in [at : {"none", "call", "send", "leave", "ended"}, err : {NoErr, StopErr}]
  /\ stop.at = "send" => stop.err = StopErr

(* What waits in the channels, and what has been made of it.                *)
ChannelInv ==
  /\ app.at \in {"call", "send"} => errCh = <<>> /\ shutdownErr = NoErr
  /\ app.at \in {"leave", "ended"} =>
       \/ errCh = <<app.err>> /\ shutdownErr = NoErr
       \/ errCh = <<>> /\ shutdownErr = app.err /\ main # "wait"
  /\ stop.at \in {"none", "call", "send"} => stopErrCh = <<>>
  /\ stopErrCh \in {<<>>, <<StopErr>>}

(* The WaitGroup counts the goroutines that have not left.                  *)
CountInv ==
  wg = (IF app.at = "ended" THEN 0 ELSE 1) + (IF stop.at \in {"none", "ended"} THEN 0 ELSE 1)

(* Where waitForShutdown stands.                                            *)
MainInv ==
  /\ main \in {"wait", "shutdown", "returned"} /\ waiter \in {"none", "wait", "closed"}
  /\ (main = "wait") = (stop.at = "none")
  /\ main = "wait" => waiter = "none"
  /\ result \in {NoErr, shutdownErr, Timeout}
  /\ main = "returned" => result \in {shutdownErr, Timeout}

(* The inductive invariant of the runner.                                   *)
RunnerInv ==
  /\ sigCh \in 0 .. 1 /\ expired \in BOOLEAN
  /\ GoroutineInv /\ ChannelInv /\ CountInv /\ MainInv /\ DoneAfterAll

(* A channel of one element is emptied by a receive, and filled by a send.  *)
LEMMA OneElement ==
  ASSUME NEW x
  PROVE  /\ Tail(<<x>>) = <<>> /\ Head(<<x>>) = x /\ <<x>> # <<>>
         /\ Append(<<>>, x) = <<x>>
OBVIOUS

(* The first state satisfies the invariant.                                 *)
LEMMA RunnerInvInit == Init => RunnerInv
<1>. SUFFICES ASSUME Init PROVE RunnerInv
  BY Zenon
<1>1. app.at = "call" /\ stop.at = "none" /\ GoroutineInv
  BY Zenon DEF Init, At, GoroutineInv
<1>2. sigCh \in 0 .. 1
  BY DEF Init
<1>4. expired \in BOOLEAN
  BY Zenon DEF Init
<1>3. ChannelInv /\ CountInv /\ MainInv /\ DoneAfterAll
  BY <1>1, SMTT(30) DEF Init, ChannelInv, CountInv, MainInv, DoneAfterAll
<1>. QED  BY <1>1, <1>2, <1>3, <1>4, Zenon DEF RunnerInv

(* So does a runner that has ended.                                         *)
LEMMA RunnerInvIdle == RunnerIdle => RunnerInv
BY DEF RunnerIdle, At, RunnerInv, GoroutineInv, ChannelInv, CountInv, MainInv, DoneAfterAll

(* Every step of the runner and of the Runnable keeps it.                   *)
LEMMA RunnerInvNext == RunnerInv /\ [Next]_vars => RunnerInv'
<1>. SUFFICES ASSUME RunnerInv, [Next]_vars PROVE RunnerInv'
  BY Zenon
<1>. USE DEF RunnerInv, GoroutineInv, ChannelInv, CountInv, MainInv, DoneAfterAll
<1>1. CASE Signal
  BY <1>1, SMTT(30) DEF Signal
<1>2. ASSUME NEW err \in {NoErr, RunErr}, RunReturns(err) PROVE RunnerInv'
  BY <1>2, SMTT(30) DEF RunReturns
<1>3. ASSUME NEW err \in {NoErr, StopErr}, StopReturns(err) PROVE RunnerInv'
  BY <1>3, SMTT(30) DEF StopReturns
<1>4. CASE DeadlinePasses
  BY <1>4 DEF DeadlinePasses
<1>5. CASE AppSend
  BY <1>5, OneElement DEF AppSend
<1>6. CASE AppLeave
  BY <1>6 DEF AppLeave
<1>7. CASE StopSend
  BY <1>7, OneElement DEF StopSend
<1>8. CASE StopLeave
  BY <1>8, SMTT(30) DEF StopLeave
<1>9. CASE CloseDone
  BY <1>9, SMTT(30) DEF CloseDone
<1>10. CASE TakeSignal
  BY <1>10, SMTT(30) DEF TakeSignal, StartShutdown, At
<1>11. CASE TakeRunResult
  BY <1>11, OneElement, SMTT(30) DEF TakeRunResult, StartShutdown, At
<1>12. CASE TakeStopError
  <2>1. /\ main = "shutdown" /\ main' = "returned" /\ result' = shutdownErr /\ stopErrCh = <<StopErr>>
        /\ UNCHANGED <<sigCh, app, errCh, stop, waiter, wg, expired, shutdownErr>>
    BY <1>12, Zenon DEF TakeStopError, ReturnWith, Wrap
  <2>2. stopErrCh' = <<>> /\ stopErrCh # <<>>
    BY <1>12, <2>1, OneElement, Zenon DEF TakeStopError
  <2>. QED  BY <2>1, <2>2
<1>13. CASE TakeDeadline
  BY <1>13 DEF TakeDeadline, ReturnWith
<1>14. CASE TakeDone
  BY <1>14, Zenon DEF TakeDone, ReturnWith
<1>15. CASE UNCHANGED vars
  BY <1>15 DEF vars
<1>. QED
  BY <1>1, <1>2, <1>3, <1>4, <1>5, <1>6, <1>7, <1>8, <1>9, <1>10, <1>11, <1>12, <1>13, <1>14, <1>15, ZenonT(30)
  DEF Next, Main, App, Stop
(* The runner's state keeps its types: the channels never hold more than    *)
(* one error and the WaitGroup never drops below zero, which panics.        *)
LEMMA RunnerInvTypes == RunnerInv => TypeOK
<1>. SUFFICES ASSUME RunnerInv PROVE TypeOK
  BY Zenon
<1>1. /\ GoroutineInv /\ ChannelInv /\ CountInv /\ MainInv
      /\ sigCh \in 0 .. 1 /\ expired \in BOOLEAN
  BY Zenon DEF RunnerInv
<1>2. app \in Goroutine /\ stop \in Goroutine
  BY <1>1, Zenon DEF GoroutineInv, Goroutine
<1>3. app.err \in {NoErr, RunErr} /\ app.at \in {"call", "send", "leave", "ended"}
  BY <1>1, Zenon DEF GoroutineInv
<1>4. errCh \in Seq({NoErr, RunErr}) /\ stopErrCh \in Seq({StopErr}) /\ shutdownErr \in {NoErr, RunErr}
  <2>1. errCh \in {<<>>, <<app.err>>} /\ stopErrCh \in {<<>>, <<StopErr>>} /\ shutdownErr \in {NoErr, app.err}
    BY <1>1, <1>3, Zenon DEF ChannelInv
  <2>2. <<>> \in Seq({NoErr, RunErr}) /\ <<app.err>> \in Seq({NoErr, RunErr})
    BY <1>3
  <2>3. <<>> \in Seq({StopErr}) /\ <<StopErr>> \in Seq({StopErr})
    OBVIOUS
  <2>. QED  BY <2>1, <2>2, <2>3, <1>3, Zenon
<1>5. wg \in 0 .. 2
  BY <1>1 DEF CountInv
<1>6. result \in {NoErr, RunErr, Timeout}
  BY <1>1, <1>4, Zenon DEF MainInv
<1>. QED  BY <1>1, <1>2, <1>4, <1>5, <1>6, Zenon DEF TypeOK, MainInv

(* What Run failed with is not lost on the way to the caller.               *)
LEMMA RunnerInvReports == RunnerInv => FailureReported
BY DEF RunnerInv, GoroutineInv, ChannelInv, MainInv, FailureReported

(* waitForShutdown and performGracefulShutdown with any Runnable: the       *)
(* channels and the WaitGroup keep within their bounds.                     *)
THEOREM RunnerTypeCorrect == Spec => []TypeOK
BY RunnerInvInit, RunnerInvNext, RunnerInvTypes, PTL DEF Spec

(* performGracefulShutdown: doneCh is closed only after Run and Stop have   *)
(* ended, whatever the Runnable does.                                       *)
THEOREM DoneAfterAllHolds == Spec => []DoneAfterAll
<1>1. RunnerInv => DoneAfterAll
  BY Zenon DEF RunnerInv
<1>. QED  BY <1>1, RunnerInvInit, RunnerInvNext, PTL DEF Spec

(* performGracefulShutdown: the error waitForShutdown received is what Run  *)
(* returns, or the timeout.                                                 *)
THEOREM FailureReportedHolds == Spec => []FailureReported
BY RunnerInvInit, RunnerInvNext, RunnerInvReports, PTL DEF Spec
----------------------------------------------------------------------------
(* The server as a Runnable: Run's goroutine sends what Start returned, and *)
(* Stop, which only cancels the context, never fails; so a runner that      *)
(* returns nil has seen doneCh closed.                                      *)
RunnableInv ==
  runnable = "echo" =>
    /\ app.at # "call" => starter = "returned" /\ app.err = (IF outcome = "nil" THEN NoErr ELSE RunErr)
    /\ stop.at # "send" /\ stopErrCh = <<>>
    /\ main = "returned" /\ result = NoErr => app.at = "ended"
    /\ main = "returned" => ctxDone
    /\ ~appShut

(* The inductive invariant of the runner with the server.                   *)
AppInv == RunnerInv /\ EchoInv /\ RunnableInv

(* A step of the composition is, for the runner, a step with some Runnable. *)
LEMMA StepOfRunner == [AppNext]_appVars => [Next]_vars
<1>. SUFFICES ASSUME [AppNext]_appVars PROVE [Next]_vars
  BY Zenon
<1>1. CASE EchoRun
  <2>1. (IF outcome = "nil" THEN NoErr ELSE RunErr) \in {NoErr, RunErr}
    BY Zenon
  <2>. QED  BY <1>1, <2>1, Zenon DEF EchoRun, Next
<1>2. CASE EchoStop
  BY <1>2, Zenon DEF EchoStop, Next
<1>. QED  BY <1>1, <1>2, Zenon DEF AppNext, appVars, Next

(* It is, for the server, a step of the server or the end of its context.   *)
LEMMA StepOfServer == EchoInv /\ [AppNext]_appVars => [EchoNext]_echoVars
<1>. SUFFICES ASSUME EchoInv, [AppNext]_appVars PROVE [EchoNext]_echoVars
  BY Zenon
<1>0. ctxDone \in BOOLEAN
  BY Zenon DEF EchoInv, EchoTypes
<1>1. ASSUME ctxDone' \in {ctxDone, TRUE},
             UNCHANGED <<starter, outcome, server, serverErr, serverCh, listener, closing, appShut, conns>>
      PROVE  [EchoNext]_echoVars
  <2>1. CASE ctxDone' = ctxDone
    BY <1>1, <2>1, Zenon DEF echoVars
  <2>2. CASE ctxDone' # ctxDone
    BY <1>0, <1>1, <2>2, Zenon DEF EchoNext, ContextEnds
  <2>. QED  BY <2>1, <2>2, Zenon
<1>2. CASE EchoStop
  BY <1>1, <1>2, Zenon DEF EchoStop
<1>3. CASE DeferredCancel
  <2>1. ctxDone' \in {ctxDone, TRUE}
    BY <1>0, <1>3, Zenon DEF DeferredCancel
  <2>. QED  BY <1>1, <1>3, <2>1, Zenon DEF DeferredCancel
<1>4. CASE EchoRun
  BY <1>4, Zenon DEF EchoRun
<1>. QED  BY <1>2, <1>3, <1>4, Zenon DEF AppNext, appVars, EchoNext

(* The three ways to start satisfy the invariant.                           *)
LEMMA AppInvInit == AppInit => AppInv
<1>. SUFFICES ASSUME AppInit PROVE AppInv
  BY Zenon
<1>1. EchoIdle => EchoInv
  <2>. SUFFICES ASSUME EchoIdle PROVE EchoInv
    BY Zenon
  <2>1. EchoTypes /\ StarterInv /\ ServerInv /\ NilMeansDrained
    BY Zenon DEF EchoIdle, EchoTypes, StarterInv, ServerInv, NilMeansDrained
  <2>2. conns \in 0..MaxConns
    BY ConnsAssumption DEF EchoIdle
  <2>. QED  BY <2>1, <2>2, Zenon DEF EchoInv
<1>2. RunnerInv /\ EchoInv
  BY <1>1, RunnerInvInit, RunnerInvIdle, EchoInvInit, Zenon DEF AppInit
<1>3. ASSUME runnable = "echo" PROVE app.at = "call" /\ stop.at = "none" /\ stopErrCh = <<>> /\ main = "wait" /\ ~appShut
  <2>1. Init /\ EchoInit
    BY <1>3, Zenon DEF AppInit
  <2>. QED  BY <2>1, Zenon DEF Init, EchoInit, At
<1>. QED  BY <1>2, <1>3, Zenon DEF AppInv, RunnableInv

(* Every step of the composition keeps it.                                  *)
LEMMA AppInvNext == AppInv /\ [AppNext]_appVars => AppInv'
<1>. SUFFICES ASSUME AppInv, [AppNext]_appVars PROVE AppInv'
  BY Zenon
<1>1. RunnerInv' /\ EchoInv'
  BY StepOfRunner, StepOfServer, RunnerInvNext, EchoInvNext, Zenon DEF AppInv
<1>2. RunnableInv'
  <2>. SUFFICES ASSUME runnable' = "echo" PROVE RunnableInv'
    BY Zenon DEF RunnableInv
  <2>. USE DEF AppInv, RunnableInv, RunnerInv, GoroutineInv, ChannelInv, DoneAfterAll
  <2>1. CASE UNCHANGED appVars
    BY <2>1, Zenon DEF appVars, vars, echoVars
  <2>2. runnable = "echo"
    BY Zenon DEF AppNext, appVars, EchoRun, EchoStop
  <2>3. CASE EchoRun
    BY <2>2, <2>3, Zenon DEF EchoRun, RunReturns, echoVars
  <2>4. CASE EchoStop
    BY <2>2, <2>4, Zenon DEF EchoStop, StopReturns
  <2>5. ASSUME Signal \/ DeadlinePasses \/ Main \/ App \/ Stop \/ CloseDone, DeferredCancel
        PROVE  RunnableInv'
    <3>0. UNCHANGED <<starter, outcome, appShut>> /\ (ctxDone \/ main' = "returned" => ctxDone')
      BY <2>5, Zenon DEF DeferredCancel
    <3>1. CASE Signal \/ DeadlinePasses \/ CloseDone
      BY <2>2, <3>0, <3>1, Zenon DEF Signal, DeadlinePasses, CloseDone
    <3>2. CASE App
      BY <2>2, <3>0, <3>2, Zenon DEF App, AppSend, AppLeave
    <3>3. CASE Stop
      BY <2>2, <3>0, <3>3, ZenonT(30) DEF Stop, StopSend, StopLeave
    <3>4. CASE TakeSignal \/ TakeRunResult
      BY <2>2, <3>0, <3>4 DEF TakeSignal, TakeRunResult, StartShutdown, At
    <3>5. CASE TakeStopError
      BY <2>2, <3>5, Zenon DEF TakeStopError
    <3>6. CASE TakeDeadline
      BY <2>2, <3>0, <3>6, RunnerAssumption, Zenon DEF TakeDeadline, ReturnWith
    <3>7. CASE TakeDone
      BY <2>2, <3>0, <3>7, Zenon DEF TakeDone, ReturnWith
    <3>. QED  BY <2>5, <3>1, <3>2, <3>3, <3>4, <3>5, <3>6, <3>7, Zenon DEF Main
  <2>6. ASSUME StartSteps \/ ServerSteps \/ Accept \/ Respond, UNCHANGED vars
        PROVE  RunnableInv'
    BY <2>2, <2>6, Zenon DEF StartSteps, ServerSteps, Accept, Respond, TakeContextDone, Shutdown, TakeServerError,
      StartReturns, Listen, Serve, ServeEnds, Send, vars
  <2>. QED  BY <2>1, <2>2, <2>3, <2>4, <2>5, <2>6, Zenon DEF AppNext
<1>. QED  BY <1>1, <1>2, Zenon DEF AppInv

(* The runner with the server, or with anything else, implements the runner *)
(* with an arbitrary Runnable: it starts as Init or has ended, and each of  *)
(* its steps is one of Next, so that what is proved of Next is proved of it.*)
THEOREM ComposedIsRunner == AppSpec => (Init \/ RunnerIdle) /\ [][Next]_vars
<1>1. AppInit => Init \/ RunnerIdle
  BY Zenon DEF AppInit
<1>. QED  BY <1>1, StepOfRunner, PTL DEF AppSpec

(* performGracefulShutdown over Start: success means that the server is     *)
(* through with every request it took, unless Run's error was never read.   *)
THEOREM CleanExitHolds == AppSpec => []CleanExit
<1>1. AppInv => CleanExit
  <2>. SUFFICES ASSUME AppInv, runnable = "echo", main = "returned", result = NoErr
                PROVE  starter = "returned" /\ (conns = 0 \/ errCh = <<RunErr>>)
    BY Zenon DEF CleanExit
  <2>1. starter = "returned" /\ ~appShut /\ app.at = "ended" /\ app.err = (IF outcome = "nil" THEN NoErr ELSE RunErr)
    BY Zenon DEF AppInv, RunnableInv
  <2>2. CASE outcome = "nil"
    BY <2>1, <2>2, Zenon DEF AppInv, EchoInv, NilMeansDrained
  <2>3. CASE outcome # "nil"
    BY <2>1, <2>3, RunnerAssumption, Zenon DEF AppInv, RunnerInv, ChannelInv, MainInv
  <2>. QED  BY <2>1, <2>2, <2>3, Zenon
<1>. QED  BY <1>1, AppInvInit, AppInvNext, PTL DEF AppSpec
(* What is proved of the runner and of the server each on its own also      *)
(* holds when the one runs the other.                                       *)
THEOREM ComposedSafe ==
  AppSpec => [](DoneAfterAll /\ FailureReported /\ NilMeansDrained /\ FailureTold)
<1>1. AppInv => DoneAfterAll /\ FailureReported /\ NilMeansDrained /\ FailureTold
  BY RunnerInvReports, Zenon DEF AppInv, RunnerInv, EchoInv, StarterInv, FailureTold
<1>. QED  BY <1>1, AppInvInit, AppInvNext, PTL DEF AppSpec
=============================================================================
