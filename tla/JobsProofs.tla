----------------------------- MODULE JobsProofs -----------------------------
(* Proofs for every value of the constants about work done in steps:        *)
(* migrations by any number of callers, where the calls on an SQLite        *)
(* database take turns (Migrations), DownloadFiles (Downloads) and the      *)
(* workflow that waits for a gate (WorkflowGate).                           *)
EXTENDS Migrations, Downloads, WorkflowGate, Recursion
-----------------------------------------------------------------------------
(* Migrations.                                                              *)


(* The places of a call: with the lock held, changing the version, and      *)
(* before the version is read.                                              *)
Holding == Locked \cup {"table"}
Moving  == {"mark", "run", "clean"}
Pending == {"reserve", "ensure", "table", "lock", "read"}

(* Callers have different connections, one that holds the lock holds it    *)
(* through its connection, and only one call is active on SQLite.          *)
LockInv ==
  /\ \A p, q \in Procs : p # q /\ conn[p] # NoConn => conn[p] # conn[q]
  /\ dialect # "sqlite" => \A p \in Procs :
       /\ pc[p] \in {"ensure", "lock", "late"} => conn[p] # NoConn
       /\ pc[p] \in Holding =>
            conn[p] # NoConn /\ lock.holder = conn[p] /\ lock.count > 0
  /\ dialect = "sqlite" => \A p, q \in Procs :
       pc[p] # "idle" /\ pc[q] # "idle" => p = q

(* The version migration target[p].run starts from. *)
From(p) == IF call[p].kind = "up" THEN PrevVersion(target[p].run) ELSE target[p].run

(* The call is at a migration of its own direction. *)
Leads(p) ==
  \/ call[p].kind = "up" /\ target[p].version = target[p].run
  \/ /\ call[p].kind = "down" /\ target[p].version = PrevVersion(target[p].run)
     /\ call[p].arg \in 1 .. N + 1

(* While a migration is under way the schema is known exactly: before its  *)
(* script it is the one of From, after it the one of the target version.   *)
StepInv ==
  \A p \in Procs :
    /\ pc[p] = "mark" => ~ledger.dirty /\ Leads(p) /\ schema = SchemaAt(From(p))
    /\ pc[p] = "run" => ledger.dirty /\ Leads(p) /\ schema = SchemaAt(From(p))
    /\ pc[p] = "clean" =>
         ledger.dirty /\ Leads(p) /\ schema = SchemaAt(target[p].version)

(* Until MigrateForce has written the ledger it stays dirty, so that       *)
(* nobody migrates and the repaired schema stays as it is.                 *)
ForceInv ==
  \A p \in Procs :
    call[p].kind = "force" /\ pc[p] \in Pending =>
      /\ ledger.dirty /\ call[p].arg \in Version /\ schema = SchemaAt(call[p].arg)
      /\ \A q \in Procs : pc[q] \notin Moving
      /\ \A q \in Procs : call[q].kind = "force" /\ pc[q] \in Pending => p = q

(* What the version table says of the schema.                               *)
LedgerInv == CleanMeansApplied /\ StepInv /\ ForceInv /\ UpReached

(* The inductive invariant of the callers.                                  *)
IndInv == TypeOK /\ LockInv /\ LedgerInv
-----------------------------------------------------------------------------
(* PrevVersion undoes NextVersion, and both stay among the versions.       *)
LEMMA VersionSteps ==
  /\ \A v \in Version : v # N => NextVersion(v) \in 1 .. N /\ PrevVersion(NextVersion(v)) = v
  /\ \A i \in 1 .. N : PrevVersion(i) \in Version
  /\ \A v \in Version : v # Nil => v \in 1 .. N
  /\ 1 .. N \subseteq Version /\ Nil \in Version
  /\ N \in Version /\ 1 \in 1 .. N
BY MigrationsAssumption DEF Version, NextVersion, PrevVersion, Nil

(* Running one script takes the schema of a version to its neighbour's.    *)
LEMMA SchemaSteps ==
  ASSUME NEW i \in 1 .. N
  PROVE  /\ [SchemaAt(PrevVersion(i)) EXCEPT ![i] = "yes"] = SchemaAt(i)
         /\ [SchemaAt(i) EXCEPT ![i] = "no"] = SchemaAt(PrevVersion(i))
<1>1. \A j \in 1 .. N : j <= i <=> j = i \/ j <= PrevVersion(i)
  BY MigrationsAssumption DEF PrevVersion, Nil
<1>2. ~ (i <= PrevVersion(i))
  BY MigrationsAssumption DEF PrevVersion, Nil
<1>. HIDE DEF PrevVersion
<1>3. [SchemaAt(PrevVersion(i)) EXCEPT ![i] = "yes"] = SchemaAt(i)
  BY <1>1, Zenon DEF SchemaAt
<1>4. [SchemaAt(i) EXCEPT ![i] = "no"] = SchemaAt(PrevVersion(i))
  BY <1>1, <1>2, Zenon DEF SchemaAt
<1>. QED  BY <1>3, <1>4, Zenon

(* Both kinds of row are rows of the ledger. *)
LEMMA RowType ==
  \A v \in Version :
    /\ [version |-> v, dirty |-> TRUE] \in [version : Version, dirty : BOOLEAN]
    /\ [version |-> v, dirty |-> FALSE] \in [version : Version, dirty : BOOLEAN]
BY Zenon

(* SchemaAt is a schema. *)
LEMMA SchemaAtType ==
  \A v \in Version : SchemaAt(v) \in [1 .. N -> {"no", "part", "yes"}]
BY Zenon DEF SchemaAt

(* The lock and the connections exclude: only one caller at a time is      *)
(* inside Lock and Unlock.                                                 *)
LEMMA Exclusion ==
  ASSUME TypeOK, LockInv
  PROVE  \A p, q \in Procs : pc[p] \in Holding /\ pc[q] \in Holding => p = q
<1>1. CASE dialect = "sqlite"
  <2>1. "idle" \notin Holding
    BY Zenon DEF Holding, Locked
  <2>. QED
    BY <1>1, <2>1, Zenon DEF LockInv
<1>2. CASE dialect # "sqlite"
  BY <1>2, Zenon DEF LockInv
<1>. QED
  BY <1>1, <1>2, Zenon

(* What the calls may ask for. *)
LEMMA CallType ==
  ASSUME NEW c \in Call
  PROVE  /\ c \in [kind : {"up", "down", "force"}, arg : Version \cup 0 .. N + 1]
         /\ c.kind = "force" => c.arg \in Version
BY MigrationsAssumption DEF Call, Version, Nil

(* Where a call goes next, and what of its own state changes. *)
LEMMA AdvanceType ==
  ASSUME TypeOK, NEW p \in Procs, NEW v \in Version, NEW left \in Int,
         Advance(p, v, left)
  PROVE  /\ target' \in [Procs -> [run : 1 .. N, version : Version]]
         /\ ok' \in [Procs -> BOOLEAN]
         /\ \E l \in {"mark", "unlock"} : pc' = [pc EXCEPT ![p] = l]
<1>. USE DEF TypeOK, Goto
<1>1. CASE /\ call[p].kind = "up" /\ v # N
           /\ target' = [target EXCEPT ![p] =
                           [run |-> NextVersion(v), version |-> NextVersion(v)]]
           /\ Goto(p, "mark") /\ UNCHANGED ok
  <2>1. NextVersion(v) \in 1 .. N /\ NextVersion(v) \in Version
    BY <1>1, VersionSteps, Zenon
  <2>. QED  BY <1>1, <2>1, Zenon
<1>2. CASE /\ call[p].kind = "down" /\ left > 0 /\ v # Nil
           /\ target' = [target EXCEPT ![p] = [run |-> v, version |-> PrevVersion(v)]]
           /\ Goto(p, "mark") /\ UNCHANGED ok
  <2>1. v \in 1 .. N /\ PrevVersion(v) \in Version
    BY <1>2, VersionSteps, Zenon
  <2>. QED  BY <1>2, <2>1, Zenon
<1>3. CASE /\ Goto(p, "unlock") /\ UNCHANGED target
           /\ ok' = ok \/ ok' = [ok EXCEPT ![p] = FALSE]
  BY <1>3, Zenon
<1>. QED  BY <1>1, <1>2, <1>3, Zenon DEF Advance

(* The locals of a goroutine that is in no call have their types. *)
LEMMA LocalsType ==
  /\ NoCall \in [kind : {"up", "down", "force"}, arg : Version \cup 0 .. N + 1]
  /\ NoTarget \in [run : 1 .. N, version : Version]
BY VersionSteps, MigrationsAssumption DEF NoCall, NoTarget

(* Every step keeps the types. *)
LEMMA TypeStep ==
  ASSUME IndInv, [Next]_vars
  PROVE  TypeOK'
<1>. USE DEF IndInv, TypeOK, Goto, Locked
<1>1. ASSUME NEW p \in Procs, NEW c \in Call, Begin(p, c)
      PROVE  TypeOK'
  <2>1. /\ c \in [kind : {"up", "down", "force"}, arg : Version \cup 0 .. N + 1]
        /\ c.kind = "force" => c.arg \in Version
    BY CallType, Zenon
  <2>2. schema' \in [1 .. N -> {"no", "part", "yes"}]
    BY <1>1, <2>1, SchemaAtType DEF Begin
  <2>. QED  BY <1>1, <2>1, <2>2, VersionSteps, Zenon DEF Begin
<1>2. ASSUME NEW p \in Procs, Reserve(p)
      PROVE  TypeOK'
  BY <1>2, SMTT(30) DEF Reserve
<1>3. ASSUME NEW p \in Procs, EnsureLock(p)
      PROVE  TypeOK'
  BY <1>3 DEF EnsureLock, TakeLock, CanLock
<1>4. ASSUME NEW p \in Procs, EnsureUnlock(p)
      PROVE  TypeOK'
  <2>1. lock' \in [holder : Conns \cup {NoConn}, count : Nat]
    BY <1>4 DEF EnsureUnlock, DropLock, LockInv, Holding
  <2>. QED  BY <1>4, <2>1, ZenonT(30) DEF EnsureUnlock
<1>5. ASSUME NEW p \in Procs, FailEarly(p)
      PROVE  TypeOK'
  BY <1>5, Zenon DEF FailEarly
<1>6. ASSUME NEW p \in Procs, Lock(p)
      PROVE  TypeOK'
  BY <1>6 DEF Lock, TakeLock, CanLock
<1>7. ASSUME NEW p \in Procs, LockTimeout(p)
      PROVE  TypeOK'
  BY <1>7, Zenon DEF LockTimeout
<1>8. ASSUME NEW p \in Procs, LateLock(p)
      PROVE  TypeOK'
  BY <1>8 DEF LateLock, TakeLock, CanLock
<1>9. ASSUME NEW p \in Procs, ReadVersion(p)
      PROVE  TypeOK'
  <2>1. ledger.version \in Version /\ call[p].arg \in Int
    BY MigrationsAssumption DEF Version, Nil
  <2>2. CASE Fail(p)
    BY <1>9, <2>2, Zenon DEF ReadVersion, Fail
  <2>3. CASE Advance(p, ledger.version, call[p].arg)
    <3>1. /\ target' \in [Procs -> [run : 1 .. N, version : Version]]
          /\ ok' \in [Procs -> BOOLEAN]
          /\ \E l \in {"mark", "unlock"} : pc' = [pc EXCEPT ![p] = l]
      <4>. HIDE DEF TypeOK
      <4>. QED  BY <2>1, <2>3, AdvanceType, Zenon
    <3>. QED  BY <1>9, <3>1 DEF ReadVersion
  <2>. QED  BY <1>9, <2>2, <2>3, Zenon DEF ReadVersion
<1>10. ASSUME NEW p \in Procs, ForceVersion(p)
      PROVE  TypeOK'
  <2>1. call[p].arg \in Version
    BY <1>10, Zenon DEF ForceVersion, LedgerInv, ForceInv, Pending
  <2>2. ledger' \in [version : Version, dirty : BOOLEAN]
    <3>1. \/ ledger' = [version |-> call[p].arg, dirty |-> FALSE]
          \/ ledger' = ledger
      BY <1>10, <2>1, MigrationsAssumption
      DEF ForceVersion, SetVersion, NoRow, Version, Nil
    <3>. QED  BY <2>1, <3>1, RowType, Zenon
  <2>. QED  BY <1>10, <2>2, Zenon DEF ForceVersion, Fail
<1>11. ASSUME NEW p \in Procs, MarkDirty(p)
      PROVE  TypeOK'
  <2>1. ledger' \in [version : Version, dirty : BOOLEAN]
    <3>1. target[p].version \in Version
      BY <1>11, Zenon
    <3>2. \/ ledger' = [version |-> target[p].version, dirty |-> TRUE]
          \/ ledger' = ledger
      BY <1>11, <3>1, MigrationsAssumption
      DEF MarkDirty, SetVersion, NoRow, Version, Nil
    <3>. QED  BY <3>1, <3>2, RowType, Zenon
  <2>. QED  BY <1>11, <2>1, ZenonT(30) DEF MarkDirty, Fail
<1>12. ASSUME NEW p \in Procs, RunScript(p)
      PROVE  TypeOK'
  BY <1>12, ZenonT(30) DEF RunScript, Fail
<1>13. ASSUME NEW p \in Procs, MarkClean(p)
      PROVE  TypeOK'
  <2> DEFINE left == IF call[p].kind = "down" THEN call[p].arg - 1 ELSE 0
  <2>1. target[p].version \in Version /\ left \in 0 .. N + 1
    <3>1. Leads(p)
      BY <1>13, Zenon DEF MarkClean, LedgerInv, StepInv
    <3>2. target[p].version \in Version
      BY <1>13, Zenon
    <3>. QED  BY <3>1, <3>2, MigrationsAssumption DEF Leads
  <2>2. ledger' \in [version : Version, dirty : BOOLEAN]
    <3>1. \/ ledger' = [version |-> target[p].version, dirty |-> FALSE]
          \/ ledger' = ledger
      BY <1>13, <2>1, MigrationsAssumption
      DEF MarkClean, SetVersion, NoRow, Version, Nil
    <3>. QED  BY <2>1, <3>1, RowType, Zenon
  <2>3. call' \in [Procs -> [kind : {"up", "down", "force"},
                            arg : Version \cup 0 .. N + 1]]
    <3>1. \/ call' = [call EXCEPT ![p] = [kind |-> call[p].kind, arg |-> left]]
          \/ call' = call
      BY <1>13, Zenon DEF MarkClean
    <3>2. call[p].kind \in {"up", "down", "force"}
      BY <1>13, Zenon
    <3>3. [kind |-> call[p].kind, arg |-> left]
            \in [kind : {"up", "down", "force"}, arg : Version \cup 0 .. N + 1]
      BY <2>1, <3>2, Zenon
    <3>. HIDE DEF left
    <3>. QED  BY <3>1, <3>3, Zenon
  <2>4. CASE Fail(p)
    BY <1>13, <2>2, <2>3, <2>4, Zenon DEF MarkClean, Fail
  <2>5. CASE Advance(p, target[p].version, left)
    <3>1. left \in Int
      BY <2>1
    <3>2. /\ target' \in [Procs -> [run : 1 .. N, version : Version]]
          /\ ok' \in [Procs -> BOOLEAN]
          /\ \E l \in {"mark", "unlock"} : pc' = [pc EXCEPT ![p] = l]
      <4>. HIDE DEF TypeOK, left
      <4>. QED  BY <2>1, <2>5, <3>1, AdvanceType, Zenon
    <3>. QED  BY <1>13, <2>2, <2>3, <3>2, SMTT(30) DEF MarkClean
  <2>. QED  BY <1>13, <2>4, <2>5, Zenon DEF MarkClean
<1>14. ASSUME NEW p \in Procs, Unlock(p)
      PROVE  TypeOK'
  <2>1. lock' \in [holder : Conns \cup {NoConn}, count : Nat]
    BY <1>14 DEF Unlock, DropLock, LockInv, Holding
  <2>. QED  BY <1>14, <2>1, Zenon DEF Unlock
<1>15. ASSUME NEW p \in Procs, Close(p)
      PROVE  TypeOK'
  BY <1>15, LocalsType, Zenon DEF Close, Return
<1>16. CASE Crash
  BY <1>16, LocalsType, Zenon DEF Crash, NoLock
<1>17. CASE UNCHANGED vars
  BY <1>17, Zenon DEF vars
<1>18. ASSUME NEW p \in Procs, UnlockFails(p)
      PROVE  TypeOK'
  <2>1. lock' \in [holder : Conns \cup {NoConn}, count : Nat]
    BY <1>18 DEF UnlockFails, NoLock
  <2>. QED  BY <1>18, <2>1, Zenon DEF UnlockFails
<1>. HIDE DEF IndInv, TypeOK
<1>. QED
  BY <1>1, <1>2, <1>3, <1>4, <1>5, <1>6, <1>7, <1>8, <1>9, <1>10, <1>11, <1>12, <1>13, <1>14, <1>15, <1>16, <1>17, <1>18, ZenonT(30) DEF Next, Waits, Works

(* A step between Lock and Unlock leaves the lock and the connections. *)
LEMMA HoldStep ==
  ASSUME IndInv, NEW p \in Procs, pc[p] \in Locked,
         UNCHANGED <<dialect, lock, conn>>,
         NEW l \in Locked, pc' = [pc EXCEPT ![p] = l]
  PROVE  LockInv'
BY DEF IndInv, TypeOK, LockInv, Holding, Locked

(* Every step keeps the lock with the one caller that holds it. *)
LEMMA LockStep ==
  ASSUME "sqlite" \notin Overlap, IndInv, [Next]_vars
  PROVE  LockInv'
<1>. USE DEF Goto, Holding, Locked
<1>0. TypeOK /\ LockInv
  BY Zenon DEF IndInv
<1>1. ASSUME NEW p \in Procs, NEW c \in Call, Begin(p, c)
      PROVE  LockInv'
  BY <1>0, <1>1, SMTT(30) DEF TypeOK, LockInv, Begin
<1>2. ASSUME NEW p \in Procs, Reserve(p)
      PROVE  LockInv'
  BY <1>0, <1>2, MigrationsAssumption, SMTT(30) DEF TypeOK, LockInv, Reserve
<1>3. ASSUME NEW p \in Procs, EnsureLock(p)
      PROVE  LockInv'
  BY <1>0, <1>3 DEF TypeOK, LockInv, EnsureLock, TakeLock, CanLock
<1>4. ASSUME NEW p \in Procs, EnsureUnlock(p)
      PROVE  LockInv'
  <2>1. CASE Goto(p, "lock")
    BY <1>0, <1>4, <2>1, Exclusion, SMTT(30) DEF TypeOK, LockInv, EnsureUnlock, DropLock
  <2>2. CASE Goto(p, "close")
    BY <1>0, <1>4, <2>2, Exclusion, SMTT(30) DEF TypeOK, LockInv, EnsureUnlock, DropLock
  <2>. QED  BY <1>4, <2>1, <2>2, ZenonT(30) DEF EnsureUnlock
<1>5. ASSUME NEW p \in Procs, FailEarly(p)
      PROVE  LockInv'
  BY <1>0, <1>5, SMTT(30) DEF TypeOK, LockInv, FailEarly
<1>6. ASSUME NEW p \in Procs, Lock(p)
      PROVE  LockInv'
  BY <1>0, <1>6, SMTT(30) DEF TypeOK, LockInv, Lock, TakeLock, CanLock
<1>7. ASSUME NEW p \in Procs, LockTimeout(p)
      PROVE  LockInv'
  BY <1>0, <1>7, SMTT(30) DEF TypeOK, LockInv, LockTimeout
<1>8. ASSUME NEW p \in Procs, LateLock(p)
      PROVE  LockInv'
  BY <1>0, <1>8 DEF TypeOK, LockInv, LateLock, TakeLock, CanLock
<1>9. ASSUME NEW p \in Procs, ReadVersion(p)
      PROVE  LockInv'
  BY <1>9, HoldStep, Zenon DEF ReadVersion, Fail, Advance
<1>10. ASSUME NEW p \in Procs, ForceVersion(p)
      PROVE  LockInv'
  BY <1>10, HoldStep, Zenon DEF ForceVersion, Fail
<1>11. ASSUME NEW p \in Procs, MarkDirty(p)
      PROVE  LockInv'
  BY <1>11, HoldStep, Zenon DEF MarkDirty, Fail
<1>12. ASSUME NEW p \in Procs, RunScript(p)
      PROVE  LockInv'
  BY <1>12, HoldStep, Zenon DEF RunScript, Fail
<1>13. ASSUME NEW p \in Procs, MarkClean(p)
      PROVE  LockInv'
  BY <1>13, HoldStep, ZenonT(30) DEF MarkClean, Fail, Advance
<1>14. ASSUME NEW p \in Procs, Unlock(p)
      PROVE  LockInv'
  BY <1>0, <1>14, Exclusion, SMTT(30) DEF TypeOK, LockInv, Unlock, DropLock
<1>15. ASSUME NEW p \in Procs, Close(p)
      PROVE  LockInv'
  BY <1>0, <1>15 DEF TypeOK, LockInv, Close, Return
<1>16. CASE Crash
  BY <1>0, <1>16, Zenon DEF TypeOK, LockInv, Crash
<1>17. CASE UNCHANGED vars
  BY <1>0, <1>17, Zenon DEF vars, LockInv
<1>18. ASSUME NEW p \in Procs, UnlockFails(p)
      PROVE  LockInv'
  BY <1>0, <1>18, Exclusion, SMTT(30) DEF TypeOK, LockInv, UnlockFails
<1>. QED
  BY <1>1, <1>2, <1>3, <1>4, <1>5, <1>6, <1>7, <1>8, <1>9, <1>10, <1>11, <1>12, <1>13, <1>14, <1>15, <1>16, <1>17, <1>18, ZenonT(30) DEF Next, Waits, Works

(* Waiting for a connection or the lock, and leaving, touch nothing that   *)
(* the ledger is about.                                                    *)
LEMMA QuietStep ==
  ASSUME IndInv, NEW p \in Procs, NEW l, l \notin Moving, l # "unlock",
         l \in Pending => pc[p] \in Pending,
         pc' = [pc EXCEPT ![p] = l],
         UNCHANGED <<ledger, schema, call, target>>,
         ok' = ok \/ ok' = [ok EXCEPT ![p] = FALSE]
  PROVE  LedgerInv'
<1>. USE DEF IndInv, TypeOK, LedgerInv
<1>1. CleanMeansApplied'
  BY ZenonT(30) DEF CleanMeansApplied, SchemaAt
<1>2. StepInv'
  BY DEF StepInv, Moving, Leads, From, SchemaAt, PrevVersion
<1>3. ForceInv'
  BY DEF ForceInv, SchemaAt
<1>4. UpReached'
  BY DEF UpReached, SchemaAt
<1>. QED  BY <1>1, <1>2, <1>3, <1>4, Zenon

(* A caller that fails leaves the ledger, dirty or not, as it is. *)
LEMMA FailStep ==
  ASSUME IndInv, NEW p \in Procs, pc[p] \in Locked, Fail(p),
         UNCHANGED <<ledger, schema, call>>
  PROVE  LedgerInv'
<1>. USE DEF IndInv, TypeOK, LedgerInv, Fail, Goto
<1>1. CleanMeansApplied'
  BY Zenon DEF CleanMeansApplied, SchemaAt
<1>2. StepInv'
  BY DEF StepInv, Leads, From, SchemaAt, PrevVersion
<1>3. ForceInv'
  BY DEF ForceInv, SchemaAt, Moving, Pending
<1>4. UpReached'
  BY Zenon DEF UpReached, SchemaAt
<1>. QED  BY <1>1, <1>2, <1>3, <1>4, Zenon

(* A caller that holds the lock, a clean ledger that is true and no force  *)
(* pending: the call goes on to its next migration or ends.                *)
LEMMA AdvanceStep ==
  ASSUME IndInv, NEW p \in Procs, pc[p] \in Locked, call[p].kind # "force",
         NEW v \in Version, NEW left \in Int, left <= N + 1,
         Advance(p, v, left),
         ledger' = [version |-> v, dirty |-> FALSE],
         schema' = schema, schema = SchemaAt(v),
         \A q \in Procs : call'[q].kind = call[q].kind,
         call[p].kind = "down" => call'[p].arg = left,
         \A q \in Procs : ~ (call[q].kind = "force" /\ pc[q] \in Pending)
  PROVE  LedgerInv'
<1>1. PICK l \in {"mark", "unlock"} : pc' = [pc EXCEPT ![p] = l]
  BY AdvanceType, Zenon DEF IndInv
<1>2. \A q \in Procs : q # p => pc'[q] \notin Holding
  BY <1>1, Exclusion DEF IndInv, TypeOK, Holding
<1>3. pc'[p] = l
  BY <1>1, Zenon DEF IndInv, TypeOK
<1>4. SchemaAt(v)' = SchemaAt(v)
  BY Zenon DEF SchemaAt
<1>5. CleanMeansApplied'
  BY <1>4, Zenon DEF CleanMeansApplied, SchemaAt
<1>6. StepInv'
  <2>1. ASSUME l = "mark"
        PROVE  Leads(p)' /\ From(p)' = v
    <3>1. CASE call[p].kind = "up"
      <4>1. /\ v # N
            /\ target' = [target EXCEPT ![p] =
                            [run |-> NextVersion(v), version |-> NextVersion(v)]]
        BY <1>1, <1>3, <2>1, <3>1, Zenon DEF Advance, Goto, IndInv, TypeOK
      <4>2. target'[p] = [run |-> NextVersion(v), version |-> NextVersion(v)]
        BY <4>1, Zenon DEF IndInv, TypeOK
      <4>3. PrevVersion(NextVersion(v)) = v
        BY <4>1, VersionSteps, Zenon
      <4>. QED  BY <3>1, <4>2, <4>3 DEF Leads, From, PrevVersion, Nil
    <3>2. CASE call[p].kind = "down"
      <4>1. /\ left > 0
            /\ target' = [target EXCEPT ![p] = [run |-> v, version |-> PrevVersion(v)]]
        BY <1>1, <1>3, <2>1, <3>2, Zenon DEF Advance, Goto, IndInv, TypeOK
      <4>2. target'[p] = [run |-> v, version |-> PrevVersion(v)]
        BY <4>1, Zenon DEF IndInv, TypeOK
      <4>3. call'[p].arg \in 1 .. N + 1
        <5>1. left \in 1 .. N + 1
          BY <4>1, MigrationsAssumption, SMTT(30)
        <5>. QED  BY <3>2, <5>1, Zenon
      <4>. QED  BY <3>2, <4>2, <4>3 DEF Leads, From, PrevVersion, Nil
    <3>. QED  BY <3>1, <3>2, Zenon DEF IndInv, TypeOK
  <2>. QED  BY <1>1, <1>2, <1>3, <2>1, Zenon DEF StepInv, Holding, Locked, SchemaAt
<1>7. ForceInv'
  BY <1>1, <1>3 DEF ForceInv, Pending, IndInv, TypeOK
<1>8. UpReached'
  <2>1. ASSUME l = "unlock", ok'[p], call[p].kind = "up"
        PROVE  v = N
    BY <1>1, <1>3, <2>1, ZenonT(30) DEF Advance, Goto, IndInv, TypeOK
  <2>. QED  BY <1>2, <1>3, <2>1, Zenon DEF UpReached, Holding, Locked, SchemaAt
<1>. QED  BY <1>5, <1>6, <1>7, <1>8, Zenon DEF LedgerInv

(* Every step keeps the ledger true, or dirty. *)
LEMMA LedgerStep ==
  ASSUME "sqlite" \notin Overlap, IndInv, [Next]_vars
  PROVE  LedgerInv'
<1>0. /\ TypeOK /\ LockInv /\ CleanMeansApplied /\ StepInv /\ ForceInv /\ UpReached
      /\ \A p, q \in Procs : pc[p] \in Holding /\ pc[q] \in Holding => p = q
  BY Exclusion, Zenon DEF IndInv, LedgerInv
<1>. USE DEF Goto
<1>1. ASSUME NEW p \in Procs, NEW c \in Call, Begin(p, c)
      PROVE  LedgerInv'
  <2>1. PICK l \in {"ensure", "reserve"} : pc' = [pc EXCEPT ![p] = l]
    BY <1>1, ZenonT(30) DEF Begin
  <2>2. CASE c.kind = "force"
    <3>1. /\ ledger' = ledger /\ ledger.dirty /\ \A q \in Procs : pc[q] = "idle"
          /\ call' = [call EXCEPT ![p] = c] /\ schema' = SchemaAt(c.arg)
      BY <1>1, <2>2, Zenon DEF Begin
    <3>2. \A q \in Procs : pc'[q] \in {"idle", "ensure", "reserve"} /\ (pc'[q] # "idle" => q = p)
      BY <1>0, <2>1, <3>1, Zenon DEF TypeOK
    <3>3. call'[p] = c /\ c.arg \in Version
      BY <1>0, <2>2, <3>1, CallType, Zenon DEF TypeOK
    <3>. QED
      BY <3>1, <3>2, <3>3, SMTT(30)
      DEF LedgerInv, CleanMeansApplied, StepInv, ForceInv, UpReached, Pending, Moving, SchemaAt
  <2>3. CASE c.kind # "force"
    <3>1. /\ ledger' = ledger /\ schema' = schema
          /\ call' = [call EXCEPT ![p] = c] /\ pc[p] = "idle"
          /\ ok' = ok /\ target' = target
      BY <1>1, <2>3, Zenon DEF Begin
    <3>2. /\ pc'[p] = l /\ call'[p] = c
          /\ \A q \in Procs : q # p => /\ pc'[q] = pc[q] /\ call'[q] = call[q]
                                     /\ target'[q] = target[q] /\ ok'[q] = ok[q]
      BY <1>0, <2>1, <3>1, Zenon DEF TypeOK
    <3>3. CleanMeansApplied'
      BY <1>0, <3>1, Zenon DEF CleanMeansApplied, SchemaAt
    <3>4. StepInv'
      <4>1. \A q \in Procs : q # p =>
              /\ Leads(q)' <=> Leads(q)
              /\ SchemaAt(From(q))' = SchemaAt(From(q))
              /\ SchemaAt(target[q].version)' = SchemaAt(target[q].version)
        BY <3>2 DEF Leads, From, SchemaAt, PrevVersion
      <4>2. pc'[p] \notin {"mark", "run", "clean"}
        BY <2>1, <3>2, Zenon
      <4>. QED  BY <1>0, <3>1, <3>2, <4>1, <4>2, ZenonT(30) DEF StepInv
    <3>5. ForceInv'
      BY <1>0, <2>3, <3>1, <3>2, SMTT(30) DEF ForceInv, SchemaAt, Moving, Pending
    <3>6. UpReached'
      BY <1>0, <3>1, <3>2, Zenon DEF UpReached, SchemaAt
    <3>. QED  BY <3>3, <3>4, <3>5, <3>6, Zenon DEF LedgerInv
  <2>. QED  BY <2>2, <2>3, Zenon
<1>2. ASSUME NEW p \in Procs, Reserve(p)
      PROVE  LedgerInv'
  BY <1>2, QuietStep, Zenon DEF Reserve, Moving, Pending
<1>3. ASSUME NEW p \in Procs, EnsureLock(p)
      PROVE  LedgerInv'
  BY <1>3, QuietStep, Zenon DEF EnsureLock, Moving, Pending
<1>4. ASSUME NEW p \in Procs, EnsureUnlock(p)
      PROVE  LedgerInv'
  BY <1>4, QuietStep, Zenon DEF EnsureUnlock, Moving, Pending
<1>5. ASSUME NEW p \in Procs, FailEarly(p)
      PROVE  LedgerInv'
  BY <1>5, QuietStep, Zenon DEF FailEarly, Moving, Pending
<1>6. ASSUME NEW p \in Procs, Lock(p)
      PROVE  LedgerInv'
  BY <1>6, QuietStep, Zenon DEF Lock, Moving, Pending
<1>7. ASSUME NEW p \in Procs, LockTimeout(p)
      PROVE  LedgerInv'
  BY <1>7, QuietStep, Zenon DEF LockTimeout, Moving, Pending
<1>8. ASSUME NEW p \in Procs, LateLock(p)
      PROVE  LedgerInv'
  BY <1>8, QuietStep, Zenon DEF LateLock, Moving, Pending
<1>9. ASSUME NEW p \in Procs, Unlock(p)
      PROVE  LedgerInv'
  BY <1>9, QuietStep, Zenon DEF Unlock, Moving, Pending
<1>10. ASSUME NEW p \in Procs, Close(p)
      PROVE  LedgerInv'
  <2>1. /\ pc[p] = "close" /\ pc' = [pc EXCEPT ![p] = "idle"]
        /\ ledger' = ledger /\ schema' = schema
        /\ \A q \in Procs : q # p => /\ pc'[q] = pc[q] /\ call'[q] = call[q]
                                   /\ target'[q] = target[q] /\ ok'[q] = ok[q]
    BY <1>0, <1>10, Zenon DEF TypeOK, Close, Return
  <2>2. pc'[p] = "idle"
    BY <1>0, <2>1, Zenon DEF TypeOK
  <2>3. CleanMeansApplied' /\ UpReached'
    BY <1>0, <2>1, <2>2, SMTT(30) DEF CleanMeansApplied, UpReached, SchemaAt
  <2>4. StepInv'
    <3>1. \A q \in Procs : q # p =>
            /\ Leads(q)' <=> Leads(q)
            /\ SchemaAt(From(q))' = SchemaAt(From(q))
            /\ SchemaAt(target[q].version)' = SchemaAt(target[q].version)
      BY <2>1, SMTT(30) DEF Leads, From, SchemaAt, PrevVersion
    <3>. QED  BY <1>0, <2>1, <2>2, <3>1, SMTT(30) DEF StepInv
  <2>5. ForceInv'
    BY <1>0, <2>1, <2>2 DEF ForceInv, SchemaAt, Moving, Pending
  <2>. QED  BY <2>3, <2>4, <2>5, Zenon DEF LedgerInv
<1>11. ASSUME NEW p \in Procs, ReadVersion(p)
      PROVE  LedgerInv'
  <2>1. pc[p] \in Locked /\ UNCHANGED <<ledger, schema, call>>
    BY <1>11, Zenon DEF ReadVersion, Locked
  <2>2. CASE Fail(p)
    BY <2>1, <2>2, FailStep, Zenon
  <2>3. CASE ~ledger.dirty /\ Advance(p, ledger.version, call[p].arg)
    <3>1. ledger.version \in Version /\ call[p].arg \in Int /\ call[p].arg <= N + 1
      BY <1>0, MigrationsAssumption DEF TypeOK, Version, Nil
    <3>2. ledger' = [version |-> ledger.version, dirty |-> FALSE]
      BY <1>0, <2>1, <2>3, Zenon DEF TypeOK
    <3>3. \A q \in Procs : ~ (call[q].kind = "force" /\ pc[q] \in Pending)
      BY <1>0, <2>3, Zenon DEF ForceInv
    <3>4. call[p].kind # "force" /\ schema = SchemaAt(ledger.version)
      BY <1>0, <1>11, <2>3, Zenon DEF ReadVersion, CleanMeansApplied
    <3>. QED  BY <2>1, <2>3, <3>1, <3>2, <3>3, <3>4, AdvanceStep, ZenonT(30)
  <2>. QED  BY <1>11, <2>2, <2>3, Zenon DEF ReadVersion
<1>12. ASSUME NEW p \in Procs, ForceVersion(p)
      PROVE  LedgerInv'
  <2>1. /\ pc[p] = "read" /\ call[p].kind = "force" /\ call[p].arg \in Version
        /\ schema = SchemaAt(call[p].arg)
        /\ UNCHANGED <<schema, call>>
        /\ \A q \in Procs : pc[q] \notin Moving
        /\ \A q \in Procs : call[q].kind = "force" /\ pc[q] \in Pending => p = q
    BY <1>0, <1>12, Zenon DEF ForceVersion, ForceInv, Pending
  <2>2. CASE SetVersion(call[p].arg, FALSE)
    <3>1. ledger' = [version |-> call[p].arg, dirty |-> FALSE]
      <4>1. CASE call[p].arg = Nil
        BY <2>2, <4>1, Zenon DEF SetVersion, NoRow, Nil
      <4>2. CASE call[p].arg >= 0
        BY <2>2, <4>2, Zenon DEF SetVersion
      <4>. QED  BY <2>1, <4>1, <4>2, MigrationsAssumption, SMTT(30) DEF Version
    <3>2. pc' = [pc EXCEPT ![p] = "unlock"]
      BY <1>12, Zenon DEF ForceVersion, Fail
    <3>3. pc'[p] = "unlock" /\ \A q \in Procs : q # p => pc'[q] = pc[q] /\ pc[q] # "unlock"
      BY <1>0, <2>1, <3>2 DEF TypeOK, Holding, Locked
    <3>. QED
      BY <2>1, <3>1, <3>3, ZenonT(30)
      DEF LedgerInv, CleanMeansApplied, StepInv, ForceInv, UpReached, Pending, Moving, SchemaAt
  <2>3. CASE UNCHANGED ledger /\ Fail(p)
    BY <2>1, <2>3, FailStep, Zenon DEF Locked
  <2>. QED  BY <1>12, <2>2, <2>3, Zenon DEF ForceVersion
<1>13. ASSUME NEW p \in Procs, MarkDirty(p)
      PROVE  LedgerInv'
  <2>1. /\ pc[p] = "mark" /\ Leads(p) /\ schema = SchemaAt(From(p))
        /\ UNCHANGED <<schema, call>> /\ target[p].version \in Version
    BY <1>0, <1>13, Zenon DEF MarkDirty, StepInv, TypeOK
  <2>2. \A q \in Procs : ~ (call[q].kind = "force" /\ pc[q] \in Pending)
    BY <1>0, <2>1, Zenon DEF ForceInv, Moving
  <2>3. CASE UNCHANGED ledger /\ Fail(p)
    BY <2>1, <2>3, FailStep, Zenon DEF Locked
  <2>4. CASE SetVersion(target[p].version, TRUE)
    <3>1. ledger' = [version |-> target[p].version, dirty |-> TRUE]
      BY <2>1, <2>4, MigrationsAssumption DEF SetVersion, NoRow, Version, Nil
    <3>2. /\ target' = target
          /\ \/ pc' = [pc EXCEPT ![p] = "run"]
             \/ pc' = [pc EXCEPT ![p] = "unlock"] /\ ok' = [ok EXCEPT ![p] = FALSE]
      BY <1>13, <2>4, Zenon DEF MarkDirty, Fail
    <3>3. /\ pc'[p] = "run" \/ (pc'[p] = "unlock" /\ ~ok'[p])
          /\ \A q \in Procs : q # p => pc'[q] = pc[q] /\ pc[q] \notin Holding
      BY <1>0, <2>1, <3>2 DEF TypeOK, Holding, Locked
    <3>4. Leads(p)' /\ SchemaAt(From(p))' = SchemaAt(From(p))
      BY <2>1, <3>2, Zenon DEF Leads, From, SchemaAt, PrevVersion
    <3>5. StepInv'
      BY <2>1, <3>1, <3>3, <3>4, Zenon DEF StepInv, Holding, Locked
    <3>. QED
      BY <2>1, <2>2, <3>1, <3>3, <3>5, ZenonT(30)
      DEF LedgerInv, CleanMeansApplied, ForceInv, UpReached, Pending, Holding, Locked
  <2>. QED  BY <1>13, <2>3, <2>4, Zenon DEF MarkDirty
<1>14. ASSUME NEW p \in Procs, RunScript(p)
      PROVE  LedgerInv'
  <2> DEFINE i == target[p].run
             after == IF call[p].kind = "up" THEN "yes" ELSE "no"
  <2>1. /\ pc[p] = "run" /\ ledger.dirty /\ Leads(p) /\ schema = SchemaAt(From(p))
        /\ UNCHANGED <<ledger, call>> /\ i \in 1 .. N
    BY <1>0, <1>14, Zenon DEF RunScript, StepInv, TypeOK
  <2>2. \A q \in Procs : ~ (call[q].kind = "force" /\ pc[q] \in Pending)
    BY <1>0, <2>1, Zenon DEF ForceInv, Moving
  <2>3. target' = target
    BY <1>14, Zenon DEF RunScript, Fail
  <2>4. \/ pc' = [pc EXCEPT ![p] = "clean"] /\ schema' = [schema EXCEPT ![i] = after]
        \/ pc' = [pc EXCEPT ![p] = "unlock"] /\ ok' = [ok EXCEPT ![p] = FALSE]
    BY <1>14, Zenon DEF RunScript, Fail
  <2>5. /\ \/ pc'[p] = "clean" /\ schema' = [schema EXCEPT ![i] = after]
           \/ pc'[p] = "unlock" /\ ~ok'[p]
        /\ \A q \in Procs : q # p => pc'[q] = pc[q] /\ pc[q] \notin Holding
    BY <1>0, <2>1, <2>4, SMTT(30) DEF TypeOK, Holding, Locked
  <2>6. [schema EXCEPT ![i] = after] = SchemaAt(target[p].version)
    <3>1. CASE call[p].kind = "up"
      BY <2>1, <3>1, SchemaSteps, Zenon DEF Leads, From
    <3>2. CASE call[p].kind = "down"
      BY <2>1, <3>2, SchemaSteps, Zenon DEF Leads, From
    <3>. QED  BY <2>1, <3>1, <3>2, Zenon DEF Leads
  <2>7. Leads(p)' /\ SchemaAt(target[p].version)' = SchemaAt(target[p].version)
    BY <2>1, <2>3, Zenon DEF Leads, SchemaAt, PrevVersion
  <2>8. StepInv'
    BY <2>1, <2>5, <2>6, <2>7, Zenon DEF StepInv, Holding, Locked
  <2>. QED
    BY <2>1, <2>2, <2>5, <2>8, Zenon
    DEF LedgerInv, CleanMeansApplied, ForceInv, UpReached, Pending, Holding, Locked
<1>15. ASSUME NEW p \in Procs, MarkClean(p)
      PROVE  LedgerInv'
  <2> DEFINE left == IF call[p].kind = "down" THEN call[p].arg - 1 ELSE 0
             v == target[p].version
  <2>1. /\ pc[p] = "clean" /\ Leads(p) /\ schema = SchemaAt(v) /\ UNCHANGED schema
        /\ v \in Version
    BY <1>0, <1>15, Zenon DEF MarkClean, StepInv, TypeOK
  <2>2. \A q \in Procs : ~ (call[q].kind = "force" /\ pc[q] \in Pending)
    BY <1>0, <2>1, Zenon DEF ForceInv, Moving
  <2>3. left \in Int /\ left <= N + 1 /\ call[p].kind # "force"
    BY <2>1, MigrationsAssumption DEF Leads
  <2>4. CASE UNCHANGED <<ledger, call>> /\ Fail(p)
    BY <2>1, <2>4, FailStep, Zenon DEF Locked
  <2>5. CASE /\ SetVersion(v, FALSE)
             /\ call' = [call EXCEPT ![p] = [kind |-> call[p].kind, arg |-> left]]
             /\ Advance(p, v, left) \/ Fail(p)
    <3>. HIDE DEF left
    <3>1. ledger' = [version |-> v, dirty |-> FALSE]
      <4>1. CASE v = Nil
        BY <2>5, <4>1, Zenon DEF SetVersion, NoRow, Nil
      <4>2. CASE v >= 0
        BY <2>5, <4>2, Zenon DEF SetVersion
      <4>. QED  BY <2>1, <4>1, <4>2, MigrationsAssumption, SMTT(30) DEF Version
    <3>2. /\ \A q \in Procs : call'[q].kind = call[q].kind
          /\ call'[p].arg = left
      BY <1>0, <2>5, Zenon DEF TypeOK
    <3>. HIDE DEF v
    <3>3. CASE Advance(p, v, left)
      BY <2>1, <2>2, <2>3, <3>1, <3>2, <3>3, AdvanceStep, ZenonT(30) DEF Locked
    <3>4. CASE Fail(p)
      <4>1. /\ pc'[p] = "unlock" /\ ~ok'[p]
            /\ \A q \in Procs : q # p => pc'[q] = pc[q] /\ pc[q] \notin Holding
        BY <1>0, <2>1, <3>4 DEF Fail, TypeOK, Holding, Locked
      <4>. QED
        BY <2>1, <2>2, <3>1, <3>2, <4>1, ZenonT(30)
        DEF LedgerInv, CleanMeansApplied, StepInv, ForceInv, UpReached, Pending,
            Holding, Locked, SchemaAt
    <3>. QED  BY <2>5, <3>3, <3>4, Zenon
  <2>. QED  BY <1>15, <2>4, <2>5, Zenon DEF MarkClean
<1>16. CASE Crash
  BY <1>0, <1>16, Zenon
  DEF Crash, LedgerInv, CleanMeansApplied, StepInv, ForceInv, UpReached, Pending, SchemaAt
<1>17. CASE UNCHANGED vars
  <2>1. CleanMeansApplied' /\ UpReached'
    BY <1>0, <1>17, Zenon DEF vars, CleanMeansApplied, UpReached, SchemaAt
  <2>2. StepInv'
    <3>1. \A q \in Procs :
            /\ Leads(q)' <=> Leads(q)
            /\ SchemaAt(From(q))' = SchemaAt(From(q))
            /\ SchemaAt(target[q].version)' = SchemaAt(target[q].version)
      BY <1>17, Zenon DEF vars, Leads, From, SchemaAt, PrevVersion
    <3>. QED  BY <1>0, <1>17, <3>1, Zenon DEF vars, StepInv
  <2>3. ForceInv'
    BY <1>0, <1>17, Zenon DEF vars, ForceInv, SchemaAt
  <2>. QED  BY <2>1, <2>2, <2>3, Zenon DEF LedgerInv
<1>18. ASSUME NEW p \in Procs, UnlockFails(p)
      PROVE  LedgerInv'
  BY <1>18, QuietStep, Zenon DEF UnlockFails, Moving, Pending
<1>. QED
  BY <1>1, <1>2, <1>3, <1>4, <1>5, <1>6, <1>7, <1>8, <1>9, <1>10, <1>11, <1>12, <1>13, <1>14, <1>15, <1>16, <1>17, <1>18, Zenon DEF Next, Waits, Works
-----------------------------------------------------------------------------
(* The inductive invariant holds: of the database before the first         *)
(* migration, and after every step.                                        *)
THEOREM Invariance ==
  ASSUME "sqlite" \notin Overlap
  PROVE  Spec => []IndInv
<1>1. Init => IndInv
  <2>. SUFFICES ASSUME Init PROVE IndInv
    BY Zenon
  <2>1. TypeOK
    BY VersionSteps, SchemaAtType, RowType, LocalsType, MigrationsAssumption, Zenon DEF Init, NoLock, TypeOK, Locked
  <2>2. LockInv
    BY Zenon DEF Init, LockInv, Holding, Locked
  <2>3. LedgerInv
    BY Zenon DEF Init, LedgerInv, CleanMeansApplied, StepInv, ForceInv, UpReached, Pending
  <2>. QED  BY <2>1, <2>2, <2>3, Zenon DEF IndInv
<1>2. IndInv /\ [Next]_vars => IndInv'
  BY TypeStep, LockStep, LedgerStep, Zenon DEF IndInv
<1>. QED  BY <1>1, <1>2, PTL DEF Spec

(* The types hold for every number of callers and migrations. *)
THEOREM TypeCorrect ==
  ASSUME "sqlite" \notin Overlap
  PROVE  Spec => []TypeOK
<1>1. IndInv => TypeOK
  BY Zenon DEF IndInv
<1>. QED  BY <1>1, Invariance, PTL

(* Only one caller at a time is between Lock and Unlock of the driver,     *)
(* also after locks that were granted late and unlocks that failed.        *)
THEOREM OneMigratorHolds ==
  ASSUME "sqlite" \notin Overlap
  PROVE  Spec => []OneMigrator
<1>1. IndInv => OneMigrator
  BY Exclusion, Zenon DEF IndInv, OneMigrator, Holding
<1>. QED  BY <1>1, Invariance, PTL

(* A ledger that does not say dirty is true, whichever statement failed    *)
(* and wherever a process crashed.                                         *)
THEOREM CleanMeansAppliedHolds ==
  ASSUME "sqlite" \notin Overlap
  PROVE  Spec => []CleanMeansApplied
<1>1. IndInv => CleanMeansApplied
  BY Zenon DEF IndInv, LedgerInv
<1>. QED  BY <1>1, Invariance, PTL

(* A MigrateUp that succeeds has applied every migration of the source. *)
THEOREM UpReachedHolds ==
  ASSUME "sqlite" \notin Overlap
  PROVE  Spec => []UpReached
<1>1. IndInv => UpReached
  BY Zenon DEF IndInv, LedgerInv
<1>. QED  BY <1>1, Invariance, PTL
-----------------------------------------------------------------------------
(* Downloads.                                                               *)

(* The types of everything but the files.                                   *)
WorkTypes ==
  /\ targets \in [Urls -> Paths] /\ before \in [Paths -> Nat]
  /\ worker \in [Urls -> Steps] /\ offset \in [Urls -> 0..BodyLen]
  /\ sem \in Nat /\ errChan \subseteq Urls /\ dlResult \in {"pending", "nil", "error"}
  /\ ended \in BOOLEAN

(* The semaphore holds one element for each goroutine in flight.            *)
SemInv == sem = Cardinality(InFlight) /\ sem <= Limit

(* An error is sent once, by a goroutine that then leaves; the result is    *)
(* made when all have left.                                                 *)
ErrInv ==
  /\ \A u \in errChan : worker[u] \in {"release", "done"}
  /\ EveryFailureCollected
  /\ dlResult # "pending" => \A u \in Urls : worker[u] = "done"
  /\ dlResult = "nil" => errChan = {}

(* A goroutine's offset lies within its file, and a file of one URL alone   *)
(* is what n chunks of the body make of the file that was there, unless it  *)
(* has lost some when its goroutine closed it.                              *)
Chunk == Urls \cup {Old, Lost}

Body(u, n) ==
  [k \in 1..(IF before[targets[u]] > n THEN before[targets[u]] ELSE n) |-> IF k <= n THEN u ELSE Old]

FilesInv ==
  /\ files \in [Paths -> Seq(Chunk)]
  /\ \A u \in Urls : offset[u] <= Len(files[targets[u]])
  /\ \A u \in Urls : Alone(u) =>
       \/ files[targets[u]] = Body(u, offset[u])
       \/ worker[u] \in {"release", "done"} /\ ~LosesNothing(u)

(* The inductive invariant of DownloadFiles.                                *)
DownloadInv == WorkTypes /\ SemInv /\ ErrInv /\ FilesInv

(* Limit is a number: min(workerLimit, number of URLs).                     *)
LEMMA LimitNat == Limit \in Nat /\ Cardinality(Urls) \in Nat
BY DownloadAssumption, FS_CardinalityType, Zenon DEF Limit

(* The goroutines in flight are finitely many.                              *)
LEMMA InFlightFinite == IsFiniteSet(InFlight)
BY DownloadAssumption, FS_Subset, Zenon DEF InFlight

(* A function on 1..n is a sequence of length n, and is given by its values.*)
LEMMA FunctionIsSeq ==
  ASSUME NEW S, NEW n \in Nat, NEW f \in [1..n -> S]
  PROVE  f \in Seq(S) /\ Len(f) = n
OBVIOUS

(* The first state satisfies the invariant.                                 *)
LEMMA DownloadInvInit == DownloadInit => DownloadInv
<1>. SUFFICES ASSUME DownloadInit PROVE DownloadInv
  BY Zenon
<1>1. WorkTypes
  <2>1. before \in [Paths -> Nat]
    BY DownloadAssumption, Zenon DEF DownloadInit
  <2>2. offset \in [Urls -> 0..BodyLen]
    BY DownloadAssumption DEF DownloadInit
  <2>3. targets \in [Urls -> Paths]
    BY DownloadAssumption, Zenon DEF DownloadInit
  <2>. QED  BY <2>1, <2>2, <2>3, Zenon DEF DownloadInit, WorkTypes, Steps
<1>2. SemInv
  <2>1. InFlight = {}
    BY Zenon DEF DownloadInit, InFlight
  <2>. QED  BY <2>1, FS_EmptySet, LimitNat DEF DownloadInit, SemInv
<1>3. ErrInv
  BY Zenon DEF DownloadInit, ErrInv, EveryFailureCollected
<1>4. FilesInv
  <2>1. \A p \in Paths : before[p] \in Nat /\ files[p] = [k \in 1..before[p] |-> Old]
    BY DownloadAssumption, Zenon DEF DownloadInit
  <2>2. \A p \in Paths : files[p] \in Seq(Chunk) /\ Len(files[p]) = before[p]
    <3>. TAKE p \in Paths
    <3>1. before[p] \in Nat /\ files[p] \in [1..before[p] -> Chunk]
      BY <2>1, Zenon DEF Chunk
    <3>. QED  BY <3>1, FunctionIsSeq, ZenonT(30)
  <2>3. files \in [Paths -> Seq(Chunk)]
    BY <2>2, Zenon DEF DownloadInit
  <2>4. \A u \in Urls : targets[u] \in Paths /\ offset[u] = 0
    BY <1>1, Zenon DEF DownloadInit, WorkTypes
  <2>5. \A u \in Urls : files[targets[u]] = Body(u, 0)
    <3>. TAKE u \in Urls
    <3>1. before[targets[u]] \in Nat /\ files[targets[u]] = [k \in 1..before[targets[u]] |-> Old]
      BY <2>1, <2>4, Zenon
    <3>2. Body(u, 0) = [k \in 1..before[targets[u]] |-> IF k <= 0 THEN u ELSE Old]
      BY <3>1 DEF Body
    <3>. QED  BY <3>1, <3>2, SMTT(30)
  <2>. QED  BY <2>1, <2>2, <2>3, <2>4, <2>5, SMTT(30) DEF FilesInv
<1>. QED  BY <1>1, <1>2, <1>3, <1>4, Zenon DEF DownloadInv

(* The types are kept, given that a release finds the semaphore taken.      *)
LEMMA WorkTypesNext == WorkTypes /\ SemInv /\ [DownloadNext]_dlVars => WorkTypes'
<1>. SUFFICES ASSUME WorkTypes, SemInv, [DownloadNext]_dlVars PROVE WorkTypes'
  BY Zenon
<1>. USE DEF WorkTypes, Steps, Step
<1>1. ASSUME NEW u \in Urls, Acquire(u) PROVE WorkTypes'
  BY <1>1 DEF Acquire
<1>2. ASSUME NEW u \in Urls, OpenTarget(u) PROVE WorkTypes'
  BY <1>2, Zenon DEF OpenTarget
<1>3. ASSUME NEW u \in Urls, DownloadFails(u) PROVE WorkTypes'
  BY <1>3, Zenon DEF DownloadFails
<1>4. ASSUME NEW u \in Urls, CopyChunk(u) PROVE WorkTypes'
  BY <1>4, DownloadAssumption DEF CopyChunk
<1>5. ASSUME NEW u \in Urls, CopyDone(u) PROVE WorkTypes'
  BY <1>5, Zenon DEF CopyDone
<1>5a. ASSUME NEW u \in Urls, CloseLoses(u) PROVE WorkTypes'
  BY <1>5a, Zenon DEF CloseLoses
<1>6. ASSUME NEW u \in Urls, Report(u) PROVE WorkTypes'
  BY <1>6, Zenon DEF Report
<1>7. ASSUME NEW u \in Urls, Release(u) PROVE WorkTypes'
  <2>1. u \in InFlight
    BY <1>7, Zenon DEF Release, InFlight
  <2>2. sem # 0
    BY <2>1, InFlightFinite, FS_EmptySet, Zenon DEF SemInv
  <2>. QED  BY <1>7, <2>2 DEF Release
<1>8. CASE Collect \/ Cancelled
  BY <1>8, Zenon DEF Collect, Cancelled
<1>9. CASE UNCHANGED dlVars
  BY <1>9, Zenon DEF dlVars
<1>. QED
  BY <1>1, <1>2, <1>3, <1>4, <1>5, <1>5a, <1>6, <1>7, <1>8, <1>9, ZenonT(30) DEF DownloadNext, WorkerStep
(* A goroutine's step other than Acquire and Release leaves it in flight.   *)
LEMMA SemNext == WorkTypes /\ SemInv /\ [DownloadNext]_dlVars => SemInv'
<1>. SUFFICES ASSUME WorkTypes, SemInv, [DownloadNext]_dlVars PROVE SemInv'
  BY Zenon
<1>. USE InFlightFinite, LimitNat
<1>1. ASSUME NEW u \in Urls, Acquire(u) PROVE SemInv'
  <2>1. u \notin InFlight /\ InFlight' = InFlight \cup {u}
    BY <1>1, Zenon DEF Acquire, Step, InFlight, WorkTypes
  <2>2. Cardinality(InFlight') = Cardinality(InFlight) + 1
    BY <2>1, FS_AddElement, Zenon
  <2>3. sem < Limit /\ sem' = sem + 1 /\ sem \in Nat
    BY <1>1, Zenon DEF Acquire, WorkTypes
  <2>. QED  BY <2>2, <2>3 DEF SemInv, Limit
<1>2. ASSUME NEW u \in Urls, Release(u) PROVE SemInv'
  <2>1. u \in InFlight /\ InFlight' = InFlight \ {u}
    BY <1>2, Zenon DEF Release, Step, InFlight, WorkTypes
  <2>2. Cardinality(InFlight') = Cardinality(InFlight) - 1
    BY <2>1, FS_RemoveElement, Zenon
  <2>3. sem' = sem - 1 /\ sem \in Nat
    BY <1>2, Zenon DEF Release, WorkTypes
  <2>. QED  BY <2>2, <2>3 DEF SemInv, Limit
<1>3. ASSUME InFlight' = InFlight, sem' = sem PROVE SemInv'
  BY <1>3, Zenon DEF SemInv, Limit
<1>4. ASSUME NEW u \in Urls, OpenTarget(u) \/ DownloadFails(u) \/ CopyDone(u) \/ CloseLoses(u) \/ Report(u) PROVE InFlight' = InFlight /\ sem' = sem
  BY <1>4, Zenon DEF OpenTarget, DownloadFails, CopyDone, CloseLoses, Report, Step, InFlight, WorkTypes
<1>5. ASSUME NEW u \in Urls, CopyChunk(u) PROVE InFlight' = InFlight /\ sem' = sem
  BY <1>5, Zenon DEF CopyChunk, InFlight
<1>6. CASE Collect \/ Cancelled \/ UNCHANGED dlVars
  BY <1>3, <1>6, Zenon DEF Collect, Cancelled, dlVars, InFlight
<1>. QED
  BY <1>1, <1>2, <1>3, <1>4, <1>5, <1>6, Zenon DEF DownloadNext, WorkerStep

(* A goroutine leaves with its whole body written or with its error sent.   *)
LEMMA ErrNext == WorkTypes /\ ErrInv /\ [DownloadNext]_dlVars => ErrInv'
<1>. SUFFICES ASSUME WorkTypes, ErrInv, [DownloadNext]_dlVars PROVE ErrInv'
  BY Zenon
<1>. USE DEF WorkTypes, ErrInv, EveryFailureCollected, Step
<1>1. ASSUME NEW u \in Urls, Acquire(u) PROVE ErrInv'
  BY <1>1, Zenon DEF Acquire
<1>2. ASSUME NEW u \in Urls, OpenTarget(u) PROVE ErrInv'
  BY <1>2, Zenon DEF OpenTarget
<1>3. ASSUME NEW u \in Urls, DownloadFails(u) PROVE ErrInv'
  BY <1>3, Zenon DEF DownloadFails
<1>4. ASSUME NEW u \in Urls, CopyChunk(u) PROVE ErrInv'
  BY <1>4, Zenon DEF CopyChunk
<1>5. ASSUME NEW u \in Urls, CopyDone(u) PROVE ErrInv'
  BY <1>5, DownloadAssumption DEF CopyDone
<1>5a. ASSUME NEW u \in Urls, CloseLoses(u) PROVE ErrInv'
  BY <1>5a, DownloadAssumption DEF CloseLoses
<1>6. ASSUME NEW u \in Urls, Report(u) PROVE ErrInv'
  BY <1>6, Zenon DEF Report
<1>7. ASSUME NEW u \in Urls, Release(u) PROVE ErrInv'
  BY <1>7, Zenon DEF Release
<1>8. CASE Collect \/ Cancelled
  BY <1>8, Zenon DEF Collect, Cancelled
<1>9. CASE UNCHANGED dlVars
  BY <1>9, Zenon DEF dlVars
<1>. QED
  BY <1>1, <1>2, <1>3, <1>4, <1>5, <1>5a, <1>6, <1>7, <1>8, <1>9, Zenon DEF DownloadNext, WorkerStep

(* Overwriting chunk k <= Len + 1 gives a sequence that is no shorter.      *)
LEMMA OverwriteIsSeq ==
  ASSUME NEW S, NEW file \in Seq(S), NEW k \in 1..(Len(file) + 1), NEW u \in S
  PROVE  /\ Overwrite(file, k, u) \in Seq(S)
         /\ Len(Overwrite(file, k, u)) = (IF k > Len(file) THEN k ELSE Len(file))
<1>. DEFINE n == IF k > Len(file) THEN k ELSE Len(file)
<1>1. n \in Nat /\ Overwrite(file, k, u) = [i \in 1..n |-> IF i = k THEN u ELSE file[i]]
  BY DEF Overwrite
<1>2. \A i \in 1..n : (IF i = k THEN u ELSE file[i]) \in S
  OBVIOUS
<1>3. Overwrite(file, k, u) \in [1..n -> S]
  BY <1>1, <1>2, Zenon
<1>. QED  BY <1>1, <1>3, FunctionIsSeq, Zenon

(* The next chunk of a file's only writer extends what it has written.      *)
LEMMA OverwriteBody ==
  ASSUME WorkTypes, NEW u \in Urls, NEW n \in Nat
  PROVE  Overwrite(Body(u, n), n + 1, u) = Body(u, n + 1)
<1>. DEFINE b == before[targets[u]]
            m == IF b > n THEN b ELSE n
            m1 == IF b > n + 1 THEN b ELSE n + 1
<1>1. b \in Nat /\ m \in Nat /\ m1 \in Nat
  BY DEF WorkTypes
<1>2. Body(u, n) = [k \in 1..m |-> IF k <= n THEN u ELSE Old] /\ Body(u, n + 1) = [k \in 1..m1 |-> IF k <= n + 1 THEN u ELSE Old]
  BY Zenon DEF Body
<1>3. Len(Body(u, n)) = m
  <2>1. Body(u, n) \in [1..m -> {u, Old}]
    BY <1>2, Zenon
  <2>. QED  BY <1>1, <2>1, FunctionIsSeq, Zenon
<1>4. Overwrite(Body(u, n), n + 1, u) = [i \in 1..m1 |-> IF i = n + 1 THEN u ELSE Body(u, n)[i]]
  <2>1. (IF n + 1 > m THEN n + 1 ELSE m) = m1
    BY <1>1
  <2>. QED  BY <1>3, <2>1, Zenon DEF Overwrite
<1>5. \A i \in 1..m1 : (IF i = n + 1 THEN u ELSE Body(u, n)[i]) = (IF i <= n + 1 THEN u ELSE Old)
  BY <1>1, <1>2
<1>. HIDE DEF b, m, m1
<1>6. [i \in 1..m1 |-> IF i = n + 1 THEN u ELSE Body(u, n)[i]] = [i \in 1..m1 |-> IF i <= n + 1 THEN u ELSE Old]
  BY <1>5, Zenon
<1>. QED  BY <1>2, <1>4, <1>6, Zenon

(* Losing chunks keeps the length of a sequence, and its chunks unless one  *)
(* is lost.                                                                 *)
LEMMA LoseIsSeq ==
  ASSUME NEW file \in Seq(Chunk), NEW u
  PROVE  /\ Losing(file, u) \in Seq(Chunk) /\ Len(Losing(file, u)) = Len(file)
         /\ Losing(file, u) = file \/ \E k \in 1..Len(Losing(file, u)) : Losing(file, u)[k] = Lost
<1>. DEFINE n == Len(file)
            lost == [k \in 1..n |-> IF file[k] = u THEN Lost ELSE file[k]]
<1>1. n \in Nat /\ file \in [1..n -> Chunk] /\ file = [k \in 1..n |-> file[k]]
  OBVIOUS
<1>2. lost \in [1..n -> Chunk]
  BY <1>1, Zenon DEF Chunk
<1>3. lost \in Seq(Chunk) /\ Len(lost) = n
  BY <1>1, <1>2, FunctionIsSeq, Zenon
<1>4. lost = file \/ \E k \in 1..n : lost[k] = Lost
  <2>1. CASE \E k \in 1..n : file[k] = u
    BY <2>1, Zenon
  <2>2. CASE ~\E k \in 1..n : file[k] = u
    BY <1>1, <2>2, Zenon
  <2>. QED  BY <2>1, <2>2, Zenon
<1>. QED  BY <1>3, <1>4, Zenon DEF Losing

(* Only CopyChunk and CloseLoses touch a file, and only their own target.   *)
LEMMA FilesNext == WorkTypes /\ FilesInv /\ [DownloadNext]_dlVars => FilesInv'
<1>. SUFFICES ASSUME WorkTypes, FilesInv, [DownloadNext]_dlVars PROVE FilesInv'
  BY Zenon
<1>1. ASSUME NEW u \in Urls, CopyChunk(u) PROVE FilesInv'
  <2>. DEFINE p == targets[u]
              n == offset[u]
              new == Overwrite(files[p], n + 1, u)
  <2>1. p \in Paths /\ n \in Nat /\ n <= Len(files[p]) /\ files[p] \in Seq(Chunk) /\ Len(files[p]) \in Nat
    BY DownloadAssumption DEF WorkTypes, FilesInv
  <2>2. new \in Seq(Chunk) /\ Len(new) = (IF n + 1 > Len(files[p]) THEN n + 1 ELSE Len(files[p]))
    <3>1. n + 1 \in 1..(Len(files[p]) + 1) /\ u \in Chunk
      BY <2>1 DEF Chunk
    <3>. QED  BY <2>1, <3>1, OverwriteIsSeq
  <2>. HIDE DEF new
  <2>3. /\ files' = [files EXCEPT ![p] = new] /\ offset' = [offset EXCEPT ![u] = n + 1]
        /\ UNCHANGED <<targets, before>>
    BY <1>1, Zenon DEF CopyChunk, new
  <2>4. files' \in [Paths -> Seq(Chunk)] /\ files'[p] = new /\ \A q \in Paths \ {p} : files'[q] = files[q]
    BY <2>1, <2>2, <2>3, Zenon DEF FilesInv
  <2>5. offset'[u] = n + 1 /\ \A v \in Urls \ {u} : offset'[v] = offset[v]
    BY <2>3, Zenon DEF WorkTypes
  <2>6. ASSUME NEW v \in Urls PROVE offset'[v] <= Len(files'[targets'[v]])
    <3>1. targets'[v] = targets[v] /\ targets[v] \in Paths /\ offset[v] \in Nat /\ offset[v] <= Len(files[targets[v]])
      BY <2>3, DownloadAssumption DEF WorkTypes, FilesInv
    <3>2. CASE v = u
      <4>. DEFINE l == Len(files[p])
      <4>1. l \in Nat /\ n \in Nat /\ Len(new) = (IF n + 1 > l THEN n + 1 ELSE l)
        BY <2>1, <2>2, Zenon
      <4>. HIDE DEF l, n
      <4>2. n + 1 <= Len(new)
        BY <4>1
      <4>. QED  BY <2>4, <2>5, <3>1, <3>2, <4>2, Zenon DEF n
    <3>3. CASE v # u /\ targets[v] = p
      BY <2>1, <2>2, <2>4, <2>5, <3>1, <3>3
    <3>4. CASE v # u /\ targets[v] # p
      BY <2>4, <2>5, <3>1, <3>4, Zenon
    <3>. QED  BY <3>2, <3>3, <3>4, Zenon
  <2>7. ASSUME NEW v \in Urls, Alone(v)'
        PROVE  (files[targets[v]] = Body(v, offset[v]) \/ (worker[v] \in {"release", "done"} /\ ~LosesNothing(v)))'
    <3>1. /\ Alone(v) /\ targets'[v] = targets[v] /\ targets[v] \in Paths /\ worker' = worker
          /\ files[targets[v]] = Body(v, offset[v]) \/ (worker[v] \in {"release", "done"} /\ ~LosesNothing(v))
      BY <1>1, <2>3, <2>7, Zenon DEF Alone, WorkTypes, FilesInv, CopyChunk
    <3>2. \A k : Body(v, k)' = Body(v, k)
      BY <2>3, Zenon DEF Body
    <3>3. CASE v = u
      <4>0. worker[u] = "copy"
        BY <1>1, Zenon DEF CopyChunk
      <4>1. new = Body(u, n + 1)
        BY <2>1, <3>1, <3>3, <4>0, OverwriteBody, Zenon DEF new
      <4>2. files'[targets'[v]] = Body(v, offset'[v])
        BY <2>4, <2>5, <3>1, <3>3, <4>1, Zenon
      <4>. QED  BY <2>3, <4>2, Zenon DEF Body
    <3>4. CASE v # u
      <4>1. targets[v] # p
        BY <3>1, <3>4, Zenon DEF Alone
      <4>2. files'[targets'[v]] = files[targets[v]] /\ offset'[v] = offset[v]
        BY <2>4, <2>5, <3>1, <3>4, <4>1, Zenon
      <4>3. Body(v, offset[v])' = Body(v, offset[v])
        BY <2>3, <4>2, Zenon DEF Body
      <4>. QED  BY <3>1, <4>2, <4>3, Zenon DEF LosesNothing
    <3>. QED  BY <3>3, <3>4, Zenon
  <2>. QED  BY <2>4, <2>6, <2>7, Zenon DEF FilesInv
<1>2. ASSUME UNCHANGED <<targets, before, files, offset>>,
             \A u \in Urls : worker[u] \in {"release", "done"} => worker'[u] \in {"release", "done"}
      PROVE  FilesInv'
  <2>1. \A u : (Alone(u)' <=> Alone(u)) /\ (LosesNothing(u)' <=> LosesNothing(u))
    BY <1>2, Zenon DEF Alone, LosesNothing
  <2>2. \A u : Body(u, offset[u])' = Body(u, offset[u])
    BY <1>2, Zenon DEF Body
  <2>. QED  BY <1>2, <2>1, <2>2, Zenon DEF FilesInv
<1>3. ASSUME NEW u \in Urls, CloseLoses(u) PROVE FilesInv'
  <2>. DEFINE p == targets[u]
              new == Losing(files[p], u)
  <2>1. p \in Paths /\ files[p] \in Seq(Chunk)
    BY Zenon DEF WorkTypes, FilesInv
  <2>2. new \in Seq(Chunk) /\ Len(new) = Len(files[p]) /\ (new = files[p] \/ \E k \in 1..Len(new) : new[k] = Lost)
    BY <2>1, LoseIsSeq, Zenon
  <2>3. /\ files' = [files EXCEPT ![p] = new] /\ UNCHANGED <<targets, before, offset>>
        /\ worker' = [worker EXCEPT ![u] = "release"]
    BY <1>3, <2>1, Zenon DEF CloseLoses, Step
  <2>. HIDE DEF new
  <2>4. files' \in [Paths -> Seq(Chunk)] /\ files'[p] = new /\ \A q \in Paths \ {p} : files'[q] = files[q]
    BY <2>1, <2>2, <2>3, Zenon DEF FilesInv
  <2>5. worker'[u] = "release" /\ \A v \in Urls \ {u} : worker'[v] = worker[v]
    BY <2>3, Zenon DEF WorkTypes
  <2>6. ASSUME NEW v \in Urls PROVE offset'[v] <= Len(files'[targets'[v]])
    <3>1. Len(files'[targets[v]]) = Len(files[targets[v]])
      BY <2>2, <2>4, Zenon DEF WorkTypes
    <3>. QED  BY <2>3, <3>1, Zenon DEF FilesInv
  <2>7. ASSUME NEW v \in Urls, Alone(v)'
        PROVE  (files[targets[v]] = Body(v, offset[v]) \/ (worker[v] \in {"release", "done"} /\ ~LosesNothing(v)))'
    <3>1. /\ Alone(v) /\ targets'[v] = targets[v] /\ targets[v] \in Paths
          /\ files[targets[v]] = Body(v, offset[v]) \/ (worker[v] \in {"release", "done"} /\ ~LosesNothing(v))
      BY <2>3, <2>7, Zenon DEF Alone, WorkTypes, FilesInv
    <3>2. Body(v, offset[v])' = Body(v, offset[v])
      BY <2>3, Zenon DEF Body
    <3>3. CASE v = u
      <4>1. worker[u] = "copy"
        BY <1>3, Zenon DEF CloseLoses, Step
      <4>2. CASE new = files[p]
        BY <2>4, <3>1, <3>2, <3>3, <4>1, <4>2, Zenon
      <4>3. CASE \E k \in 1..Len(new) : new[k] = Lost
        BY <2>4, <2>5, <3>1, <3>3, <4>3, Zenon DEF LosesNothing
      <4>. QED  BY <2>2, <4>2, <4>3, Zenon
    <3>4. CASE v # u
      <4>1. targets[v] # p
        BY <3>1, <3>4, Zenon DEF Alone
      <4>2. files'[targets'[v]] = files[targets[v]] /\ worker'[v] = worker[v]
        BY <2>4, <2>5, <3>1, <3>4, <4>1, Zenon
      <4>. QED  BY <3>1, <3>2, <4>2, Zenon DEF LosesNothing
    <3>. QED  BY <3>3, <3>4, Zenon
  <2>. QED  BY <2>4, <2>6, <2>7, Zenon DEF FilesInv
<1>4. ASSUME NEW u \in Urls, Acquire(u) \/ OpenTarget(u) \/ DownloadFails(u) \/ CopyDone(u) \/ Report(u) \/ Release(u)
      PROVE  FilesInv'
  BY <1>2, <1>4, Zenon DEF WorkTypes, Acquire, OpenTarget, DownloadFails, CopyDone, Report, Release, Step
<1>5. CASE Collect \/ Cancelled \/ UNCHANGED dlVars
  BY <1>2, <1>5, Zenon DEF Collect, Cancelled, dlVars
<1>. QED  BY <1>1, <1>3, <1>4, <1>5, Zenon DEF DownloadNext, WorkerStep

(* The invariant holds in every behaviour.                                  *)
LEMMA DownloadInvHolds == DownloadSpec => []DownloadInv
<1>1. DownloadInv /\ [DownloadNext]_dlVars => DownloadInv'
  BY WorkTypesNext, SemNext, ErrNext, FilesNext, Zenon DEF DownloadInv
<1>. QED  BY <1>1, DownloadInvInit, PTL DEF DownloadSpec

(* DownloadFiles: the state keeps its types, in particular no chunk of a    *)
(* file is ever left undefined and sem never goes below zero.               *)
THEOREM DownloadTypeCorrect == DownloadSpec => []DownloadTypeOK
<1>1. DownloadInv => DownloadTypeOK
  BY Zenon DEF DownloadInv, WorkTypes, FilesInv, DownloadTypeOK, Chunk
<1>. QED  BY <1>1, DownloadInvHolds, PTL

(* DownloadFiles: the semaphore bounds the goroutines in flight.            *)
THEOREM WorkersLimitedHolds == DownloadSpec => []WorkersLimited
<1>1. DownloadInv => WorkersLimited
  BY Zenon DEF DownloadInv, SemInv, WorkersLimited
<1>. QED  BY <1>1, DownloadInvHolds, PTL

(* DownloadFiles: every failure is in errChan when its goroutine leaves.    *)
THEOREM EveryFailureCollectedHolds == DownloadSpec => []EveryFailureCollected
<1>1. DownloadInv => EveryFailureCollected
  BY Zenon DEF DownloadInv, ErrInv
<1>. QED  BY <1>1, DownloadInvHolds, PTL

(* DownloadFiles: after nil, every target of one URL alone whose Close lost *)
(* nothing begins with the complete body and ends with the end of what was  *)
(* there.                                                                   *)
THEOREM NilMeansCompleteHolds == DownloadSpec => []NilMeansComplete
<1>1. DownloadInv => NilMeansComplete
  <2>. SUFFICES ASSUME DownloadInv, dlResult = "nil", NEW u \in Urls, Alone(u), LosesNothing(u)
                PROVE  files[targets[u]] = Body(u, BodyLen)
    BY Zenon DEF NilMeansComplete, Body
  <2>1. offset[u] \in 0..BodyLen /\ worker[u] = "done" /\ u \notin errChan
    BY Zenon DEF DownloadInv, WorkTypes, ErrInv
  <2>2. offset[u] = BodyLen
    BY <2>1, DownloadAssumption DEF DownloadInv, ErrInv, EveryFailureCollected
  <2>. QED  BY <2>2, Zenon DEF DownloadInv, FilesInv
<1>. QED  BY <1>1, DownloadInvHolds, PTL

(* The channel errChan, which has room for every URL, never makes a worker  *)
(* wait: a goroutine about to report finds a free place.                    *)
THEOREM ReportNeverBlocks ==
  DownloadSpec => [](\A u \in Urls : worker[u] = "report" => Cardinality(errChan) < Cardinality(Urls))
<1>1. DownloadInv => \A u \in Urls : worker[u] = "report" => Cardinality(errChan) < Cardinality(Urls)
  <2>. SUFFICES ASSUME DownloadInv, NEW u \in Urls, worker[u] = "report"
                PROVE  Cardinality(errChan) < Cardinality(Urls)
    BY Zenon
  <2>1. errChan \in SUBSET Urls /\ errChan # Urls
    BY Zenon DEF DownloadInv, WorkTypes, ErrInv
  <2>2. /\ IsFiniteSet(errChan) /\ Cardinality(errChan) <= Cardinality(Urls)
        /\ Cardinality(errChan) # Cardinality(Urls)
    BY <2>1, DownloadAssumption, FS_Subset, Zenon
  <2>3. Cardinality(errChan) \in Nat
    BY <2>2, FS_CardinalityType, Zenon
  <2>. QED  BY <2>2, <2>3, LimitNat
<1>. QED  BY <1>1, DownloadInvHolds, PTL
-----------------------------------------------------------------------------
(* Recursion on the numbers up to n.                                        *)
Iterated(p, n, V, base, step) ==
  /\ p \in [0..n -> V] /\ p[0] = base
  /\ \A k \in 1..n : p[k] = step[<<k, p[k - 1]>>]

(* There is a function that satisfies the recursion.                        *)
LEMMA NatRecursion ==
  ASSUME NEW n \in Nat, NEW V, NEW base \in V, NEW step \in [(1..n) \X V -> V]
  PROVE  \E p : Iterated(p, n, V, base, step)
<1>. DEFINE T == {m \in Nat : \E p : Iterated(p, m, V, base, step)}
<1>1. 0 \in T
  <2>1. Iterated([k \in 0..0 |-> base], 0, V, base, step)
    BY DEF Iterated
  <2>. QED  BY <2>1
<1>2. ASSUME NEW m \in 0..n - 1, m \in T PROVE m + 1 \in T
  <2>1. PICK p : Iterated(p, m, V, base, step)
    BY <1>2
  <2>. DEFINE q == [k \in 0..m + 1 |-> IF k = m + 1 THEN step[<<m + 1, p[m]>>] ELSE p[k]]
  <2>2. p[m] \in V /\ m + 1 \in 1..n /\ step[<<m + 1, p[m]>>] \in V
    BY <2>1 DEF Iterated
  <2>3. q \in [0..m + 1 -> V] /\ q[0] = base
    BY <2>1, <2>2, SMTT(30) DEF Iterated
  <2>4. ASSUME NEW k \in 1..m + 1 PROVE q[k] = step[<<k, q[k - 1]>>]
    <3>1. CASE k = m + 1
      <4>1. k - 1 = m /\ m \in 0..m + 1 /\ m # m + 1 /\ m + 1 \in 0..m + 1
        BY <3>1
      <4>2. q[m] = p[m] /\ q[m + 1] = step[<<m + 1, p[m]>>]
        BY <4>1, SMTT(30)
      <4>. QED  BY <3>1, <4>1, <4>2, SMTT(30)
    <3>2. CASE k # m + 1
      <4>1. k \in 1..m /\ k \in 0..m + 1 /\ k - 1 \in 0..m + 1 /\ k - 1 # m + 1
        BY <3>2
      <4>2. q[k] = p[k] /\ q[k - 1] = p[k - 1]
        BY <3>2, <4>1, Zenon
      <4>. QED  BY <2>1, <4>1, <4>2, SMTT(30) DEF Iterated
    <3>. QED  BY <3>1, <3>2, SMTT(30)
  <2>5. Iterated(q, m + 1, V, base, step)
    BY <2>3, <2>4, Zenon DEF Iterated
  <2>. QED  BY <2>5
<1>. HIDE DEF T
<1>3. n \in T
  <2>1. \A m \in 0..n - 1 : m \in T => m + 1 \in T
    BY <1>2
  <2>2. 0..n \subseteq T
    BY <1>1, <2>1, InductionUpTo, SMTT(30)
  <2>. QED  BY <2>2
<1>. QED  BY <1>3 DEF T

(* What holds for the empty set, and for a set when it holds without the    *)
(* picked element, holds for every subset.                                  *)
LEMMA SubsetInduction ==
  ASSUME NEW S, IsFiniteSet(S), NEW T, {} \in T,
         NEW pick, \A s \in SUBSET S : s # {} => pick[s] \in s,
         \A s \in SUBSET S : s # {} /\ s \ {pick[s]} \in T => s \in T
  PROVE  SUBSET S \subseteq T
<1>. DEFINE Good == {n \in Nat : Small(S, n) \subseteq T}
<1>0. \A s \in SUBSET S : IsFiniteSet(s) /\ Cardinality(s) \in Nat
  BY FS_Subset, FS_CardinalityType, SMTT(30)
<1>1. 0 \in Good
  <2>1. \A s \in SUBSET S : Cardinality(s) <= 0 => s = {}
    BY <1>0, FS_EmptySet, SMTT(30)
  <2>. QED  BY <2>1, SMTT(30) DEF Small
<1>2. ASSUME NEW n \in Good PROVE n + 1 \in Good
  <2>1. ASSUME NEW s \in Small(S, n + 1), s # {} PROVE s \in T
    <3>1. pick[s] \in s /\ s \in SUBSET S /\ Cardinality(s) <= n + 1
      BY <2>1, SMTT(30) DEF Small
    <3>2. Cardinality(s \ {pick[s]}) = Cardinality(s) - 1
      BY <1>0, <3>1, FS_RemoveElement, SMTT(30)
    <3>3. s \ {pick[s]} \in Small(S, n)
      BY <1>0, <3>1, <3>2 DEF Small
    <3>. QED  BY <1>2, <2>1, <3>1, <3>3, SMTT(30)
  <2>2. Small(S, n + 1) \subseteq T
    BY <2>1, Zenon
  <2>. QED  BY <2>2, SMTT(30)
<1>. HIDE DEF Good
<1>3. Good = Nat
  <2>1. Good \in SUBSET Nat /\ \A n \in Good : n + 1 \in Good
    BY <1>2, SMTT(30) DEF Good
  <2>. QED  BY <1>1, <2>1, Induction, SMTT(30)
<1>4. SUBSET S \subseteq Small(S, Cardinality(S))
  BY <1>0, FS_Subset DEF Small
<1>. QED  BY <1>0, <1>3, <1>4, SMTT(30) DEF Good
-----------------------------------------------------------------------------
(* SumFunction is a fold that takes the elements of the domain in any order.*)
AnyOf(s) == CHOOSE x \in s : TRUE

(* h holds the sum of f over each subset of S.                              *)
Summed(h, f, S) ==
  h = [s \in SUBSET S |-> IF s = {} THEN 0 ELSE f[AnyOf(s)] + h[s \ {AnyOf(s)}]]

(* The library's definition of a sum satisfies its recursion.               *)
LEMMA SumIsComputed ==
  ASSUME NEW S, IsFiniteSet(S), NEW f \in [S -> Nat]
  PROVE  \E h \in [SUBSET S -> Nat] : Summed(h, f, S) /\ SumFunction(f) = h[S]
<1>. DEFINE pick == [s \in SUBSET S |-> AnyOf(s)]
            step == [p \in S \X Nat |-> f[p[1]] + p[2]]
<1>1. \A s \in SUBSET S : s # {} => AnyOf(s) \in s /\ pick[s] = AnyOf(s)
  BY DEF AnyOf
<1>2. step \in [S \X Nat -> Nat]
  OBVIOUS
<1>3. \E h : Summed(h, f, S)
  <2>. HIDE DEF step, pick
  <2>1. PICK h : Computed(h, SUBSET S, Nat, 0, pick, step)
    BY <1>1, <1>2, FiniteRecursion, ZenonT(30)
  <2>2. ASSUME NEW s \in SUBSET S, s # {}
        PROVE  h[s] = f[AnyOf(s)] + h[s \ {AnyOf(s)}]
    <3>1. AnyOf(s) \in S /\ h[s \ {AnyOf(s)}] \in Nat /\ pick[s] = AnyOf(s)
      BY <1>1, <2>1, <2>2, SMTT(30) DEF Computed
    <3>2. h[s] = step[<<AnyOf(s), h[s \ {AnyOf(s)}]>>]
      BY <2>1, <2>2, <3>1, SMTT(30) DEF Computed
    <3>. QED  BY <3>1, <3>2 DEF step
  <2>3. h[{}] = 0
    BY <2>1, Zenon DEF Computed
  <2>. QED  BY <2>1, <2>2, <2>3, Zenon DEF Summed, Computed
<1>. DEFINE h == CHOOSE h : Summed(h, f, S)
<1>4. Summed(h, f, S) /\ SumFunction(f) = h[S]
  <2>1. Summed(h, f, S)
    BY <1>3
  <2>2. DOMAIN f = S
    OBVIOUS
  <2>3. SumFunctionOnSet(f, S) = h[S]
    BY DEF Summed, SumFunctionOnSet, FoldFunctionOnSet, MapThenFoldSet, AnyOf
  <2>. QED  BY <2>1, <2>2, <2>3, SMTT(30) DEF SumFunction
<1>. HIDE DEF h
<1>5. h \in [SUBSET S -> Nat]
  <2>. DEFINE T == {s \in SUBSET S : h[s] \in Nat}
  <2>1. {} \in T
    BY <1>4 DEF Summed
  <2>2. ASSUME NEW s \in SUBSET S, s # {}, s \ {pick[s]} \in T PROVE s \in T
    <3>1. AnyOf(s) \in S /\ h[s \ {AnyOf(s)}] \in Nat
      BY <1>1, <2>2, Zenon
    <3>2. h[s] = f[AnyOf(s)] + h[s \ {AnyOf(s)}]
      BY <1>4, <2>2, Zenon DEF Summed
    <3>3. h[s] \in Nat
      BY <3>1, <3>2, SMTT(30)
    <3>. QED  BY <3>3
  <2>. HIDE DEF T, pick
  <2>3. SUBSET S \subseteq T
    BY <1>1, <2>1, <2>2, SubsetInduction, SMTT(30)
  <2>. QED  BY <1>4, <2>3, Zenon DEF T, Summed
<1>. QED  BY <1>4, <1>5, SMTT(30)

(* Adding x to a set adds f[x] to its value.                                *)
Additive(h, f, S) == \A s \in SUBSET S : \A x \in S \ s : h[s \cup {x}] = f[x] + h[s]

(* It does not matter in which order: an element can always be taken last.  *)
LEMMA SumAdds ==
  ASSUME NEW S, IsFiniteSet(S), NEW f \in [S -> Nat], NEW h \in [SUBSET S -> Nat], Summed(h, f, S)
  PROVE  Additive(h, f, S)
<1>. DEFINE Adds(n) == \A t \in SUBSET S : Cardinality(t) <= n => \A y \in S \ t : h[t \cup {y}] = f[y] + h[t]
            Good == {n \in Nat : Adds(n)}
<1>0. \A t \in SUBSET S : IsFiniteSet(t) /\ Cardinality(t) \in Nat
  BY FS_Subset, FS_CardinalityType, SMTT(30)
<1>1. \A t \in SUBSET S : t # {} => AnyOf(t) \in t /\ h[t] = f[AnyOf(t)] + h[t \ {AnyOf(t)}]
  BY DEF Summed, AnyOf
<1>2. ASSUME NEW t \in SUBSET S, NEW y \in S \ t,
             \A u \in SUBSET S : Cardinality(u) < Cardinality(t) => \A z \in S \ u : h[u \cup {z}] = f[z] + h[u]
      PROVE  h[t \cup {y}] = f[y] + h[t]
  <2>. DEFINE a == AnyOf(t \cup {y})
  <2>1. a \in t \cup {y} /\ h[t \cup {y}] = f[a] + h[(t \cup {y}) \ {a}]
    BY <1>1, Zenon
  <2>. HIDE DEF a
  <2>2. CASE a = y
    <3>1. (t \cup {y}) \ {a} = t
      BY <2>2, SMTT(30)
    <3>. QED  BY <2>1, <2>2, <3>1, Zenon
  <2>3. CASE a \in t
    <3>. DEFINE u == t \ {a}
    <3>1. /\ u \in SUBSET S /\ Cardinality(u) = Cardinality(t) - 1 /\ a \in S \ u /\ y \in S \ u
          /\ (t \cup {y}) \ {a} = u \cup {y} /\ u \cup {a} = t
      BY <1>0, <2>3, FS_RemoveElement, SMTT(30)
    <3>. HIDE DEF u
    <3>2. Cardinality(u) < Cardinality(t)
      BY <1>0, <3>1, SMTT(30)
    <3>3. h[u \cup {y}] = f[y] + h[u] /\ h[u \cup {a}] = f[a] + h[u]
      BY <1>2, <3>1, <3>2, SMTT(30)
    <3>4. f[a] \in Nat /\ f[y] \in Nat /\ h[u] \in Nat
      BY <3>1
    <3>5. h[t \cup {y}] = f[a] + h[u \cup {y}] /\ h[t] = f[a] + h[u]
      BY <2>1, <3>1, <3>3, Zenon
    <3>. QED  BY <3>3, <3>4, <3>5, SMTT(30)
  <2>. QED  BY <2>1, <2>2, <2>3
<1>3. 0 \in Good
  BY <1>0, <1>2, SMTT(30)
<1>4. ASSUME NEW n \in Good PROVE n + 1 \in Good
  <2>1. ASSUME NEW t \in SUBSET S, Cardinality(t) <= n + 1, NEW y \in S \ t
        PROVE  h[t \cup {y}] = f[y] + h[t]
    <3>1. \A u \in SUBSET S : Cardinality(u) < Cardinality(t) => Cardinality(u) <= n
      BY <1>0, <2>1, SMTT(30)
    <3>. QED  BY <1>2, <1>4, <3>1, Zenon
  <2>2. Adds(n + 1)
    BY <2>1
  <2>. QED  BY <2>2
<1>. HIDE DEF Good
<1>5. Good = Nat
  <2>1. Good \in SUBSET Nat /\ \A n \in Good : n + 1 \in Good
    BY <1>4, Zenon DEF Good
  <2>. QED  BY <1>3, <2>1, Induction
<1>6. \A s \in SUBSET S : Cardinality(s) \in Good
  BY <1>0, <1>5, SMTT(30)
<1>7. ASSUME NEW s \in SUBSET S, NEW x \in S \ s PROVE h[s \cup {x}] = f[x] + h[s]
  BY <1>0, <1>6, SMTT(30) DEF Good
<1>. QED  BY <1>7, Zenon DEF Additive

(* The first k naturals.                                                    *)
Below(k) == 0..k - 1

(* The numbers below k + 1 are those below k, and k.                        *)
LEMMA BelowFacts ==
  ASSUME NEW k \in Nat
  PROVE  /\ Below(k + 1) = Below(k) \cup {k} /\ k \notin Below(k) /\ Below(0) = {}
         /\ IsFiniteSet(Below(k)) /\ \A m \in Nat : k <= m => Below(k) \in SUBSET Below(m)
         /\ \A m \in Nat : k < m => k \in Below(m)
BY FS_Interval, SMTT(30) DEF Below

(* A sum over 0..n is the sum over 0..n - 1 and the last term.              *)
LEMMA SumStep ==
  ASSUME NEW n \in Nat, NEW f \in [Below(n + 1) -> Nat], NEW e \in [Below(n) -> Nat],
         \A k \in Below(n) : e[k] = f[k]
  PROVE  SumFunction(f) = SumFunction(e) + f[n]
<1>0. IsFiniteSet(Below(n)) /\ IsFiniteSet(Below(n + 1))
  <2>1. n + 1 \in Nat
    OBVIOUS
  <2>. QED  BY <2>1, BelowFacts, SMTT(30)
<1>1. PICK h \in [SUBSET Below(n + 1) -> Nat] : Summed(h, f, Below(n + 1)) /\ SumFunction(f) = h[Below(n + 1)]
  BY <1>0, SumIsComputed, Zenon
<1>2. PICK g \in [SUBSET Below(n) -> Nat] : Summed(g, e, Below(n)) /\ SumFunction(e) = g[Below(n)]
  BY <1>0, SumIsComputed, Zenon
<1>3. ASSUME NEW k \in Nat, k <= n PROVE h[Below(k + 1)] = f[k] + h[Below(k)]
  <2>1. IsFiniteSet(Below(n + 1)) /\ Below(k) \in SUBSET Below(n + 1) /\ k \in Below(n + 1) \ Below(k)
    BY <1>3, BelowFacts
  <2>2. Additive(h, f, Below(n + 1))
    BY <1>0, <1>1, SumAdds, Zenon
  <2>3. h[Below(k) \cup {k}] = f[k] + h[Below(k)]
    BY <2>1, <2>2 DEF Additive
  <2>. QED  BY <2>3, BelowFacts, Zenon
<1>4. ASSUME NEW k \in Nat, k < n PROVE g[Below(k + 1)] = e[k] + g[Below(k)]
  <2>1. IsFiniteSet(Below(n)) /\ Below(k) \in SUBSET Below(n) /\ k \in Below(n) \ Below(k)
    BY <1>4, BelowFacts
  <2>2. Additive(g, e, Below(n))
    BY <1>0, <1>2, SumAdds, Zenon
  <2>3. g[Below(k) \cup {k}] = e[k] + g[Below(k)]
    BY <2>1, <2>2 DEF Additive
  <2>. QED  BY <2>3, BelowFacts, Zenon
<1>. DEFINE T == {k \in Nat : g[Below(k)] = h[Below(k)]}
<1>5. 0 \in T
  <2>1. g[{}] = 0 /\ h[{}] = 0
    BY <1>1, <1>2, SMTT(30) DEF Summed
  <2>. QED  BY <2>1, BelowFacts, Zenon
<1>6. ASSUME NEW k \in 0..n - 1, k \in T PROVE k + 1 \in T
  <2>1. k \in Nat /\ k < n /\ k <= n /\ k + 1 \in Nat /\ e[k] = f[k]
    BY DEF Below
  <2>. QED  BY <1>3, <1>4, <1>6, <2>1, SMTT(30)
<1>7. n \in T
  <2>. HIDE DEF T
  <2>1. \A k \in 0..n - 1 : k \in T => k + 1 \in T
    BY <1>6, SMTT(30)
  <2>2. 0..n \subseteq T
    BY <1>5, <2>1, InductionUpTo, SMTT(30)
  <2>. QED  BY <2>2
<1>8. h[Below(n)] \in Nat /\ f[n] \in Nat
  BY BelowFacts
<1>. QED  BY <1>1, <1>2, <1>3, <1>7, <1>8, SMTT(30)

(* A sum over nothing is zero.                                              *)
LEMMA SumOfNothing ==
  ASSUME NEW f \in [{} -> Nat]
  PROVE  SumFunction(f) = 0
<1>1. PICK h \in [SUBSET {} -> Nat] : Summed(h, f, {}) /\ SumFunction(f) = h[{}]
  BY SumIsComputed, FS_EmptySet, Zenon
<1>. QED  BY <1>1 DEF Summed
-----------------------------------------------------------------------------
(* WorkflowGate.                                                            *)

(* Powers.                                                                  *)
PowersUpTo(p, c, n) == p = [k \in 0..n |-> IF k = 0 THEN 1 ELSE c * p[k - 1]]

(* The first n + 1 powers of c, by the recursion Power is defined with.     *)
Powered(p, c, n) == p \in [0..n -> Nat] /\ p[0] = 1 /\ \A k \in 1..n : p[k] = c * p[k - 1]

(* Power is the value of a function that satisfies the recursion.           *)
LEMMA PowerIsComputed ==
  ASSUME NEW c \in Nat, NEW n \in Nat
  PROVE  \E p : Powered(p, c, n) /\ Power(c, n) = p[n]
<1>. DEFINE step == [q \in (1..n) \X Nat |-> c * q[2]]
            p == CHOOSE p : PowersUpTo(p, c, n)
<1>1. \E h : PowersUpTo(h, c, n)
  <2>1. step \in [(1..n) \X Nat -> Nat]
    OBVIOUS
  <2>. HIDE DEF step
  <2>2. PICK h : Iterated(h, n, Nat, 1, step)
    BY <2>1, NatRecursion, Zenon
  <2>3. ASSUME NEW k \in 0..n, k # 0 PROVE h[k] = c * h[k - 1]
    <3>1. k \in 1..n /\ k - 1 \in 0..n
      BY <2>3
    <3>2. h[k - 1] \in Nat /\ h[k] = step[<<k, h[k - 1]>>]
      BY <2>2, <3>1, Zenon DEF Iterated
    <3>. QED  BY <3>1, <3>2, Zenon DEF step
  <2>4. PowersUpTo(h, c, n)
    BY <2>2, <2>3, Zenon DEF Iterated, PowersUpTo
  <2>. QED  BY <2>4, Zenon
<1>2. PowersUpTo(p, c, n)
  BY <1>1, Zenon
<1>3. Power(c, n) = p[n]
  BY Zenon DEF Power, PowersUpTo
<1>. HIDE DEF p
<1>4. p[0] = 1 /\ \A k \in 1..n : p[k] = c * p[k - 1]
  BY <1>2 DEF PowersUpTo
<1>5. \A k \in 0..n : p[k] \in Nat
  <2>. DEFINE T == {k \in Nat : p[k] \in Nat}
  <2>1. 0 \in T
    BY <1>4
  <2>2. ASSUME NEW k \in 0..n - 1, k \in T PROVE k + 1 \in T
    <3>1. k + 1 \in 1..n /\ (k + 1) - 1 = k
      OBVIOUS
    <3>2. p[k + 1] = c * p[k]
      BY <1>4, <3>1, Zenon
    <3>. QED  BY <2>2, <3>2
  <2>. HIDE DEF T
  <2>3. 0..n \subseteq T
    BY <2>1, <2>2, InductionUpTo, Zenon
  <2>. QED  BY <2>3, Zenon DEF T
<1>6. p \in [0..n -> Nat]
  BY <1>2, <1>5, Zenon DEF PowersUpTo
<1>. QED  BY <1>3, <1>4, <1>6, Zenon DEF Powered

(* Power multiplies once per step.                                          *)
LEMMA PowerFacts ==
  ASSUME NEW c \in Nat, NEW n \in Nat
  PROVE  Power(c, 0) = 1 /\ Power(c, n) \in Nat /\ Power(c, n + 1) = c * Power(c, n)
<1>0. n + 1 \in Nat /\ n \in 0..n
  OBVIOUS
<1>1. Power(c, 0) = 1
  BY PowerIsComputed, ZenonT(30) DEF Powered
<1>2. PICK p : Powered(p, c, n) /\ Power(c, n) = p[n]
  BY PowerIsComputed, Zenon
<1>3. PICK q : Powered(q, c, n + 1) /\ Power(c, n + 1) = q[n + 1]
  BY <1>0, PowerIsComputed, Zenon
<1>. DEFINE T == {k \in Nat : p[k] = q[k]}
<1>4. 0 \in T
  BY <1>2, <1>3, Zenon DEF Powered
<1>5. ASSUME NEW k \in 0..n - 1, k \in T PROVE k + 1 \in T
  <2>1. k + 1 \in 1..n /\ k + 1 \in 1..n + 1 /\ (k + 1) - 1 = k
    OBVIOUS
  <2>2. p[k + 1] = c * p[k] /\ q[k + 1] = c * q[k]
    BY <1>2, <1>3, <2>1, ZenonT(30) DEF Powered
  <2>. QED  BY <1>5, <2>2, SMTT(30)
<1>. HIDE DEF T
<1>6. 0..n \subseteq T
  BY <1>4, <1>5, InductionUpTo, Zenon
<1>7. p[n] = q[n] /\ p[n] \in Nat
  BY <1>0, <1>2, <1>6, Zenon DEF T, Powered
<1>8. n + 1 \in 1..n + 1 /\ (n + 1) - 1 = n
  OBVIOUS
<1>. QED  BY <1>1, <1>2, <1>3, <1>7, <1>8, Zenon DEF Powered

(* The smaller of two numbers.                                              *)
LEMMA MinOfTwo ==
  ASSUME NEW a \in Nat, NEW b \in Nat
  PROVE  Min({a, b}) = IF a <= b THEN a ELSE b
<1>1. \E x \in {a, b} : \A y \in {a, b} : x <= y
  OBVIOUS
<1>2. Min({a, b}) \in {a, b} /\ \A y \in {a, b} : Min({a, b}) <= y
  BY <1>1, Zenon DEF Min
<1>. QED  BY <1>2

(* A product with a positive number is no smaller.                          *)
LEMMA ProductGrows ==
  ASSUME NEW a \in Nat, NEW c \in Nat \ {0}
  PROVE  a * c \in Nat /\ a <= a * c
<1>1. PICK d \in Nat : c = d + 1
  <2>1. c - 1 \in Nat /\ c = (c - 1) + 1
    OBVIOUS
  <2>. QED  BY <2>1, Zenon
<1>2. a * (d + 1) = a * d + a /\ a * d \in Nat
  OBVIOUS
<1>. QED  BY <1>1, <1>2

(* Capping before the multiplication or after it makes no difference.       *)
LEMMA CapOnce ==
  ASSUME NEW a \in Nat, NEW m \in Nat, NEW c \in Nat \ {0}
  PROVE  Min({Min({a, m}) * c, m}) = Min({a * c, m})
<1>1. a * c \in Nat /\ a <= a * c /\ m * c \in Nat /\ m <= m * c
  BY ProductGrows, Zenon
<1>2. CASE a <= m
  <2>1. Min({a, m}) = a
    BY <1>2, MinOfTwo, Zenon
  <2>. QED  BY <2>1, Zenon
<1>3. CASE ~(a <= m)
  <2>1. Min({a, m}) = m
    BY <1>3, MinOfTwo, Zenon
  <2>2. Min({m * c, m}) = m
    <3>1. Min({m * c, m}) = IF m * c <= m THEN m * c ELSE m
      BY <1>1, MinOfTwo, Zenon
    <3>. QED  BY <1>1, <3>1
  <2>3. Min({a * c, m}) = m
    <3>1. Min({a * c, m}) = IF a * c <= m THEN a * c ELSE m
      BY <1>1, MinOfTwo, Zenon
    <3>. QED  BY <1>1, <1>3, <3>1, SMTT(30)
  <2>. QED  BY <2>1, <2>2, <2>3, Zenon
<1>. QED  BY <1>2, <1>3, Zenon
-----------------------------------------------------------------------------
(* A gate configuration that the SDK accepts.                               *)
ConfigType == [initial : Nat, coefficient : Nat \ {0}, max : Nat, attempts : Nat \ {0}]

(* Defaults replace every zero.                                             *)
LEMMA DefaultsType == \A c \in Configs : applyDefaults(c) \in ConfigType
BY ConfigsAssumption DEF applyDefaults, Default, ConfigType

(* The wait before attempt k + 1: exponential, cut at the maximum.          *)
Gap(c, k) == Min({c.initial * Power(c.coefficient, k), c.max})

(* The gaps begin with the initial interval and grow by the coefficient.    *)
LEMMA GapFacts ==
  ASSUME NEW c \in ConfigType, NEW k \in Nat
  PROVE  /\ Gap(c, k) \in Nat
         /\ Gap(c, k + 1) = Min({Gap(c, k) * c.coefficient, c.max})
         /\ c.initial <= c.max => Gap(c, 0) = c.initial
<1>. DEFINE power == Power(c.coefficient, k)
<1>1. c.initial \in Nat /\ c.coefficient \in Nat \ {0} /\ c.max \in Nat
  BY Zenon DEF ConfigType
<1>2. power \in Nat /\ Power(c.coefficient, k + 1) = c.coefficient * power /\ Power(c.coefficient, 0) = 1
  BY <1>1, PowerFacts, Zenon
<1>. HIDE DEF power
<1>3. c.initial * power \in Nat /\ c.initial * (c.coefficient * power) = (c.initial * power) * c.coefficient
  BY <1>1, <1>2
<1>4. Gap(c, k) \in Nat
  BY <1>1, <1>3, MinOfTwo, Zenon DEF Gap, power
<1>5. Gap(c, k + 1) = Min({(c.initial * power) * c.coefficient, c.max})
  BY <1>2, <1>3, Zenon DEF Gap, power
<1>6. Gap(c, k + 1) = Min({Min({c.initial * power, c.max}) * c.coefficient, c.max})
  BY <1>1, <1>3, <1>5, CapOnce, Zenon
<1>7. c.initial <= c.max => Gap(c, 0) = c.initial
  <2>1. c.initial * 1 = c.initial
    BY <1>1
  <2>. QED  BY <1>1, <1>2, <2>1, MinOfTwo, Zenon DEF Gap
<1>. QED  BY <1>4, <1>6, <1>7, Zenon DEF Gap, power

(* The time the first n waits take.                                         *)
GapSum(c, n) == SumFunction([k \in Below(n) |-> Gap(c, k)])

(* One more gap adds its length.                                            *)
LEMMA GapSumStep ==
  ASSUME NEW c \in ConfigType, NEW n \in Nat
  PROVE  GapSum(c, n + 1) = GapSum(c, n) + Gap(c, n) /\ GapSum(c, 0) = 0
<1>. DEFINE f == [k \in Below(n + 1) |-> Gap(c, k)]
            e == [k \in Below(n) |-> Gap(c, k)]
<1>1. Below(n) \subseteq Nat /\ Below(n + 1) \subseteq Nat /\ n \in Below(n + 1) /\ Below(n) \subseteq Below(n + 1)
  BY DEF Below
<1>2. f \in [Below(n + 1) -> Nat] /\ e \in [Below(n) -> Nat]
  BY <1>1, GapFacts, Zenon
<1>3. f[n] = Gap(c, n) /\ \A k \in Below(n) : e[k] = f[k]
  BY <1>1, Zenon
<1>. HIDE DEF f, e
<1>4. SumFunction(f) = SumFunction(e) + f[n]
  BY <1>2, <1>3, SumStep, Zenon
<1>5. GapSum(c, 0) = 0
  <2>1. Below(0) = {}
    BY DEF Below
  <2>2. [k \in Below(0) |-> Gap(c, k)] \in [{} -> Nat]
    BY <2>1, Zenon
  <2>. QED  BY <2>2, SumOfNothing, Zenon DEF GapSum
<1>. QED  BY <1>3, <1>4, <1>5, Zenon DEF GapSum, f, e
-----------------------------------------------------------------------------
(* The types of the gate.                                                   *)
GateStates == {"off", "attempt", "backoff", "clear", "gave up", "refused"}

Recorded == Statuses \cup {"none"}

GateTypes ==
  /\ status \in [Flows -> [1..MaxRuns -> Recorded]]
  /\ visible \in [Flows -> [1..MaxRuns -> Recorded]]
  /\ latest \in [Flows -> 0..MaxRuns]
  /\ gate \in GateStates /\ config \in ConfigType
  /\ attempt \in Nat /\ 1 <= attempt /\ attempt <= config.attempts
  /\ interval \in Nat /\ waited \in Nat /\ steady \subseteq Flows

(* A latest run exists.                                                     *)
RunsInv == \A w \in Flows : latest[w] > 0 => status[w][latest[w]] \in Statuses

(* What is still in its first run, and was indexed so, is indexed so.       *)
SteadyInv ==
  \A w \in steady : latest[w] = 1 /\ status[w][1] = "RUNNING" /\ visible[w][1] = "RUNNING"

(* An answer is about a run there is; one that gave the end of a run gave   *)
(* the end that run has.                                                    *)
ToldInv ==
  \/ told = NotTold
  \/ /\ told.flow \in Flows /\ told.run \in 1..latest[told.flow] /\ told.status \in Statuses
     /\ told.terminal => \/ told.status = "UNSPECIFIED"
                         \/ told.status \in Closed /\ status[told.flow][told.run] = told.status

(* What the ids' own steps keep.                                            *)
FlowsInv == RunsInv /\ SteadyInv /\ ToldInv

(* The interval and the time waited are those of the attempt; a retry is    *)
(* due only below the maximum of attempts and under a policy that was       *)
(* accepted.                                                                *)
WaitInv ==
  /\ gate = "backoff" => attempt < config.attempts /\ validateRetryPolicy(config)
  /\ gate = "gave up" => attempt = config.attempts
  /\ config.initial <= config.max => interval = Gap(config, attempt - 1)
  /\ waited = GapSum(config, attempt - 1)

(* The inductive invariant of the workflow.                                 *)
GateInv == GateTypes /\ FlowsInv /\ WaitInv /\ GateHolds

(* The wait begins with no gap behind it.                                   *)
LEMMA GateInvInit == GateInit => GateInv
<1>. SUFFICES ASSUME GateInit PROVE GateInv
  BY Zenon
<1>1. config \in ConfigType
  BY DefaultsType, Zenon DEF GateInit
<1>2. config.initial \in Nat /\ config.attempts \in Nat /\ 1 <= config.attempts
  BY <1>1, SMTT(30) DEF ConfigType
<1>3. GateTypes
  <2>1. MaxRuns \in Nat /\ 1 <= MaxRuns
    BY ConfigsAssumption
  <2>2. latest \in [Flows -> 0..MaxRuns]
    BY <2>1, SMTT(30) DEF GateInit
  <2>3. status \in [Flows -> [1..MaxRuns -> Recorded]] /\ visible = status
    BY Zenon DEF GateInit, Recorded, Statuses
  <2>. QED  BY <1>1, <1>2, <2>2, <2>3, SMTT(30) DEF GateInit, GateTypes, GateStates
<1>4. FlowsInv /\ GateHolds
  <2>1. 1 \in 1..MaxRuns
    BY ConfigsAssumption
  <2>2. \A w \in Flows : latest[w] \in {0, 1} /\ (latest[w] = 1 => status[w][1] = "RUNNING")
    BY <2>1, SMTT(30) DEF GateInit
  <2>3. RunsInv
    BY <2>2, SMTT(30) DEF RunsInv, Statuses
  <2>4. SteadyInv
    BY <2>2, Zenon DEF GateInit, SteadyInv
  <2>5. ToldInv /\ GateHolds
    BY Zenon DEF GateInit, ToldInv, GateHolds
  <2>. QED  BY <2>3, <2>4, <2>5, Zenon DEF FlowsInv
<1>5. WaitInv
  <2>1. attempt - 1 = 0 /\ interval = config.initial /\ waited = 0 /\ gate = "attempt"
    BY DEF GateInit
  <2>2. GapSum(config, 0) = 0 /\ (config.initial <= config.max => Gap(config, 0) = config.initial)
    BY <1>1, GapSumStep, GapFacts, Zenon
  <2>. QED  BY <2>1, <2>2, Zenon DEF WaitInv
<1>. QED  BY <1>3, <1>4, <1>5, Zenon DEF GateInv

(* A run that starts is a new one: the runs there were stay as they are.    *)
LEMMA StartRunNext ==
  ASSUME GateTypes, FlowsInv, NEW w \in Flows, StartRun(w)
  PROVE  FlowsInv' /\ GateTypes'
<1>. DEFINE n == latest[w] + 1
<1>1. /\ latest[w] \in 0..MaxRuns /\ latest[w] < MaxRuns /\ MaxRuns \in Nat
      /\ latest[w] = 0 \/ status[w][latest[w]] \in Closed
      /\ n \in 1..MaxRuns
  BY ConfigsAssumption, SMTT(30) DEF GateTypes, StartRun, LatestIs
<1>2. /\ latest' = [latest EXCEPT ![w] = n] /\ status' = [status EXCEPT ![w][n] = "RUNNING"]
      /\ UNCHANGED <<visible, told, gate, config, attempt, interval, waited, steady>>
  BY SMTT(30) DEF StartRun
<1>3. w \notin steady
  BY <1>1, SMTT(30) DEF FlowsInv, SteadyInv, Closed
<1>4. GateTypes'
  BY <1>1, <1>2, SMTT(30) DEF GateTypes, Recorded, Statuses
<1>5. RunsInv'
  BY <1>1, <1>2, SMTT(30) DEF GateTypes, FlowsInv, RunsInv, Statuses
<1>6. SteadyInv'
  BY <1>1, <1>2, <1>3, SMTT(30) DEF GateTypes, FlowsInv, SteadyInv
<1>7. ToldInv'
  BY <1>1, <1>2, SMTT(30) DEF GateTypes, FlowsInv, ToldInv
<1>. QED  BY <1>4, <1>5, <1>6, <1>7, Zenon DEF FlowsInv

(* Only an open run changes.                                                *)
LEMMA RunChangesNext ==
  ASSUME GateTypes, FlowsInv, NEW w \in Flows,
         NEW s \in {"RUNNING", "PAUSED"} \cup Closed, RunChanges(w, s)
  PROVE  FlowsInv' /\ GateTypes'
<1>. DEFINE n == latest[w]
<1>1. n \in 1..MaxRuns /\ status[w][n] \in {"RUNNING", "PAUSED"} /\ s \in Statuses
  BY ConfigsAssumption, SMTT(30) DEF GateTypes, RunChanges, LatestIs, Statuses
<1>2. /\ status' = [status EXCEPT ![w][n] = s] /\ steady' = steady \ {w}
      /\ UNCHANGED <<latest, visible, told, gate, config, attempt, interval, waited>>
  BY Zenon DEF RunChanges
<1>4. GateTypes'
  BY <1>1, <1>2, SMTT(30) DEF GateTypes, Recorded
<1>5. RunsInv'
  BY <1>1, <1>2, SMTT(30) DEF GateTypes, FlowsInv, RunsInv
<1>6. SteadyInv'
  BY <1>1, <1>2, SMTT(30) DEF GateTypes, FlowsInv, SteadyInv
<1>7. ToldInv'
  BY <1>1, <1>2, SMTT(30) DEF GateTypes, FlowsInv, ToldInv, Closed
<1>. QED  BY <1>4, <1>5, <1>6, <1>7, Zenon DEF FlowsInv

(* The run that is continued was running, so no answer gave its end.        *)
LEMMA ContinueAsNewNext ==
  ASSUME GateTypes, FlowsInv, NEW w \in Flows, ContinueAsNew(w)
  PROVE  FlowsInv' /\ GateTypes'
<1>. DEFINE n == latest[w]
            runs == [status[w] EXCEPT ![n] = "CONTINUED_AS_NEW", ![n + 1] = "RUNNING"]
<1>1. /\ n \in 1..MaxRuns /\ n + 1 \in 1..MaxRuns /\ status[w][n] = "RUNNING" /\ n # n + 1
  BY ConfigsAssumption, SMTT(30) DEF GateTypes, ContinueAsNew, LatestIs
<1>2. /\ latest' = [latest EXCEPT ![w] = n + 1] /\ steady' = steady \ {w}
      /\ status' = [status EXCEPT ![w] = runs]
      /\ UNCHANGED <<visible, told, gate, config, attempt, interval, waited>>
  BY Zenon DEF ContinueAsNew
<1>3. /\ status' \in [Flows -> [1..MaxRuns -> Recorded]]
      /\ status'[w][n + 1] = "RUNNING"
      /\ \A v \in Flows, k \in 1..MaxRuns : v # w \/ k \notin {n, n + 1} => status'[v][k] = status[v][k]
  <2>1. status[w] \in [1..MaxRuns -> Recorded] /\ status \in [Flows -> [1..MaxRuns -> Recorded]]
    BY Zenon DEF GateTypes
  <2>2. {"CONTINUED_AS_NEW", "RUNNING"} \subseteq Recorded
    BY Zenon DEF Recorded, Statuses
  <2>3. /\ runs \in [1..MaxRuns -> Recorded] /\ runs[n + 1] = "RUNNING"
        /\ \A k \in 1..MaxRuns : k \notin {n, n + 1} => runs[k] = status[w][k]
    BY <1>1, <2>1, <2>2, SMTT(30)
  <2>. HIDE DEF runs, n
  <2>4. status' = [status EXCEPT ![w] = runs]
    BY <1>2, Zenon
  <2>5. status' \in [Flows -> [1..MaxRuns -> Recorded]] /\ status'[w] = runs
    BY <2>1, <2>3, <2>4, Zenon
  <2>6. \A v \in Flows : v # w => status'[v] = status[v]
    BY <2>1, <2>4, Zenon
  <2>. QED  BY <2>3, <2>5, <2>6, Zenon
<1>. HIDE DEF runs
<1>4. GateTypes'
  BY <1>1, <1>2, <1>3, SMTT(30) DEF GateTypes
<1>5. RunsInv'
  BY <1>1, <1>2, <1>3, SMTT(30) DEF GateTypes, FlowsInv, RunsInv, Statuses
<1>6. SteadyInv'
  BY <1>1, <1>2, <1>3, ConfigsAssumption, SMTT(30) DEF GateTypes, FlowsInv, SteadyInv
<1>7. ToldInv'
  <2>1. CASE told = NotTold
    BY <1>2, <2>1, Zenon DEF ToldInv
  <2>2. CASE told # NotTold
    <3>1. /\ told.flow \in Flows /\ told.run \in 1..latest[told.flow] /\ told.status \in Statuses
          /\ told.terminal => \/ told.status = "UNSPECIFIED"
                              \/ told.status \in Closed /\ status[told.flow][told.run] = told.status
      BY <2>2, Zenon DEF FlowsInv, ToldInv
    <3>2. told.run \in 1..MaxRuns /\ told.run \in 1..latest'[told.flow]
      BY <1>1, <1>2, <3>1, ConfigsAssumption, SMTT(30) DEF GateTypes
    <3>3. told.status \in Closed /\ status[told.flow][told.run] = told.status
            => told.flow # w \/ told.run \notin {n, n + 1}
      BY <1>1, <3>1, ConfigsAssumption, SMTT(30) DEF Closed, GateTypes
    <3>4. told' = told
      BY <1>2, Zenon
    <3>. QED  BY <1>3, <3>1, <3>2, <3>3, <3>4, Zenon DEF ToldInv
  <2>. QED  BY <2>1, <2>2, Zenon
<1>. QED  BY <1>4, <1>5, <1>6, <1>7, Zenon DEF FlowsInv

(* The visibility store takes over the status a run has.                    *)
LEMMA IndexNext ==
  ASSUME GateTypes, FlowsInv, NEW w \in Flows, NEW k \in 1..MaxRuns, Index(w, k)
  PROVE  FlowsInv' /\ GateTypes'
<1>2. /\ visible' = [visible EXCEPT ![w][k] = status[w][k]]
      /\ UNCHANGED <<status, latest, told, gate, config, attempt, interval, waited, steady>>
  BY Zenon DEF Index
<1>3. status[w][k] \in Recorded
  BY Zenon DEF GateTypes
<1>4. GateTypes'
  <2>1. visible' \in [Flows -> [1..MaxRuns -> Recorded]]
    <3>1. visible \in [Flows -> [1..MaxRuns -> Recorded]]
      BY Zenon DEF GateTypes
    <3>. QED  BY <1>2, <1>3, <3>1, SMTT(30)
  <2>. QED  BY <1>2, <2>1, Zenon DEF GateTypes
<1>5. RunsInv' /\ ToldInv'
  BY <1>2, Zenon DEF FlowsInv, RunsInv, ToldInv
<1>6. SteadyInv'
  BY <1>2, ConfigsAssumption, SMTT(30) DEF GateTypes, FlowsInv, SteadyInv
<1>. QED  BY <1>4, <1>5, <1>6, Zenon DEF FlowsInv

(* The answer is about the latest run, whose status it gives if any.        *)
LEMMA GetStatusNext ==
  ASSUME GateTypes, FlowsInv, NEW w \in Flows, GetStatus(w)
  PROVE  FlowsInv' /\ GateTypes'
<1>1. UNCHANGED <<status, latest, visible, gate, config, attempt, interval, waited, steady>> /\ latest[w] > 0
  BY Zenon DEF GetStatus
<1>2. PICK s \in Describe(w) :
        told' = [flow |-> w, run |-> latest[w], status |-> s, terminal |-> isWorkflowStatusTerminal(s)]
  BY Zenon DEF GetStatus
<1>3. s \in Statuses /\ (s = status[w][latest[w]] \/ s = "UNSPECIFIED")
  BY <1>1, SMTT(30) DEF Describe, FlowsInv, RunsInv, Statuses
<1>4. latest[w] \in 1..latest[w]
  BY <1>1, ConfigsAssumption, SMTT(30) DEF GateTypes
<1>5. /\ told'.flow = w /\ told'.run = latest[w] /\ told'.status = s
      /\ told'.terminal = isWorkflowStatusTerminal(s)
  BY <1>2, Zenon
<1>6. ToldInv'
  BY <1>1, <1>3, <1>4, <1>5, Zenon DEF ToldInv, isWorkflowStatusTerminal
<1>7. RunsInv' /\ SteadyInv' /\ GateTypes'
  BY <1>1, Zenon DEF FlowsInv, RunsInv, SteadyInv, GateTypes
<1>. QED  BY <1>6, <1>7, Zenon DEF FlowsInv

(* The steps of the ids and of the client.                                  *)
FlowsSteps ==
  \/ \E w \in Flows : StartRun(w) \/ ContinueAsNew(w) \/ GetStatus(w)
  \/ \E w \in Flows, s \in {"RUNNING", "PAUSED"} \cup Closed : RunChanges(w, s)
  \/ \E w \in Flows, k \in 1..MaxRuns : Index(w, k)

(* The steps of the ids and of the client leave the wait alone.             *)
LEMMA FlowsNext == ASSUME GateInv, FlowsSteps PROVE GateInv'
<1>1. GateTypes /\ FlowsInv
  BY Zenon DEF GateInv
<1>2. FlowsInv' /\ GateTypes'
  BY <1>1, StartRunNext, ContinueAsNewNext, GetStatusNext, RunChangesNext, IndexNext, Zenon DEF FlowsSteps
<1>3. UNCHANGED <<gate, config, attempt, interval, waited>> /\ steady' \subseteq steady
  BY Zenon DEF FlowsSteps, StartRun, ContinueAsNew, GetStatus, RunChanges, Index
<1>4. WaitInv'
  BY <1>3, Zenon DEF GateInv, WaitInv
<1>5. GateHolds'
  BY <1>3, Zenon DEF GateInv, GateHolds
<1>. QED  BY <1>2, <1>4, <1>5, Zenon DEF GateInv

(* A retry adds the gap that was due and computes the next one.             *)
LEMMA RetryNext == GateInv /\ Retry => GateInv'
<1>. SUFFICES ASSUME GateInv, Retry PROVE GateInv'
  BY Zenon
<1>1. /\ attempt \in Nat \ {0} /\ attempt < config.attempts /\ validateRetryPolicy(config)
      /\ config \in ConfigType /\ config' = config /\ attempt' = attempt + 1
  <2>1. attempt \in Nat /\ 1 <= attempt /\ config \in ConfigType
    BY Zenon DEF GateInv, GateTypes
  <2>2. gate = "backoff" /\ config' = config /\ attempt' = attempt + 1
    BY Zenon DEF Retry
  <2>3. attempt < config.attempts /\ validateRetryPolicy(config)
    BY <2>2, Zenon DEF GateInv, WaitInv
  <2>4. attempt \in Nat \ {0}
    BY <2>1
  <2>. QED  BY <2>1, <2>2, <2>3, <2>4, Zenon
<1>2. PICK n \in Nat : attempt = n + 1
  <2>1. attempt - 1 \in Nat /\ attempt = (attempt - 1) + 1
    BY <1>1
  <2>. QED  BY <2>1, Zenon
<1>3. config.initial \in Nat /\ config.coefficient \in Nat \ {0} /\ config.max \in Nat /\ config.attempts \in Nat
  BY <1>1, Zenon DEF ConfigType
<1>4. config.initial <= config.max
  BY <1>1, <1>2, <1>3, SMTT(30) DEF validateRetryPolicy
<1>5. interval = Gap(config, n) /\ waited = GapSum(config, n)
  <2>1. attempt - 1 = n
    BY <1>2, SMTT(30)
  <2>. QED  BY <1>4, <2>1, Zenon DEF GateInv, WaitInv
<1>6. interval' = Gap(config, n + 1) /\ waited' = GapSum(config, n + 1) /\ interval' \in Nat /\ waited' \in Nat
  <2>1. interval' = Min({interval * config.coefficient, config.max}) /\ waited' = waited + interval
    BY Zenon DEF Retry
  <2>0. n + 1 \in Nat
    OBVIOUS
  <2>2. Gap(config, n + 1) \in Nat /\ Gap(config, n) \in Nat /\ waited \in Nat
    <3>1. Gap(config, n) \in Nat
      BY <1>1, GapFacts, Zenon
    <3>2. Gap(config, n + 1) \in Nat
      BY <1>1, <2>0, GapFacts, Zenon
    <3>. QED  BY <3>1, <3>2, Zenon DEF GateInv, GateTypes
  <2>3. interval' = Gap(config, n + 1)
    BY <1>1, <1>5, <2>1, GapFacts, Zenon
  <2>4. waited' = GapSum(config, n + 1)
    BY <1>1, <1>5, <2>1, GapSumStep, Zenon
  <2>. QED  BY <1>5, <2>1, <2>2, <2>3, <2>4, SMTT(30)
<1>7. WaitInv'
  <2>1. attempt' - 1 = n + 1 /\ gate' = "attempt"
    <3>1. attempt' - 1 = n + 1
      BY <1>1, <1>2
    <3>2. gate' = "attempt"
      BY ZenonT(30) DEF Retry
    <3>. QED  BY <3>1, <3>2, Zenon
  <2>. QED  BY <1>1, <1>6, <2>1, Zenon DEF WaitInv
<1>8. GateTypes'
  BY <1>1, <1>3, <1>6, SMTT(30) DEF GateInv, GateTypes, GateStates, Retry
<1>9. FlowsInv' /\ GateHolds'
  BY Zenon DEF GateInv, FlowsInv, RunsInv, SteadyInv, ToldInv, GateHolds, Retry
<1>. QED  BY <1>7, <1>8, <1>9, Zenon DEF GateInv

(* Every step keeps the invariant.                                          *)
LEMMA GateInvNext == GateInv /\ [GateNext]_gateVars => GateInv'
<1>. SUFFICES ASSUME GateInv, [GateNext]_gateVars PROVE GateInv'
  BY Zenon
<1>. USE DEF GateInv
<1>1. CASE Refuse
  <2>1. GateTypes'
    BY <1>1, Zenon DEF Refuse, GateTypes, GateStates
  <2>2. FlowsInv' /\ GateHolds' /\ WaitInv'
    BY <1>1, Zenon DEF Refuse, FlowsInv, RunsInv, SteadyInv, ToldInv, GateHolds, WaitInv
  <2>. QED  BY <2>1, <2>2, Zenon
<1>2. CASE Activity
  <2>0. UNCHANGED <<status, latest, visible, told, config, attempt, interval, waited, steady>>
    BY <1>2, Zenon DEF Activity, ActivityFails
  <2>1. gate' = "clear" => ~IsWorkflowTypeRunning
    BY <1>2, Zenon DEF Activity, ActivityFails
  <2>2. /\ gate' \in {"backoff", "gave up", "clear"} /\ validateRetryPolicy(config)
        /\ gate' = "backoff" => attempt < config.attempts
        /\ gate' = "gave up" => ~(attempt < config.attempts)
    BY <1>2, Zenon DEF Activity, ActivityFails
  <2>3. GateTypes'
    BY <2>0, <2>2, Zenon DEF GateTypes, GateStates
  <2>4. FlowsInv'
    BY <2>0, Zenon DEF FlowsInv, RunsInv, SteadyInv, ToldInv
  <2>5. GateHolds'
    <3>1. 1 \in 1..MaxRuns
      BY ConfigsAssumption
    <3>. QED  BY <2>0, <2>1, <3>1, Zenon DEF GateHolds, IsWorkflowTypeRunning, FlowsInv, SteadyInv, GateTypes
  <2>6. config.attempts \in Nat
    BY Zenon DEF GateTypes, ConfigType
  <2>7. gate' = "gave up" => attempt = config.attempts
    <3>1. attempt \in Nat /\ attempt <= config.attempts
      BY Zenon DEF GateTypes
    <3>2. ~(attempt < config.attempts) => attempt = config.attempts
      BY <2>6, <3>1
    <3>. QED  BY <2>2, <3>2, Zenon
  <2>8. WaitInv'
    BY <2>0, <2>2, <2>7, Zenon DEF WaitInv
  <2>. QED  BY <2>3, <2>4, <2>5, <2>8, Zenon
<1>3. CASE Retry
  BY <1>3, RetryNext, Zenon
<1>4. CASE FlowsSteps
  BY <1>4, FlowsNext, Zenon
<1>5. CASE UNCHANGED gateVars
  BY <1>5, Zenon DEF gateVars, GateTypes, FlowsInv, RunsInv, SteadyInv, ToldInv, GateHolds, WaitInv
<1>. QED  BY <1>1, <1>2, <1>3, <1>4, <1>5, ZenonT(30) DEF GateNext, FlowsSteps

(* The inductive invariant of the wait.                                     *)
LEMMA GateInvHolds == GateSpec => []GateInv
BY GateInvInit, GateInvNext, PTL DEF GateSpec

(* temporal/wait.go: attempts never exceed MaximumAttempts and the state of *)
(* the wait keeps its types, for any workflows and any configuration.       *)
THEOREM GateTypeCorrect == GateSpec => []GateTypeOK
<1>1. GateInv => GateTypeOK
  <2>. SUFFICES ASSUME GateTypes, ToldInv PROVE GateTypeOK
    BY Zenon DEF GateInv, FlowsInv
  <2>1. config.attempts \in Nat
    BY Zenon DEF GateTypes, ConfigType
  <2>2. attempt \in 1..config.attempts
    BY <2>1 DEF GateTypes
  <2>. QED  BY <2>2, Zenon DEF GateTypes, ToldInv, GateTypeOK, GateStates, Recorded
<1>. QED  BY <1>1, GateInvHolds, PTL

(* WaitForWorkflowTypeClear answers nil only when every workflow that was   *)
(* running and indexed when the wait began has stopped since, whatever      *)
(* queries fail and however many workflows there are.                       *)
THEOREM GateHoldsAlways == GateSpec => []GateHolds
BY GateInvHolds, PTL DEF GateInv

(* m attempts have m - 1 gaps between them, numbered from 0.                *)
LEMMA BelowPred == ASSUME NEW m \in Nat PROVE Below(m - 1) = 0..m - 2
<1>1. (m - 1) - 1 = m - 2
  BY SMTT(30)
<1>. QED  BY <1>1, Zenon DEF Below

(* WaitForWorkflowTypeClear gives up after exactly MaximumAttempts attempts *)
(* and the sum of the capped exponential gaps between them, for every       *)
(* configuration a caller may pass.                                         *)
THEOREM GivesUpInTimeHolds == GateSpec => []GivesUpInTime
<1>1. GateInv => GivesUpInTime
  <2>. SUFFICES ASSUME GateInv, gate = "gave up"
                PROVE  /\ attempt = config.attempts
                       /\ waited = SumFunction([k \in 0..config.attempts - 2 |-> BackoffGap(k)])
    BY Zenon DEF GivesUpInTime
  <2>1. attempt = config.attempts /\ waited = GapSum(config, attempt - 1) /\ attempt \in Nat
    BY Zenon DEF GateInv, WaitInv, GateTypes
  <2>2. Below(attempt - 1) = 0..config.attempts - 2
    BY <2>1, BelowPred, Zenon
  <2>3. \A k : BackoffGap(k) = Gap(config, k)
    BY Zenon DEF BackoffGap, Gap
  <2>4. [k \in 0..config.attempts - 2 |-> BackoffGap(k)] = [k \in Below(attempt - 1) |-> Gap(config, k)]
    BY <2>2, <2>3, ZenonT(30)
  <2>. QED  BY <2>1, <2>4, Zenon DEF GapSum
<1>. QED  BY <1>1, GateInvHolds, PTL

(* GetStatus: a run it called terminal has ended, and keeps that end when   *)
(* the id gets further runs, except after an answer without a status; for   *)
(* any number of workflows and of runs.                                     *)
THEOREM TerminalIsFinalHolds == GateSpec => []TerminalIsFinal
<1>1. GateInv => TerminalIsFinal
  <2>1. ~NotTold.terminal
    BY DEF NotTold
  <2>. QED  BY <2>1, Zenon DEF GateInv, FlowsInv, ToldInv, TerminalIsFinal
<1>. QED  BY <1>1, GateInvHolds, PTL
=============================================================================
