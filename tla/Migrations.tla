----------------------------- MODULE Migrations -----------------------------
(***************************************************************************)
(* Concurrent MigrateUp, MigrateDown and MigrateForce calls of db/mysql,   *)
(* db/postgresql and db/sqlite: the shared runner of db/migrate.go over    *)
(* golang-migrate, the connection a call reserves from the pool, the       *)
(* advisory lock, the schema_migrations ledger and the schema itself.      *)
(* Any statement may fail, a failed commit may have taken effect, and the  *)
(* process may crash between any two statements.                           *)
(***************************************************************************)
EXTENDS Integers, FiniteSets

CONSTANTS
  Procs,    \* goroutines that migrate
  Conns,    \* connections of the pool
  N,        \* the source holds migrations 1 .. N
  Dialects, \* of "mysql", "postgres" and "sqlite"
  Overlap,  \* the dialects whose calls may overlap
  MaxHeld,  \* bound: how often a lock left with a session may be held
  NoConn

ASSUME MigrationsAssumption ==
  /\ N \in Nat \ {0} /\ MaxHeld \in Nat
  /\ Overlap \subseteq Dialects
  /\ Dialects \subseteq {"mysql", "postgres", "sqlite"}
  /\ NoConn \notin Conns

VARIABLES
  dialect, \* the database this program uses
  ledger,  \* the row of schema_migrations; version -1, not dirty if none
  schema,  \* what migration i has left in the schema: "no", "part", "yes"
  lock,    \* the session that holds the advisory lock, and how often
  conn,    \* the connection a call has reserved
  call,    \* the call: kind, and the steps left or the version to force
  pc,      \* where the call is
  target,  \* the migration it is at, and the version that leads to
  ok       \* FALSE once the call has an error to return

vars == <<dialect, ledger, schema, lock, conn, call, pc, target, ok>>

Nil == -1  \* database.NilVersion

Version == {Nil} \cup 1 .. N
Call == [kind : {"up"}, arg : {0}] \cup [kind : {"down"}, arg : 1 .. N + 1]
          \cup [kind : {"force"}, arg : Version]

(* The locals of a goroutine that is in no call. *)
NoCall   == [kind |-> "up", arg |-> 0]
NoTarget == [run |-> 1, version |-> 1]
NoLock   == [holder |-> NoConn, count |-> 0]

NextVersion(v) == IF v = Nil THEN 1 ELSE v + 1
PrevVersion(v) == IF v = 1 THEN Nil ELSE v - 1

(* The schema that version v stands for. *)
SchemaAt(v) == [i \in 1 .. N |-> IF i <= v THEN "yes" ELSE "no"]

Locked   == {"read", "mark", "run", "clean", "unlock"}

(* A failed script leaves nothing behind. *)
Transactional == dialect # "mysql"

Init ==
  /\ dialect \in Dialects
  /\ ledger = [version |-> Nil, dirty |-> FALSE]
  /\ schema = SchemaAt(Nil)
  /\ lock = NoLock
  /\ conn = [p \in Procs |-> NoConn]
  /\ call = [p \in Procs |-> NoCall]
  /\ pc = [p \in Procs |-> "idle"]
  /\ target = [p \in Procs |-> NoTarget]
  /\ ok = [p \in Procs |-> TRUE]

Goto(p, l) == pc' = [pc EXCEPT ![p] = l]
-----------------------------------------------------------------------------
(* Driver.Lock and Unlock: the server's lock for a session, which the      *)
(* session may take again; a flag of the call's own driver in sqlite.      *)
CanLock(c) == dialect = "sqlite" \/ lock.holder \in {NoConn, c}

TakeLock(c) ==
  lock' = IF dialect = "sqlite" THEN lock
          ELSE [holder |-> c, count |-> lock.count + 1]

DropLock ==
  lock' = IF dialect = "sqlite" THEN lock
          ELSE [holder |-> IF lock.count = 1 THEN NoConn ELSE lock.holder,
                count  |-> lock.count - 1]

(* Driver.SetVersion, one transaction: delete the row, then insert one     *)
(* unless the version is nil and clean.  Driver.Version reads "no row" as  *)
(* the nil version, clean.                                                 *)
NoRow == [version |-> Nil, dirty |-> FALSE]

SetVersion(v, dirty) ==
  ledger' = IF v >= 0 \/ (v = Nil /\ dirty)
            THEN [version |-> v, dirty |-> dirty]
            ELSE NoRow
-----------------------------------------------------------------------------
(* The calls.  MigrateForce repairs the bookkeeping after an operator has  *)
(* brought the schema to that version, which the documentation asks for,   *)
(* when nobody else is migrating.                                          *)
Begin(p, c) ==
  /\ pc[p] = "idle"
  /\ dialect \in Overlap \/ \A q \in Procs : pc[q] = "idle"
  /\ call' = [call EXCEPT ![p] = c]
  /\ Goto(p, IF dialect = "sqlite" THEN "ensure" ELSE "reserve")
  /\ IF c.kind = "force"
     THEN /\ ledger.dirty /\ \A q \in Procs : pc[q] = "idle"
          /\ schema' = SchemaAt(c.arg)
     ELSE UNCHANGED schema
  /\ UNCHANGED <<dialect, ledger, lock, conn, target, ok>>

Reserve(p) ==
  /\ pc[p] = "reserve"
  /\ \E c \in Conns :
       /\ \A q \in Procs : conn[q] # c
       /\ conn' = [conn EXCEPT ![p] = c]
  /\ Goto(p, "ensure")
  /\ UNCHANGED <<dialect, ledger, schema, lock, call, target, ok>>

(* ensureVersionTable, run by WithConnection, locks to create the table. *)
EnsureLock(p) ==
  /\ pc[p] = "ensure" /\ CanLock(conn[p])
  /\ TakeLock(conn[p])
  /\ Goto(p, "table")
  /\ UNCHANGED <<dialect, ledger, schema, conn, call, target, ok>>

EnsureUnlock(p) ==
  /\ pc[p] = "table"
  /\ DropLock
  /\ \/ Goto(p, "lock") /\ UNCHANGED ok
     \/ Goto(p, "close") /\ ok' = [ok EXCEPT ![p] = FALSE]
  /\ UNCHANGED <<dialect, ledger, schema, conn, call, target>>

(* The call fails before it has locked: no connection, ping, no migration  *)
(* source, GET_LOCK's ten seconds.                                         *)
FailEarly(p) ==
  /\ pc[p] \in {"reserve", "ensure", "lock"}
  /\ ok' = [ok EXCEPT ![p] = FALSE]
  /\ Goto(p, "close")
  /\ UNCHANGED <<dialect, ledger, schema, lock, conn, call, target>>

(* Fault: the lock is taken for granted. *)
LockUnchecked(p) ==
  /\ pc[p] = "lock"
  /\ TakeLock(conn[p])
  /\ Goto(p, "read")
  /\ UNCHANGED <<dialect, ledger, schema, conn, call, target, ok>>

Lock(p) ==
  /\ pc[p] = "lock" /\ CanLock(conn[p])
  /\ TakeLock(conn[p])
  /\ Goto(p, "read")
  /\ UNCHANGED <<dialect, ledger, schema, conn, call, target, ok>>

(* Migrate.lock gives up after 15 seconds, but pg_advisory_lock goes on    *)
(* waiting on the connection, and so does the Close of that connection.    *)
LockTimeout(p) ==
  /\ dialect = "postgres" /\ pc[p] = "lock" /\ ~CanLock(conn[p])
  /\ ok' = [ok EXCEPT ![p] = FALSE]
  /\ Goto(p, "late")
  /\ UNCHANGED <<dialect, ledger, schema, lock, conn, call, target>>

LateLock(p) ==
  /\ pc[p] = "late" /\ CanLock(conn[p])
  /\ TakeLock(conn[p])
  /\ Goto(p, "close")
  /\ UNCHANGED <<dialect, ledger, schema, conn, call, target, ok>>
-----------------------------------------------------------------------------
(* With the lock: Up, Steps(-n) and Force.  Each step p takes from version *)
(* v to the next one, or ends the call.                                    *)
Advance(p, v, left) ==
  \/ /\ call[p].kind = "up" /\ v # N
     /\ target' = [target EXCEPT ![p] =
                     [run |-> NextVersion(v), version |-> NextVersion(v)]]
     /\ Goto(p, "mark")
     /\ UNCHANGED ok
  \/ /\ call[p].kind = "down" /\ left > 0 /\ v # Nil
     /\ target' = [target EXCEPT ![p] = [run |-> v, version |-> PrevVersion(v)]]
     /\ Goto(p, "mark")
     /\ UNCHANGED ok
  \/ /\ IF call[p].kind = "up" THEN v = N ELSE left = 0
     /\ Goto(p, "unlock")
     /\ UNCHANGED <<target, ok>>
  \/ /\ call[p].kind = "down" /\ left > 0 /\ v = Nil  \* ErrShortLimit
     /\ Goto(p, "unlock")
     /\ ok' = [ok EXCEPT ![p] = FALSE]
     /\ UNCHANGED target

Fail(p) ==
  /\ ok' = [ok EXCEPT ![p] = FALSE]
  /\ Goto(p, "unlock")
  /\ UNCHANGED target

(* Fault: a dirty database is taken for one without pending migrations. *)
ReadVersionNoChange(p) ==
  /\ pc[p] = "read" /\ call[p].kind # "force"
  /\ IF ledger.dirty
     THEN Goto(p, "unlock") /\ UNCHANGED <<target, ok>>
     ELSE Fail(p) \/ Advance(p, ledger.version, call[p].arg)
  /\ UNCHANGED <<dialect, ledger, schema, lock, conn, call>>

ReadVersion(p) ==
  /\ pc[p] = "read" /\ call[p].kind # "force"
  /\ IF ledger.dirty
     THEN Fail(p)
     ELSE Fail(p) \/ Advance(p, ledger.version, call[p].arg)
  /\ UNCHANGED <<dialect, ledger, schema, lock, conn, call>>

ForceVersion(p) ==
  /\ pc[p] = "read" /\ call[p].kind = "force"
  /\ \/ SetVersion(call[p].arg, FALSE) /\ Goto(p, "unlock") /\ UNCHANGED <<target, ok>>
     \/ SetVersion(call[p].arg, FALSE) /\ Fail(p)
     \/ UNCHANGED ledger /\ Fail(p)
  /\ UNCHANGED <<dialect, schema, lock, conn, call>>

(* Fault: the version is written without the flag. *)
MarkNotDirty(p) ==
  /\ pc[p] = "mark"
  /\ SetVersion(target[p].version, FALSE) /\ Goto(p, "run")
  /\ UNCHANGED <<dialect, schema, lock, conn, call, target, ok>>

MarkDirty(p) ==
  /\ pc[p] = "mark"
  /\ \/ SetVersion(target[p].version, TRUE) /\ Goto(p, "run") /\ UNCHANGED <<target, ok>>
     \/ SetVersion(target[p].version, TRUE) /\ Fail(p)
     \/ UNCHANGED ledger /\ Fail(p)
  /\ UNCHANGED <<dialect, schema, lock, conn, call>>

(* Driver.Run.  A script succeeds on the schema it was written for; one    *)
(* that fails may leave a part of its statements behind where DDL commits. *)
RunScript(p) ==
  LET i      == target[p].run
      before == IF call[p].kind = "up" THEN "no" ELSE "yes"
      after  == IF call[p].kind = "up" THEN "yes" ELSE "no"
  IN
  /\ pc[p] = "run"
  /\ \/ /\ schema[i] = before
        /\ schema' = [schema EXCEPT ![i] = after]
        /\ \/ Goto(p, "clean") /\ UNCHANGED <<target, ok>>
           \/ Fail(p)
     \/ ~Transactional /\ schema' = [schema EXCEPT ![i] = "part"] /\ Fail(p)
     \/ UNCHANGED schema /\ Fail(p)
  /\ UNCHANGED <<dialect, ledger, lock, conn, call>>

MarkClean(p) ==
  LET left == IF call[p].kind = "down" THEN call[p].arg - 1 ELSE 0 IN
  /\ pc[p] = "clean"
  /\ \/ /\ SetVersion(target[p].version, FALSE)
        /\ call' = [call EXCEPT ![p] = [kind |-> @.kind, arg |-> left]]
        /\ (Advance(p, target[p].version, left) \/ Fail(p))
     \/ UNCHANGED <<ledger, call>> /\ Fail(p)
  /\ UNCHANGED <<dialect, schema, lock, conn>>

Unlock(p) ==
  /\ pc[p] = "unlock"
  /\ DropLock
  /\ Goto(p, "close")
  /\ UNCHANGED <<dialect, ledger, schema, conn, call, target, ok>>

(* The statement that unlocks fails: with the session, whose lock the      *)
(* server frees, or alone, which leaves the lock with the session.         *)
UnlockFails(p) ==
  /\ dialect # "sqlite" /\ pc[p] \in {"table", "unlock"}
  /\ \/ lock' = NoLock
     \/ lock.count <= MaxHeld /\ UNCHANGED lock
  /\ ok' = [ok EXCEPT ![p] = FALSE]
  /\ Goto(p, "close")
  /\ UNCHANGED <<dialect, ledger, schema, conn, call, target>>

(* The call returns, and its locals are gone. *)
Return(p) ==
  /\ Goto(p, "idle")
  /\ call' = [call EXCEPT ![p] = NoCall]
  /\ target' = [target EXCEPT ![p] = NoTarget]
  /\ ok' = [ok EXCEPT ![p] = TRUE]

(* Fault: the connection is returned after success only. *)
CloseOnSuccess(p) ==
  /\ pc[p] = "close"
  /\ conn' = IF ok[p] THEN [conn EXCEPT ![p] = NoConn] ELSE conn
  /\ Return(p)
  /\ UNCHANGED <<dialect, ledger, schema, lock>>

(* driver.Close, or conn.Close where no driver was made. *)
Close(p) ==
  /\ pc[p] = "close"
  /\ conn' = [conn EXCEPT ![p] = NoConn]
  /\ Return(p)
  /\ UNCHANGED <<dialect, ledger, schema, lock>>

(* The process dies: the server ends its sessions and frees their lock. *)
Crash ==
  /\ pc' = [p \in Procs |-> "idle"]
  /\ conn' = [p \in Procs |-> NoConn]
  /\ lock' = NoLock
  /\ call' = [p \in Procs |-> NoCall]
  /\ target' = [p \in Procs |-> NoTarget]
  /\ ok' = [p \in Procs |-> TRUE]
  /\ UNCHANGED <<dialect, ledger, schema>>

(* GET_LOCK gives up when another session keeps the lock. *)
LockDenied(p) ==
  dialect = "mysql" /\ pc[p] \in {"ensure", "lock"} /\ ~CanLock(conn[p]) /\ FailEarly(p)

Waits(p) == Reserve(p) \/ EnsureLock(p) \/ Lock(p) \/ LateLock(p)
Works(p) == EnsureUnlock(p) \/ ReadVersion(p) \/ ForceVersion(p) \/ MarkDirty(p)
              \/ RunScript(p) \/ MarkClean(p) \/ Unlock(p) \/ Close(p)

Next ==
  \/ \E p \in Procs, c \in Call : Begin(p, c)
  \/ \E p \in Procs : Waits(p) \/ Works(p) \/ FailEarly(p) \/ LockTimeout(p) \/ UnlockFails(p)
  \/ Crash

Spec == Init /\ [][Next]_vars

(* A call goes on while it can; sql.DB and the servers queue the callers   *)
(* that wait for a connection or for the lock.  MySQL keeps nobody waiting *)
(* for a lock that is not given back.                                      *)
Fairness == \A p \in Procs : WF_vars(Works(p)) /\ SF_vars(Waits(p)) /\ WF_vars(LockDenied(p))

FairSpec == Spec /\ Fairness
-----------------------------------------------------------------------------
(* Types of the ledger row, the schema and the callers. *)
TypeOK ==
  /\ dialect \in Dialects
  /\ ledger \in [version : Version, dirty : BOOLEAN]
  /\ schema \in [1 .. N -> {"no", "part", "yes"}]
  /\ lock \in [holder : Conns \cup {NoConn}, count : Nat]
  /\ conn \in [Procs -> Conns \cup {NoConn}]
  /\ call \in [Procs -> [kind : {"up", "down", "force"}, arg : Version \cup 0 .. N + 1]]
  /\ pc \in [Procs -> {"idle", "reserve", "ensure", "table", "lock", "late",
                       "close"} \cup Locked]
  /\ target \in [Procs -> [run : 1 .. N, version : Version]]
  /\ ok \in [Procs -> BOOLEAN]

(* Unless it says dirty, the ledger tells the truth about the schema, with *)
(* racing callers, failing statements and crashes between any two steps.   *)
CleanMeansApplied == ~ledger.dirty => schema = SchemaAt(ledger.version)

(* database.Driver: "Lock should acquire a database lock so that only one  *)
(* migration process can run at a time."                                   *)
OneMigrator ==
  \A p, q \in Procs : pc[p] \in Locked /\ pc[q] \in Locked => p = q

(* A MigrateUp that is about to return nil has brought the schema to the   *)
(* last version.                                                           *)
UpReached ==
  \A p \in Procs :
    pc[p] = "unlock" /\ ok[p] /\ call[p].kind = "up" =>
      schema = SchemaAt(N) /\ ledger = [version |-> N, dirty |-> FALSE]

(* A connection that went back to the pool carries nothing of the          *)
(* migration: its session does not hold the advisory lock.                 *)
ReleasedClean ==
  lock.holder # NoConn => \E p \in Procs : conn[p] = lock.holder

(* Every call ends, whoever else holds connections or the lock, also when  *)
(* a failed unlock has left it with a pooled session.  Not so for          *)
(* PostgreSQL, which waits for such a lock, or one granted late, for ever. *)
CallsReturn ==
  \A p \in Procs :
    (dialect # "postgres" /\ pc[p] # "idle") ~> pc[p] = "idle"
=============================================================================
