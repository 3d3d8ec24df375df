----------------------------- MODULE DBConnect ------------------------------
(* db/postgresql/postgresql.go and db/mysql/mysql.go: services that open    *)
(* their connection pool with NewWithConfig, create the database first if   *)
(* asked to, and Close the pool.  The server and the pools of database/sql  *)
(* are seen through the calls the two packages make: a pool is opened and   *)
(* closed, a ping or a statement works, fails, or is not answered at all.   *)
EXTENDS Integers

CONSTANTS
  Services,
  MaxPings    \* bound: pings that fit into the 30 seconds of one connect

ASSUME PingsAssumption == MaxPings \in Nat \ {0}

VARIABLES
  dialect,    \* "postgres" or "mysql", the same for all services
  ensure,     \* ensureDBExists, per service
  exists,     \* the database is there
  creator,    \* who made it: a service, or somebody else before
  stage,      \* where each NewWithConfig stands
  cancelled,  \* the context the service passed to NewWithConfig has ended
  pings,      \* failed pings of the connect under way
  open,       \* pools opened by the service and not closed
  failures,   \* failed pings and failed gorm.Open of the service so far
  cause       \* why NewWithConfig failed, "none" otherwise

dbVars == <<dialect, ensure, exists, creator, stage, cancelled, pings, open, failures, cause>>

(* "server" connects to the server's own database, "connect" to the one of  *)
(* the service; "check" and "create" are inside ensureDatabaseExists.       *)
Stages == {"start", "server", "check", "create", "connect", "gorm", "ready", "closed", "failed"}

Causes == {"none", "config", "ping", "statement", "duplicate", "gorm"}

Else == "somebody"

DBInit ==
  /\ dialect \in {"postgres", "mysql"} /\ ensure \in [Services -> BOOLEAN]
  /\ exists \in BOOLEAN /\ creator = Else
  /\ stage = [s \in Services |-> "start"] /\ cause = [s \in Services |-> "none"]
  /\ pings = [s \in Services |-> 0] /\ open = [s \in Services |-> 0]
  /\ failures = [s \in Services |-> 0] /\ cancelled = [s \in Services |-> FALSE]

DBIdle ==
  /\ dialect = "mysql" /\ exists = TRUE /\ creator = Else
  /\ ensure = [s \in Services |-> FALSE]
  /\ stage = [s \in Services |-> "closed"] /\ cause = [s \in Services |-> "none"]
  /\ pings = [s \in Services |-> 0] /\ open = [s \in Services |-> 0]
  /\ failures = [s \in Services |-> 0] /\ cancelled = [s \in Services |-> FALSE]

Go(s, to) == stage' = [stage EXCEPT ![s] = to] /\ UNCHANGED cause

Fail(s, why) == stage' = [stage EXCEPT ![s] = "failed"] /\ cause' = [cause EXCEPT ![s] = why]

Pools(s, change) == open' = [open EXCEPT ![s] = @ + change]

Opens == IF dialect = "mysql" THEN 1 ELSE 0   \* a connect of MySQL opens its one pool at once

Failed(s) == failures' = [failures EXCEPT ![s] = @ + 1]

validate(s) ==
  /\ stage[s] = "start" /\ Fail(s, "config")
  /\ UNCHANGED <<dialect, ensure, cancelled, exists, creator, pings, open, failures>>

Begin(s) ==
  /\ stage[s] = "start"
  /\ Go(s, IF ensure[s] THEN "server" ELSE "connect")
  /\ Pools(s, Opens) /\ UNCHANGED <<dialect, ensure, cancelled, exists, creator, pings, failures>>

Connecting(s) == stage[s] \in {"server", "connect"}

(* An attempt on PostgreSQL opens a pool of its own (sql.Open only makes    *)
(* the pool, with pgx it cannot fail), which stays open when its ping       *)
(* fails; MySQL pings the one pool again.                                   *)
PingFails(s) ==
  /\ Connecting(s) /\ pings[s] < MaxPings
  /\ pings' = [pings EXCEPT ![s] = @ + 1]
  /\ Failed(s) /\ Pools(s, 1 - Opens)
  /\ UNCHANGED <<dialect, ensure, cancelled, exists, creator, stage, cause>>

PingWorks(s) ==
  /\ Connecting(s) /\ pings[s] < MaxPings /\ ~cancelled[s] /\ (stage[s] = "connect" => exists)
  /\ Go(s, IF stage[s] = "connect" THEN "gorm" ELSE IF dialect = "mysql" THEN "create" ELSE "check")
  /\ pings' = [pings EXCEPT ![s] = 0]
  /\ Pools(s, 1 - Opens) /\ UNCHANGED <<dialect, ensure, cancelled, exists, creator, failures>>

(* Fault: the pool is not closed. *)
GiveUpLeavingPool(s) ==
  /\ Connecting(s) /\ pings[s] > 0 /\ Fail(s, "ping")
  /\ UNCHANGED <<dialect, ensure, cancelled, exists, creator, pings, open, failures>>

(* The time is up or the context ends.                                      *)
GiveUp(s) ==
  /\ Connecting(s) /\ pings[s] > 0 /\ Fail(s, "ping")
  /\ Pools(s, -Opens) /\ UNCHANGED <<dialect, ensure, cancelled, exists, creator, pings, failures>>

(* The end of ensureDatabaseExists: its pool is closed, and NewWithConfig   *)
(* fails or opens the next one.                                             *)
EnsureDone(s) == Go(s, "connect") /\ Pools(s, Opens - 1)

EnsureFails(s, why) == Fail(s, why) /\ Pools(s, -1)

(* Fault: the answer is not looked at. *)
databaseExistsUnasked(s) ==
  /\ stage[s] = "check"
  /\ Go(s, "create") /\ UNCHANGED open
  /\ UNCHANGED <<dialect, ensure, cancelled, exists, creator, pings, failures>>

databaseExists(s) ==
  /\ stage[s] = "check"
  /\ \/ ~cancelled[s] /\ exists /\ EnsureDone(s)
     \/ ~cancelled[s] /\ ~exists /\ Go(s, "create") /\ UNCHANGED open
     \/ EnsureFails(s, "statement")
  /\ UNCHANGED <<dialect, ensure, cancelled, exists, creator, pings, failures>>

Created(s) == exists' = TRUE /\ creator' = (IF exists THEN creator ELSE s)

(* CREATE DATABASE of PostgreSQL fails if the database is there, that of    *)
(* MySQL says IF NOT EXISTS.  The call also fails when the statement has    *)
(* done its work but the answer is lost, or Close of MySQL's pool fails.    *)
createDatabase(s) ==
  /\ stage[s] = "create"
  /\ LET free == dialect = "postgres" => ~exists IN
     \/ ~cancelled[s] /\ free /\ Created(s) /\ EnsureDone(s)
     \/ ~cancelled[s] /\ ~free /\ EnsureFails(s, "duplicate") /\ UNCHANGED <<exists, creator>>
     \/ free /\ Created(s) /\ EnsureFails(s, "statement")
     \/ EnsureFails(s, "statement") /\ UNCHANGED <<exists, creator>>
  /\ UNCHANGED <<dialect, ensure, cancelled, pings, failures>>

(* gorm.Open; MySQL closes the pool when it fails, PostgreSQL does not.     *)
gormOpen(s) ==
  /\ stage[s] = "gorm"
  /\ \/ Go(s, "ready") /\ UNCHANGED <<open, failures>>
     \/ Fail(s, "gorm") /\ Pools(s, -Opens) /\ Failed(s)
  /\ UNCHANGED <<dialect, ensure, cancelled, exists, creator, pings>>

Close(s) ==
  /\ stage[s] = "ready" /\ Go(s, "closed") /\ Pools(s, -1)
  /\ UNCHANGED <<dialect, ensure, cancelled, exists, creator, pings, failures>>

NewStep(s) ==
  \/ validate(s) \/ Begin(s) \/ PingFails(s) \/ PingWorks(s) \/ GiveUp(s)
  \/ databaseExists(s) \/ createDatabase(s) \/ gormOpen(s)

(* The context ends; only pings and statements look at it.                  *)
Cancel(s) ==
  /\ stage[s] \in {"server", "check", "create", "connect"} /\ ~cancelled[s]
  /\ cancelled' = [cancelled EXCEPT ![s] = TRUE]
  /\ UNCHANGED <<dialect, ensure, exists, creator, stage, pings, open, failures, cause>>

DBNext == \E s \in Services : NewStep(s) \/ Close(s) \/ Cancel(s)

(* A call waits for an answer with no limit of its own: gorm.Open pings on  *)
(* context.Background, a statement and PostgreSQL's ping have only the      *)
(* caller's context.  A ping of MySQL has connectionRetryTimeout.           *)
Unlimited(s) ==
  \/ stage[s] = "gorm"
  \/ ~cancelled[s] /\ stage[s] \in {"check", "create"}
  \/ ~cancelled[s] /\ dialect = "postgres" /\ Connecting(s) /\ pings[s] < MaxPings

(* A call that has begun runs on, but nothing makes a server answer; Close  *)
(* and the end of the context are up to the application.                    *)
DBFairness == \A s \in Services : WF_dbVars(~Unlimited(s) /\ NewStep(s))

DBSpec == DBInit /\ [][DBNext]_dbVars /\ DBFairness
----------------------------------------------------------------------------
(* Types of the services' calls and of what they share.                     *)
DBTypeOK ==
  /\ dialect \in {"postgres", "mysql"} /\ ensure \in [Services -> BOOLEAN]
  /\ exists \in BOOLEAN /\ creator \in Services \cup {Else} /\ cancelled \in [Services -> BOOLEAN]
  /\ stage \in [Services -> Stages] /\ cause \in [Services -> Causes]
  /\ pings \in [Services -> 0..MaxPings] /\ open \in [Services -> Int]
  /\ failures \in [Services -> Nat]

(* The pools that belong to the stage of a call or to its result.           *)
Held(s) == IF stage[s] \in {"check", "create", "gorm", "ready"} THEN 1
           ELSE IF Connecting(s) THEN Opens ELSE 0

(* NewWithConfig and Close of MySQL: at every point exactly the pool in use *)
(* is open, and none after Close or a failed New.  PostgreSQL also keeps    *)
(* one pool open for each ping and each gorm.Open that has failed.          *)
PoolsReleased ==
  \A s \in Services :
    open[s] = Held(s) + (IF dialect = "mysql" THEN 0 ELSE failures[s])

(* ensureDatabaseExists of two services at once: the call that comes second *)
(* fails for it on PostgreSQL only, and only if another service created the *)
(* database after this one had found it missing.                            *)
EnsureRace ==
  \A s \in Services : cause[s] = "duplicate" =>
    dialect = "postgres" /\ ensure[s] /\ exists /\ creator \in Services \ {s}

(* NewWithConfig has returned to every service, or waits for an answer with *)
(* no limit of its own.                                                     *)
NewOver == \A s \in Services : stage[s] \in {"ready", "closed", "failed"} \/ Unlimited(s)
=============================================================================
