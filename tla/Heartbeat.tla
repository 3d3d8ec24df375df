----------------------------- MODULE Heartbeat -----------------------------
(* heartbeat/heartbeat.go: a service touches its file at every tick of a    *)
(* ticker, and others ask SeenWithin.  Time passes in steps; a goroutine    *)
(* that is ready runs within MaxDelay steps.  The process may crash and be  *)
(* started again; the file stays.                                           *)
EXTENDS Integers

CONSTANTS
  Interval,   \* one minute, in steps
  MaxDelay,   \* bound: how long a goroutine that is ready may wait
  MaxClock    \* bound: the time that is looked at

ASSUME BeatAssumption == {Interval, MaxDelay, MaxClock} \subseteq Nat /\ Interval > 0

VARIABLES
  clock,     \* now
  mtime,     \* when the file was last touched, -1 without a file
  beating,   \* Start has touched the file and goes on
  nextTick,  \* when the ticker fires next, -1 before it is made
  tick,      \* since when Start has been ready: the ticker's channel holds a
             \* tick, or the ticker is to be made; -1 if it waits
  missed,    \* the last touch failed
  endedAt    \* history: when Start last ended

beatVars == <<clock, mtime, beating, nextTick, tick, missed, endedAt>>

BeatInit ==
  /\ clock = 0 /\ mtime = -1 /\ beating = FALSE
  /\ nextTick = 0 /\ tick = -1 /\ missed = FALSE /\ endedAt = 0

BeatIdle ==
  /\ clock = MaxClock /\ mtime = -1 /\ beating = FALSE
  /\ nextTick = 0 /\ tick = -1 /\ missed = FALSE /\ endedAt = 0

(* os.Create fails, or sets the modification time.                          *)
touch == \/ mtime' = clock /\ missed' = FALSE
         \/ missed' = TRUE /\ UNCHANGED mtime

(* Fault: the first touch waits for the first tick. *)
StartWithoutTouch ==
  /\ ~beating /\ beating' = TRUE /\ nextTick' = -1 /\ tick' = clock
  /\ UNCHANGED <<clock, mtime, missed, endedAt>>

(* A Start that cannot make the directory returns and changes nothing.      *)
Start ==
  /\ ~beating /\ touch /\ beating' = TRUE /\ nextTick' = -1 /\ tick' = clock
  /\ UNCHANGED <<clock, endedAt>>

NewTicker ==
  /\ beating /\ nextTick = -1 /\ nextTick' = clock + Interval /\ tick' = -1
  /\ UNCHANGED <<clock, mtime, beating, missed, endedAt>>

TouchAtTick ==
  /\ beating /\ nextTick # -1 /\ tick >= 0 /\ touch /\ tick' = -1
  /\ UNCHANGED <<clock, beating, nextTick, endedAt>>

(* ctx.Done is taken, maybe after one more tick; or the process crashes.    *)
StartEnds ==
  /\ beating /\ beating' = FALSE /\ tick' = -1 /\ endedAt' = clock
  /\ UNCHANGED <<clock, mtime, nextTick, missed>>

(* The ticker's channel holds one tick; more are dropped.                   *)
Pass ==
  /\ clock < MaxClock /\ (beating /\ tick >= 0 => clock - tick < MaxDelay)
  /\ clock' = clock + 1
  /\ IF beating /\ clock + 1 = nextTick
     THEN nextTick' = nextTick + Interval /\ tick' = IF tick < 0 THEN clock + 1 ELSE tick
     ELSE UNCHANGED <<nextTick, tick>>
  /\ UNCHANGED <<mtime, beating, missed, endedAt>>

BeatNext == Start \/ NewTicker \/ TouchAtTick \/ StartEnds \/ Pass

BeatSpec == BeatInit /\ [][BeatNext]_beatVars

SeenWithin(d) == mtime >= 0 /\ clock - mtime <= d
----------------------------------------------------------------------------
(* Types of the heartbeat's state.                                          *)
BeatTypeOK ==
  /\ clock \in 0..MaxClock /\ mtime \in -1..clock /\ tick \in -1..clock /\ endedAt \in 0..clock
  /\ {beating, missed} \subseteq BOOLEAN

(* SeenWithin(d) is true of a service in Start whose last touch worked, for *)
(* every d of a minute and two scheduling delays or more: one before the    *)
(* ticker is made, one before its tick is taken.                            *)
AliveIsSeen == beating /\ ~missed => SeenWithin(Interval + 2 * MaxDelay)

(* SeenWithin(d) is false of a service that ended, or crashed, more than d  *)
(* ago, although its file is still there.                                   *)
DeadIsNoticed ==
  ~beating => \A d \in 0..MaxClock : clock - endedAt > d => ~SeenWithin(d)

(* What SeenWithin says of a service is right either way: a live one is     *)
(* seen, a dead one is noticed.                                             *)
SeenIsAlive == AliveIsSeen /\ DeadIsNoticed
=============================================================================
