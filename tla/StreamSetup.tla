---------------------------- MODULE StreamSetup ----------------------------
(* mq/nats/natsmq.go, New and ensureStream: clients that start at the same  *)
(* time look for the streams they need and create the missing ones.  The    *)
(* NATS server is external: AddStream with the config a stream already has  *)
(* succeeds, with another config it fails.                                  *)
EXTENDS Integers, Sequences

CONSTANTS
  Starters,  \* clients being made
  Needs      \* what one may be given: sequences of [name, retention, maxAge]

(* They are sequences.                                                      *)
ASSUME NeedsAssumption ==
  \A n \in Needs : Len(n) \in Nat /\ DOMAIN n = 1..Len(n) /\ (n # <<>> => Len(n) > 0)

VARIABLES
  streams,  \* external: the server's streams, a function on their names
  needs,    \* the streams each client was given
  setup,    \* "connect", "info", "add", "ready" or why New failed
  next,     \* the stream each is at
  conn      \* its connection: "none", "open", "closed"

setupVars == <<streams, needs, setup, next, conn>>

SetupStart ==
  /\ streams = [n \in {} |-> 0] /\ next = [c \in Starters |-> 1] /\ conn = [c \in Starters |-> "none"]

SetupInit == SetupStart /\ needs \in [Starters -> Needs] /\ setup = [c \in Starters |-> "connect"]
SetupIdle == SetupStart /\ needs = [c \in Starters |-> <<>>] /\ setup = [c \in Starters |-> "error"]

(* Fault: an unknown policy is read as limits. *)
retentionToNATSOrLimits(r) == IF r = 1 THEN "workqueue" ELSE IF r = 0 THEN "interest" ELSE "limits"

(* Policies 0, 1 and 2; any other number is read as interest.               *)
retentionToNATS(r) == CASE r = 1 -> "workqueue" [] r = 2 -> "limits" [] OTHER -> "interest"

defaultMaxAge == 24

(* The config sent to NATS; the default age is filled in.                   *)
StreamConfig(s) ==
  [retention |-> retentionToNATS(s.retention), maxAge |-> IF s.maxAge = 0 THEN defaultMaxAge ELSE s.maxAge]

Stream(c) == needs[c][next[c]]

(* The next stream's turn, or the end of New.                               *)
StreamDone(c) ==
  IF next[c] < Len(needs[c])
  THEN setup' = [setup EXCEPT ![c] = "info"] /\ next' = [next EXCEPT ![c] = @ + 1]
  ELSE setup' = [setup EXCEPT ![c] = "ready"] /\ UNCHANGED next

(* nats.Connect and the JetStream context; the latter's failure closes.     *)
Connect(c) ==
  /\ setup[c] = "connect"
  /\ \/ conn' = [conn EXCEPT ![c] = "open"]
        /\ setup' = [setup EXCEPT ![c] = IF needs[c] = <<>> THEN "ready" ELSE "info"]
     \/ setup' = [setup EXCEPT ![c] = "error"] /\ conn' \in {conn, [conn EXCEPT ![c] = "closed"]}
  /\ UNCHANGED <<streams, needs, next>>

SetupFails(c, why) ==
  /\ setup' = [setup EXCEPT ![c] = why] /\ conn' = [conn EXCEPT ![c] = "closed"]
  /\ UNCHANGED <<streams, needs, next>>

StreamInfo(c) ==
  /\ setup[c] = "info"
  /\ \/ SetupFails(c, "error")
     \/ /\ IF Stream(c).name \in DOMAIN streams THEN StreamDone(c)
           ELSE setup' = [setup EXCEPT ![c] = "add"] /\ UNCHANGED next
        /\ UNCHANGED <<streams, needs, conn>>

InUse(c) == Stream(c).name \in DOMAIN streams /\ streams[Stream(c).name] # StreamConfig(Stream(c))

(* AddStream, which may also fail with the stream made or not.              *)
AddStream(c) ==
  LET n == Stream(c).name
      made == [m \in DOMAIN streams \cup {n} |-> IF m = n THEN StreamConfig(Stream(c)) ELSE streams[m]]
  IN /\ setup[c] = "add"
     /\ \/ SetupFails(c, IF InUse(c) THEN "in use" ELSE "error")
        \/ /\ ~InUse(c) /\ streams' = made /\ UNCHANGED needs
           /\ \/ StreamDone(c) /\ UNCHANGED conn
              \/ setup' = [setup EXCEPT ![c] = "error"] /\ conn' = [conn EXCEPT ![c] = "closed"] /\ UNCHANGED next

(* Close ends the connection; what it holds is not drained.                 *)
CloseClient(c) ==
  /\ setup[c] = "ready" /\ conn[c] = "open" /\ conn' = [conn EXCEPT ![c] = "closed"]
  /\ UNCHANGED <<streams, needs, setup, next>>

SetupStep(c) == Connect(c) \/ StreamInfo(c) \/ AddStream(c)

SetupNext == \E c \in Starters : SetupStep(c) \/ CloseClient(c)

SetupFairness == \A c \in Starters : WF_setupVars(SetupStep(c))

SetupSpec == SetupInit /\ [][SetupNext]_setupVars /\ SetupFairness
----------------------------------------------------------------------------
(* Types of the clients' state.                                             *)
SetupTypeOK ==
  /\ setup \in [Starters -> {"connect", "info", "add", "ready", "error", "in use"}]
  /\ conn \in [Starters -> {"none", "open", "closed"}]
  /\ \A c \in Starters : next[c] \in 1..Len(needs[c]) \cup {1}

(* New: a client that could not be made leaves no connection open.          *)
ConnReleased == \A c \in Starters : setup[c] \in {"error", "in use"} => conn[c] # "open"

(* New: a client has every stream it was given, whoever created it.         *)
StreamsReady ==
  \A c \in Starters : setup[c] = "ready" => \A i \in DOMAIN needs[c] : needs[c][i].name \in DOMAIN streams

(* What StreamConfig's documentation makes of a config left at its zeros.   *)
SameNeed(s, t) ==
  /\ s.name = t.name /\ (s.retention = t.retention \/ {s.retention, t.retention} \cap {1, 2} = {})
  /\ (s.maxAge = t.maxAge \/ {s.maxAge, t.maxAge} = {0, 24})

(* ensureStream looks before it creates, so two clients may both create: it *)
(* fails for that only if another was given the stream in another form.     *)
ClashNeedsDifference ==
  \A c \in Starters : setup[c] = "in use" =>
    \E d \in Starters : \E i \in DOMAIN needs[d] : needs[d][i].name = Stream(c).name /\ ~SameNeed(needs[d][i], Stream(c))

(* New has returned to every client.                                        *)
SetupOver == \A c \in Starters : setup[c] \in {"ready", "error", "in use"}
=============================================================================
