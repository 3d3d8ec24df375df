-------------------------- MODULE MessagingProofs ---------------------------
(* Proofs for every value of the constants about messages: delivery by NATS *)
(* JetStream (NatsMQ), the connection and its streams (StreamSetup), and the*)
(* text of a response that is sent in events (TextStreamer).                *)
EXTENDS NatsMQ, StreamSetup, TextStreamer, Recursion
-----------------------------------------------------------------------------
(* NatsMQ and StreamSetup.                                                  *)


(* A call's consumer is one of the consumers there are.                     *)
LEMMA ConsumerType == \A s \in Calls : ConsumerOf(s) \in Consumers
BY Zenon DEF ConsumerOf, Consumers

(* The stream only ever drops messages, and none that a consumer needs.     *)
LEMMA KeptFacts ==
  ASSUME NEW S, NEW C, NEW A
  PROVE  /\ Kept(S, C, A) \subseteq S
         /\ \A m \in S, c \in C : m \notin A[c] => m \in Kept(S, C, A)
BY Zenon DEF Kept

(* The first state has the types.                                           *)
LEMMA TypeInit == Init => TypeOK
BY ZenonT(30) DEF Init, TypeOK

(* Every step of a call, of the server and of a publisher keeps them.       *)
LEMMA TypeNext == TypeOK /\ [Next]_vars => TypeOK'
<1>. SUFFICES ASSUME TypeOK, [Next]_vars PROVE TypeOK'
  BY Zenon
<1>. USE DEF TypeOK
<1>1. ASSUME NEW m \in Msgs, Publish(m) PROVE TypeOK'
  <2>1. stored' \subseteq sent'
    BY <1>1, KeptFacts, Zenon DEF Publish
  <2>. QED  BY <1>1, <2>1, Zenon DEF Publish
<1>2. ASSUME NEW s \in Calls, Subscribe(s) PROVE TypeOK'
  BY <1>2, ConsumerType, Zenon DEF Subscribe
<1>3. ASSUME NEW m \in Msgs, NEW s \in Calls, Push(m, s) PROVE TypeOK'
  BY <1>3, ConsumerType, Zenon DEF Push
<1>4. ASSUME NEW m \in Msgs, NEW c \in Consumers, AckWait(m, c) PROVE TypeOK'
  BY <1>4, Zenon DEF AckWait
<1>5. ASSUME NEW m \in Msgs, NEW s \in Calls, NextMsg(s, m) PROVE TypeOK'
  BY <1>5, Zenon DEF NextMsg
<1>6. ASSUME NEW s \in Calls, HandlerFails(s) PROVE TypeOK'
  BY <1>6, Zenon DEF HandlerFails
<1>7. ASSUME NEW s \in Calls, HandlerSucceeds(s) PROVE TypeOK'
  <2>1. stored' \subseteq stored
    BY <1>7, KeptFacts DEF HandlerSucceeds
  <2>2. work[s] \in Msgs /\ ConsumerOf(s) \in Consumers
    BY <1>7, ConsumerType, Zenon DEF HandlerSucceeds
  <2>. QED  BY <1>7, <2>1, <2>2 DEF HandlerSucceeds
<1>8. ASSUME NEW s \in Calls, Cancel(s) PROVE TypeOK'
  <2>1. stored' \subseteq stored
    BY <1>8, KeptFacts DEF Cancel, DeleteConsumer
  <2>. QED  BY <1>8, <2>1, ConsumerType, Zenon DEF Cancel, DeleteConsumer
<1>9. ASSUME NEW s \in Calls, Close(s) PROVE TypeOK'
  BY <1>9, Zenon DEF Close
<1>10. ASSUME NEW s \in Calls, Inactive(s) PROVE TypeOK'
  <2>1. stored' \subseteq stored
    BY <1>10, KeptFacts, Zenon DEF Inactive, DeleteConsumer
  <2>. QED  BY <1>10, <2>1, Zenon DEF Inactive, DeleteConsumer, Consumers
<1>11. CASE UNCHANGED vars
  BY <1>11, Zenon DEF vars
<1>. QED
  BY <1>1, <1>2, <1>3, <1>4, <1>5, <1>6, <1>7, <1>8, <1>9, <1>10, <1>11, Zenon DEF Next

(* mq/nats/natsmq.go: stream, consumers and subscriptions keep their types, *)
(* and a subscription that has ended holds no messages, however calls are   *)
(* made, cancelled, closed and redelivered to.                              *)
THEOREM TypeCorrect == Spec => []TypeOK
BY TypeInit, TypeNext, PTL DEF Spec
-----------------------------------------------------------------------------
(* What the server has counted as acknowledged was handled.                 *)
AckedIsHandled == \A c \in Consumers : acked[c] \subseteq handled[c]

(* consumeLoop acknowledges a message only after its handler returned nil:  *)
(* the server never counts a message as done that no handler of this        *)
(* consumer has processed.                                                  *)
THEOREM AckedIsHandledHolds == Spec => []AckedIsHandled
<1>1. Init => AckedIsHandled
  BY Zenon DEF Init, AckedIsHandled
<1>2. TypeOK /\ AckedIsHandled /\ [Next]_vars => AckedIsHandled'
  <2>. SUFFICES ASSUME TypeOK, AckedIsHandled, [Next]_vars PROVE AckedIsHandled'
    BY Zenon
  <2>1. ASSUME NEW s \in Calls, HandlerSucceeds(s) PROVE AckedIsHandled'
    BY <2>1, ConsumerType DEF HandlerSucceeds, TypeOK, AckedIsHandled
  <2>2. ASSUME NEW s \in Calls, Cancel(s) \/ Inactive(s) PROVE AckedIsHandled'
    BY <2>2, ZenonT(30) DEF Cancel, Inactive, DeleteConsumer, TypeOK, AckedIsHandled
  <2>3. CASE UNCHANGED <<acked, handled>>
    BY <2>3, Zenon DEF AckedIsHandled
  <2>. QED
    BY <2>1, <2>2, <2>3, Zenon
    DEF Next, vars, Publish, Subscribe, Push, AckWait, NextMsg, HandlerFails, Close
<1>. QED  BY <1>1, <1>2, TypeCorrect, PTL DEF Spec

(* Whoever publishes, acknowledges or leaves, a consumer that stays keeps   *)
(* what it has not acknowledged.                                            *)
LEMMA StepKeeps ==
  ASSUME TypeOK, [Next]_vars, NEW m \in Msgs, NEW c \in consumers \cap consumers',
         m \in stored \ acked[c]
  PROVE  m \in stored' \ acked'[c] \/ m \in handled'[c]
<1>. USE DEF TypeOK
<1>1. ASSUME NEW n \in Msgs, Publish(n) PROVE m \in stored' \ acked'[c]
  BY <1>1, KeptFacts, Zenon DEF Publish
<1>2. ASSUME NEW s \in Calls, HandlerSucceeds(s)
      PROVE  m \in stored' \ acked'[c] \/ m \in handled'[c]
  <2>1. CASE UNCHANGED <<acked, pending, stored>>
    BY <2>1, Zenon
  <2>2. CASE /\ acked' = [acked EXCEPT ![ConsumerOf(s)] = @ \cup {work[s]}]
             /\ stored' = Kept(stored, consumers, acked')
    <3>1. CASE m \in acked'[c]
      <4>1. m = work[s] /\ c = ConsumerOf(s)
        BY <2>2, <3>1, Zenon
      <4>2. handled' = [handled EXCEPT ![ConsumerOf(s)] = @ \cup {work[s]}]
        BY <1>2, Zenon DEF HandlerSucceeds
      <4>. QED  BY <4>1, <4>2, Zenon
    <3>2. CASE m \notin acked'[c]
      <4>1. m \in Kept(stored, consumers, acked')
        BY <3>2, Zenon DEF Kept
      <4>. QED  BY <2>2, <3>2, <4>1, Zenon
    <3>. QED  BY <3>1, <3>2, Zenon
  <2>. QED  BY <1>2, <2>1, <2>2, Zenon DEF HandlerSucceeds
<1>3. ASSUME NEW d \in Consumers, DeleteConsumer(d) PROVE m \in stored' \ acked'[c]
  <2>1. c # d /\ acked'[c] = acked[c]
    BY <1>3, Zenon DEF DeleteConsumer
  <2>2. stored' = Kept(stored, consumers', acked)
    BY <1>3, Zenon DEF DeleteConsumer
  <2>. QED  BY <2>1, <2>2, KeptFacts, Zenon
<1>4. ASSUME NEW s \in Calls, Cancel(s) PROVE m \in stored' \ acked'[c]
  BY <1>3, <1>4, ConsumerType, Zenon DEF Cancel
<1>5. ASSUME NEW s \in Calls, Inactive(s) PROVE m \in stored' \ acked'[c]
  BY <1>3, <1>5, Zenon DEF Inactive, Consumers
<1>6. CASE UNCHANGED <<stored, acked>>
  BY <1>6, Zenon
<1>. QED
  BY <1>1, <1>2, <1>4, <1>5, <1>6, Zenon
  DEF Next, vars, Subscribe, Push, AckWait, NextMsg, HandlerFails, Close

(* mq.Handler, "Return nil to ack, error to skip ack (redelivery)": for any *)
(* number of calls, messages and consumers and for both retention policies, *)
(* a consumer that lives on loses a stored message only after one of its    *)
(* handlers has returned nil for it.                                        *)
THEOREM KeptUntilHandledHolds == Spec => KeptUntilHandled
<1>1. TypeOK /\ [Next]_vars =>
        [\A m \in Msgs, c \in consumers \cap consumers' :
           m \in stored \ acked[c] => m \in stored' \ acked'[c] \/ m \in handled'[c]]_vars
  BY StepKeeps, Zenon
<1>. QED  BY <1>1, TypeCorrect, PTL DEF Spec, KeptUntilHandled
-----------------------------------------------------------------------------
(* The clients' types; each is at one of its streams while it has streams   *)
(* to look for.                                                             *)
ClientTypes ==
  /\ needs \in [Starters -> Needs]
  /\ setup \in [Starters -> {"connect", "info", "add", "ready", "error", "in use"}]
  /\ conn \in [Starters -> {"none", "open", "closed"}]
  /\ next \in [Starters -> Nat \ {0}]

(* Where ensureStream stands among the streams its client needs.            *)
AtStream ==
  \A c \in Starters :
    /\ setup[c] \in {"info", "add"} => next[c] \in DOMAIN needs[c]
    /\ next[c] \in 1..Len(needs[c]) \cup {1}
    /\ setup[c] = "connect" => next[c] = 1

(* A client connects once.                                                  *)
ConnInv == \A c \in Starters : setup[c] = "connect" => conn[c] = "none"

(* The streams before the one a client is at are there.                     *)
Passed ==
  \A c \in Starters : setup[c] \in {"info", "add"} =>
    \A i \in DOMAIN needs[c] : i < next[c] => needs[c][i].name \in DOMAIN streams

(* Every stream of the server has the config some client was given.         *)
MadeByNeed ==
  \A n \in DOMAIN streams : \E d \in Starters : \E i \in DOMAIN needs[d] :
    needs[d][i].name = n /\ streams[n] = StreamConfig(needs[d][i])

(* The inductive invariant of New and ensureStream.                         *)
SetupInv ==
  /\ ClientTypes /\ AtStream /\ ConnInv /\ ConnReleased
  /\ Passed /\ StreamsReady /\ MadeByNeed /\ ClashNeedsDifference

(* Needs that the documentation calls the same are the same to NATS.        *)
LEMMA SameNeedSameConfig ==
  ASSUME NEW s, NEW t, SameNeed(s, t)
  PROVE  StreamConfig(s) = StreamConfig(t)
<1>1. retentionToNATS(s.retention) = retentionToNATS(t.retention)
  BY Zenon DEF SameNeed, retentionToNATS
<1>2. (IF s.maxAge = 0 THEN defaultMaxAge ELSE s.maxAge) = (IF t.maxAge = 0 THEN defaultMaxAge ELSE t.maxAge)
  BY Zenon DEF SameNeed, defaultMaxAge
<1>. QED  BY <1>1, <1>2, Zenon DEF StreamConfig

(* The first state satisfies the invariant.                                 *)
LEMMA SetupInvInit == SetupInit => SetupInv
BY DEF SetupInit, SetupStart, SetupInv, ClientTypes, AtStream, ConnInv, ConnReleased, Passed, StreamsReady,
  MadeByNeed, ClashNeedsDifference

(* A step changes no need and takes no stream away.                         *)
LEMMA StreamsGrow ==
  ASSUME [SetupNext]_setupVars
  PROVE  needs' = needs /\ \A n \in DOMAIN streams : n \in DOMAIN streams' /\ streams'[n] = streams[n]
<1>1. ASSUME NEW c \in Starters, AddStream(c)
      PROVE  needs' = needs /\ \A n \in DOMAIN streams : n \in DOMAIN streams' /\ streams'[n] = streams[n]
  <2>1. CASE UNCHANGED <<streams, needs>>
    BY <2>1, Zenon
  <2>2. CASE /\ ~InUse(c) /\ UNCHANGED needs
             /\ streams' = [m \in DOMAIN streams \cup {Stream(c).name} |->
                             IF m = Stream(c).name THEN StreamConfig(Stream(c)) ELSE streams[m]]
    BY <2>2, Zenon DEF InUse
  <2>. QED  BY <1>1, <2>1, <2>2, Zenon DEF AddStream, SetupFails
<1>2. CASE UNCHANGED <<streams, needs>>
  BY <1>2, Zenon
<1>. QED
  BY <1>1, <1>2, Zenon DEF SetupNext, SetupStep, Connect, StreamInfo, SetupFails, CloseClient, setupVars

(* The numbering of the streams a client was given.                         *)
LEMMA Numbering ==
  ASSUME NEW n \in Needs
  PROVE  /\ Len(n) \in Nat /\ DOMAIN n = 1..Len(n) /\ (n # <<>> => 1 \in DOMAIN n)
         /\ \A k \in Nat \ {0} : k < Len(n) => k + 1 \in DOMAIN n
         /\ \A k \in Nat \ {0} : k + 1 \in Nat \ {0}
<1>. DEFINE len == Len(n)
<1>1. len \in Nat /\ DOMAIN n = 1..len /\ (n # <<>> => len > 0)
  BY NeedsAssumption, Zenon
<1>. HIDE DEF len
<1>2. n # <<>> => 1 \in DOMAIN n
  BY <1>1
<1>3. \A k \in Nat \ {0} : k < len => k + 1 \in DOMAIN n
  BY <1>1
<1>. QED  BY <1>1, <1>2, <1>3 DEF len

(* What any step of client c does: the others stay where they are, c moves  *)
(* on by at most one stream, and closes its connection when it fails.       *)
Moves(c) ==
  /\ ClientTypes'
  /\ \A d \in Starters \ {c} : setup'[d] = setup[d] /\ conn'[d] = conn[d] /\ next'[d] = next[d]
  /\ next'[c] = next[c] \/ (next'[c] = next[c] + 1 /\ next[c] < Len(needs[c]))
  /\ setup'[c] \in {"info", "add"} => next'[c] \in DOMAIN needs[c]
  /\ setup'[c] # "connect"
  /\ setup'[c] \in {"error", "in use"} => conn'[c] # "open"

(* Every step is such a move.                                               *)
LEMMA StepMoves ==
  ASSUME ClientTypes, AtStream, ConnInv, ConnReleased, NEW c \in Starters, SetupStep(c) \/ CloseClient(c)
  PROVE  Moves(c)
<1>. USE DEF ClientTypes, Moves
<1>0. /\ needs[c] \in Needs /\ next[c] \in Nat \ {0}
      /\ setup[c] \in {"info", "add"} => next[c] \in DOMAIN needs[c]
      /\ next[c] \in 1..Len(needs[c]) \cup {1}
  BY Zenon DEF AtStream
<1>a. /\ needs[c] # <<>> => 1 \in DOMAIN needs[c]
      /\ next[c] < Len(needs[c]) => next[c] + 1 \in DOMAIN needs[c]
      /\ next[c] + 1 \in Nat \ {0} /\ next[c] \in DOMAIN needs[c] \cup {1}
  BY <1>0, Numbering, Zenon
<1>1. CASE Connect(c)
  <2>1. setup[c] = "connect" /\ conn[c] = "none" /\ needs' = needs /\ next' = next
    BY <1>1, Zenon DEF Connect, ConnInv
  <2>2. CASE /\ conn' = [conn EXCEPT ![c] = "open"]
             /\ setup' = [setup EXCEPT ![c] = IF needs[c] = <<>> THEN "ready" ELSE "info"]
    <3>1. needs[c] # <<>> => next[c] \in DOMAIN needs[c]
      BY <1>0, <1>a, Zenon
    <3>. QED  BY <2>1, <2>2, <3>1, Zenon
  <2>3. CASE setup' = [setup EXCEPT ![c] = "error"] /\ conn' \in {conn, [conn EXCEPT ![c] = "closed"]}
    BY <2>1, <2>3, Zenon
  <2>. QED  BY <1>1, <2>2, <2>3, Zenon DEF Connect
<1>2. CASE SetupFails(c, "error") \/ SetupFails(c, "in use")
  BY <1>2, Zenon DEF SetupFails
<1>3. CASE /\ setup[c] \in {"info", "add"} /\ needs' = needs /\ conn' = conn
           /\ StreamDone(c) \/ (setup' = [setup EXCEPT ![c] = "add"] /\ UNCHANGED next)
  <2>1. CASE next[c] < Len(needs[c]) /\ setup' = [setup EXCEPT ![c] = "info"] /\ next' = [next EXCEPT ![c] = @ + 1]
    <3>1. next[c] + 1 \in DOMAIN needs[c]
      BY <1>a, <2>1, Zenon
    <3>. QED  BY <1>3, <1>a, <2>1, <3>1, Zenon
  <2>2. CASE setup' = [setup EXCEPT ![c] = "ready"] /\ UNCHANGED next
    BY <1>3, <2>2, Zenon
  <2>3. CASE setup' = [setup EXCEPT ![c] = "add"] /\ UNCHANGED next
    BY <1>0, <1>3, <2>3, Zenon
  <2>. QED  BY <1>3, <2>1, <2>2, <2>3, Zenon DEF StreamDone
<1>4. CASE /\ setup' = [setup EXCEPT ![c] = "error"] /\ conn' = [conn EXCEPT ![c] = "closed"]
           /\ UNCHANGED <<next, needs>>
  BY <1>4, Zenon
<1>5. CASE CloseClient(c)
  BY <1>5, Zenon DEF CloseClient
<1>. QED
  BY <1>1, <1>2, <1>3, <1>4, <1>5, Zenon DEF SetupStep, StreamInfo, AddStream

(* So where the clients stand, and their connections, stay in order.        *)
LEMMA MovesKeep ==
  ASSUME ClientTypes, AtStream, ConnInv, ConnReleased, NEW c \in Starters, Moves(c), needs' = needs
  PROVE  (AtStream /\ ConnInv /\ ConnReleased)'
<1>1. \A d \in Starters : needs[d] \in Needs /\ next[d] \in Nat \ {0}
  BY Zenon DEF ClientTypes
<1>2. AtStream'
  <2>1. ASSUME NEW d \in Starters, d # c PROVE next'[d] = next[d] /\ setup'[d] = setup[d]
    BY <2>1, Zenon DEF Moves
  <2>2. next'[c] \in 1..Len(needs[c]) \cup {1}
    <3>1. CASE next'[c] = next[c]
      BY <3>1, Zenon DEF AtStream
    <3>2. CASE next'[c] = next[c] + 1 /\ next[c] < Len(needs[c])
      BY <1>1, <3>2, Numbering, Zenon
    <3>. QED  BY <3>1, <3>2, Zenon DEF Moves
  <2>. QED  BY <2>1, <2>2, Zenon DEF AtStream, Moves
<1>3. (ConnInv /\ ConnReleased)'
  BY Zenon DEF ConnInv, ConnReleased, Moves
<1>. QED  BY <1>2, <1>3, Zenon
(* A client passes a stream that is there, and is ready when it has passed  *)
(* the last one.                                                            *)
LEMMA PassedNext ==
  ASSUME ClientTypes, AtStream, Passed, StreamsReady, NEW c \in Starters, SetupStep(c) \/ CloseClient(c),
         needs' = needs, \A n \in DOMAIN streams : n \in DOMAIN streams', Moves(c)
  PROVE  (Passed /\ StreamsReady)'
<1>. DEFINE Have(i) == needs[c][i].name \in DOMAIN streams'
<1>1. /\ needs[c] \in Needs /\ next[c] \in Nat \ {0} /\ Len(needs[c]) \in Nat
      /\ DOMAIN needs[c] = 1..Len(needs[c])
  BY Numbering, Zenon DEF ClientTypes
<1>2. SUFFICES /\ setup'[c] \in {"info", "add"} => \A i \in DOMAIN needs[c] : i < next'[c] => Have(i)
               /\ setup'[c] = "ready" => \A i \in DOMAIN needs[c] : Have(i)
  <2>1. ASSUME NEW d \in Starters, d # c PROVE next'[d] = next[d] /\ setup'[d] = setup[d]
    BY <2>1, Zenon DEF Moves
  <2>. QED  BY <1>2, <2>1, ZenonT(30) DEF Passed, StreamsReady
<1>a. \A i \in DOMAIN needs[c] : i \in Nat /\ i >= 1 /\ i <= Len(needs[c])
  BY <1>1
<1>3. CASE Connect(c)
  <2>1. next'[c] = 1
    BY <1>3, Zenon DEF Connect, AtStream
  <2>2. \A i \in DOMAIN needs[c] : ~(i < next'[c])
    BY <1>a, <2>1
  <2>3. setup'[c] = "ready" => needs[c] = <<>>
    BY <1>3, Zenon DEF Connect, ClientTypes
  <2>4. needs[c] = <<>> => DOMAIN needs[c] = {}
    BY <1>1
  <2>. QED  BY <2>2, <2>3, <2>4, Zenon
<1>4. CASE StreamDone(c) /\ Stream(c).name \in DOMAIN streams' /\ setup[c] \in {"info", "add"}
  <2>1. Have(next[c]) /\ \A i \in DOMAIN needs[c] : i < next[c] => Have(i)
    BY <1>4, Zenon DEF Stream, Passed
  <2>. HIDE DEF Have
  <2>2. CASE next[c] < Len(needs[c])
    <3>1. setup'[c] = "info" /\ next'[c] = next[c] + 1
      BY <1>4, <2>2, Zenon DEF StreamDone, ClientTypes
    <3>2. \A i \in DOMAIN needs[c] : i < next[c] + 1 => i < next[c] \/ i = next[c]
      BY <1>1, <1>a
    <3>. QED  BY <2>1, <3>1, <3>2, Zenon
  <2>3. CASE ~(next[c] < Len(needs[c]))
    <3>1. setup'[c] = "ready"
      BY <1>4, <2>3, Zenon DEF StreamDone, ClientTypes
    <3>2. \A i \in DOMAIN needs[c] : i < next[c] \/ i = next[c]
      BY <1>1, <1>a, <2>3
    <3>. QED  BY <2>1, <3>1, <3>2, Zenon
  <2>. QED  BY <2>2, <2>3, Zenon
<1>5. CASE setup[c] = "info" /\ setup' = [setup EXCEPT ![c] = "add"] /\ next' = next
  BY <1>5, Zenon DEF Passed, ClientTypes
<1>6. CASE setup'[c] \in {"error", "in use"}
  BY <1>6, Zenon
<1>7. CASE CloseClient(c)
  BY <1>7, Zenon DEF CloseClient, StreamsReady
<1>. QED
  BY <1>3, <1>4, <1>5, <1>6, <1>7, Zenon DEF SetupStep, StreamInfo, AddStream, SetupFails, ClientTypes
(* A stream that a step adds has the config of the stream its client is at. *)
LEMMA MadeNext ==
  ASSUME AtStream, MadeByNeed, NEW c \in Starters, SetupStep(c) \/ CloseClient(c), needs' = needs,
         \A n \in DOMAIN streams : n \in DOMAIN streams' /\ streams'[n] = streams[n]
  PROVE  MadeByNeed'
<1>1. CASE streams' = streams
  BY <1>1 DEF MadeByNeed
<1>2. CASE /\ setup[c] = "add"
           /\ streams' = [m \in DOMAIN streams \cup {Stream(c).name} |->
                           IF m = Stream(c).name THEN StreamConfig(Stream(c)) ELSE streams[m]]
  <2>. SUFFICES ASSUME NEW n \in DOMAIN streams'
                PROVE  \E d \in Starters : \E i \in DOMAIN needs[d] :
                         needs[d][i].name = n /\ streams'[n] = StreamConfig(needs[d][i])
    BY DEF MadeByNeed
  <2>1. CASE n = Stream(c).name
    <3>1. next[c] \in DOMAIN needs[c] /\ streams'[n] = StreamConfig(needs[c][next[c]]) /\ needs[c][next[c]].name = n
      BY <1>2, <2>1, Zenon DEF AtStream, Stream
    <3>. QED  BY <3>1, Zenon
  <2>2. CASE n # Stream(c).name
    <3>1. n \in DOMAIN streams /\ streams'[n] = streams[n]
      BY <1>2, <2>2, Zenon
    <3>. QED  BY <3>1 DEF MadeByNeed
  <2>. QED  BY <2>1, <2>2, Zenon
<1>. QED
  BY <1>1, <1>2, Zenon DEF SetupStep, Connect, StreamInfo, AddStream, SetupFails, CloseClient

(* A clash at AddStream is with the config of somebody's different need.    *)
LEMMA ClashNext ==
  ASSUME ClientTypes, MadeByNeed, ClashNeedsDifference, NEW c \in Starters, SetupStep(c) \/ CloseClient(c),
         needs' = needs, Moves(c)
  PROVE  ClashNeedsDifference'
<1>. DEFINE Clash(s) == \E d \in Starters : \E i \in DOMAIN needs[d] : needs[d][i].name = s.name /\ ~SameNeed(needs[d][i], s)
<1>. SUFFICES ASSUME NEW e \in Starters, setup'[e] = "in use" PROVE Clash(needs[e][next'[e]])
  BY Zenon DEF ClashNeedsDifference, Stream
<1>1. CASE e # c
  <2>1. setup[e] = "in use" /\ next'[e] = next[e]
    BY <1>1, Zenon DEF Moves
  <2>. QED  BY <2>1, Zenon DEF ClashNeedsDifference, Stream
<1>2. CASE e = c
  <2>1. InUse(c) /\ next' = next
    BY <1>2, Zenon DEF SetupStep, Connect, StreamInfo, StreamDone, AddStream, SetupFails, CloseClient, ClientTypes
  <2>2. PICK d \in Starters : \E i \in DOMAIN needs[d] :
          needs[d][i].name = Stream(c).name /\ streams[Stream(c).name] = StreamConfig(needs[d][i])
    BY <2>1, Zenon DEF InUse, MadeByNeed
  <2>a. PICK i \in DOMAIN needs[d] :
          needs[d][i].name = Stream(c).name /\ streams[Stream(c).name] = StreamConfig(needs[d][i])
    BY <2>2, Zenon
  <2>3. StreamConfig(needs[d][i]) # StreamConfig(Stream(c))
    BY <2>1, <2>a, Zenon DEF InUse
  <2>4. ~SameNeed(needs[d][i], Stream(c))
    BY <2>3, SameNeedSameConfig, Zenon
  <2>. QED  BY <1>2, <2>1, <2>a, <2>4, Zenon DEF Stream
<1>. QED  BY <1>1, <1>2, Zenon

(* Every step keeps the invariant.                                          *)
LEMMA SetupInvNext == SetupInv /\ [SetupNext]_setupVars => SetupInv'
<1>. SUFFICES ASSUME SetupInv, [SetupNext]_setupVars PROVE SetupInv'
  BY Zenon
<1>1. needs' = needs /\ \A n \in DOMAIN streams : n \in DOMAIN streams' /\ streams'[n] = streams[n]
  BY StreamsGrow, Zenon
<1>2. ASSUME NEW c \in Starters, SetupStep(c) \/ CloseClient(c) PROVE SetupInv'
  <2>1. Moves(c)
    BY <1>2, StepMoves, Zenon DEF SetupInv
  <2>2. ClientTypes' /\ (AtStream /\ ConnInv /\ ConnReleased)'
    BY <1>1, <2>1, MovesKeep, Zenon DEF SetupInv, Moves
  <2>3. (Passed /\ StreamsReady)'
    BY <1>1, <1>2, <2>1, PassedNext, Zenon DEF SetupInv
  <2>4. MadeByNeed'
    BY <1>1, <1>2, MadeNext, Zenon DEF SetupInv
  <2>5. ClashNeedsDifference'
    BY <1>1, <1>2, <2>1, ClashNext, Zenon DEF SetupInv
  <2>. QED  BY <2>2, <2>3, <2>4, <2>5, Zenon DEF SetupInv
<1>3. CASE UNCHANGED setupVars
  <2>1. streams' = streams /\ needs' = needs /\ setup' = setup /\ next' = next /\ conn' = conn
    BY <1>3, Zenon DEF setupVars
  <2>2. (ClientTypes /\ AtStream /\ ConnInv /\ ConnReleased)'
    BY <2>1, Zenon DEF SetupInv, ClientTypes, AtStream, ConnInv, ConnReleased
  <2>3. (Passed /\ StreamsReady)'
    BY <2>1, Zenon DEF SetupInv, Passed, StreamsReady
  <2>4. (MadeByNeed /\ ClashNeedsDifference)'
    BY <2>1, Zenon DEF SetupInv, MadeByNeed, ClashNeedsDifference, Stream
  <2>. QED  BY <2>2, <2>3, <2>4, Zenon DEF SetupInv
<1>. QED  BY <1>2, <1>3, Zenon DEF SetupNext

(* The invariant holds in every behaviour.                                  *)
LEMMA SetupInvHolds == SetupSpec => []SetupInv
BY SetupInvInit, SetupInvNext, PTL DEF SetupSpec

(* New: the loop over the streams stays within them.                        *)
THEOREM SetupTypeCorrect == SetupSpec => []SetupTypeOK
<1>1. SetupInv => SetupTypeOK
  BY Zenon DEF SetupInv, ClientTypes, AtStream, SetupTypeOK
<1>. QED  BY <1>1, SetupInvHolds, PTL

(* New: on every error path the connection is closed or was never open.     *)
THEOREM ConnReleasedHolds == SetupSpec => []ConnReleased
<1>1. SetupInv => ConnReleased
  BY Zenon DEF SetupInv
<1>. QED  BY <1>1, SetupInvHolds, PTL

(* New: every stream of a finished client is there, whoever made it.        *)
THEOREM StreamsReadyHolds == SetupSpec => []StreamsReady
<1>1. SetupInv => StreamsReady
  BY Zenon DEF SetupInv
<1>. QED  BY <1>1, SetupInvHolds, PTL

(* ensureStream: two clients that were given the same stream never fail for *)
(* it, however their looks and creations interleave.                        *)
THEOREM ClashNeedsDifferenceHolds == SetupSpec => []ClashNeedsDifference
<1>1. SetupInv => ClashNeedsDifference
  BY Zenon DEF SetupInv
<1>. QED  BY <1>1, SetupInvHolds, PTL
-----------------------------------------------------------------------------
(* TextStreamer.                                                            *)


(* The types of the events, of what a reader of them is at, and of its      *)
(* first state.                                                             *)
EventTypes == {"message_start", "ping", "start", "delta", "stop", "message_delta", "message_stop"}
Kinds == {"message", "block", "text", "tool_use", "tool_result"}
Texts == Chunks \cup {"none"}
Events == [type : EventTypes, index : Int, kind : Kinds, text : Texts]
Places == {"start", "blocks", "block", "delta", "stop", "bad"}
Readers == [at : Places, index : Nat, kind : Kinds \cup {"none"}]
Start == [at |-> "start", index |-> 0, kind |-> "none"]

(* One step of the reader, and of what it has received, as functions.       *)
ReadStep == [q \in Readers \X Events |-> Reads(q[1], q[2])]
ReceiveStep == [q \in Seq(Texts) \X Events |-> Receives(q[1], q[2])]

(* The last start among the events t is that of block i, of kind k.         *)
LastStart(t, i, k) ==
  \E j \in 1 .. Len(t) :
    /\ t[j].type = "start" /\ t[j].index = i /\ t[j].kind = k
    /\ \A n \in j + 1 .. Len(t) : t[n].type = "start" => t[n].index = i /\ t[n].kind = k

(* Every delta among the events t is one of the block started last.         *)
AllDeltas(t) ==
  \A d \in 1..Len(t) : t[d].type = "delta" =>
    \E j \in 1 .. d - 1 :
      /\ t[j].type = "start" /\ t[j].index = t[d].index /\ t[j].kind = t[d].kind
      /\ \A n \in j + 1 .. d - 1 :
           t[n].type = "start" => t[n].index = t[j].index /\ t[n].kind = t[j].kind

(* The sequence r is found, in order, among the first n elements of t.      *)
Embeds(r, t, n) ==
  \E f \in [1..Len(r) -> 1..n] :
    \A i, j \in 1..Len(r) : t[f[i]] = r[i] /\ (i < j => f[i] < f[j])

(* The kinds whose blocks hold no text.                                     *)
ToolKinds == {"tool_use", "tool_result"}
(* A reader that is at a place of a block.                                  *)
Reading(at, i, k) == [at |-> at, index |-> i, kind |-> k]

(* The types of the streamer.                                               *)
StreamTypes ==
  /\ publishing \in BOOLEAN /\ late \in BOOLEAN /\ blockStarted \in BOOLEAN
  /\ text \in Seq(Chunks) /\ BlockIndex \in Nat /\ BlockIndex <= MaxBlocks
  /\ (op \in {"write", "close", "tool"} => BlockIndex < MaxBlocks)
  /\ (blockStarted => publishing /\ BlockIndex < MaxBlocks)
  /\ phase \in {"new", "blocks", "ended", "gaveup"}
  /\ (phase = "new" => BlockIndex = 0 /\ ~blockStarted)
  /\ topic \in Seq(Events)

(* What the operation under way has yet to publish.                         *)
TodoInv ==
  \/ op = "none" /\ todo = <<>>
  \/ op = "preamble" /\ phase = "new" /\ ~blockStarted /\ todo \in {Opening, <<MessageEvent("ping")>>}
  \/ /\ op = "write" /\ phase = "blocks" /\ publishing /\ text # <<>>
     /\ todo = IF blockStarted THEN <<Delta(BlockIndex, "text", text[Len(text)])>>
               ELSE <<BlockStart(BlockIndex, "text"), Delta(BlockIndex, "text", text[Len(text)])>>
  \/ op = "close" /\ phase = "blocks" /\ blockStarted /\ todo = <<BlockStop(BlockIndex)>>
  \/ /\ op = "tool" /\ phase = "blocks" /\ ~blockStarted
     /\ \E k \in ToolKinds :
          todo \in {<<BlockStart(BlockIndex, k), Delta(BlockIndex, k, "none"), BlockStop(BlockIndex)>>,
                    <<Delta(BlockIndex, k, "none"), BlockStop(BlockIndex)>>, <<BlockStop(BlockIndex)>>}
  \/ op = "epilogue" /\ phase = "blocks" /\ ~blockStarted /\ todo \in {Closing, <<MessageEvent("message_stop")>>}

(* Where a reader is, as long as no event was stored by a failed Publish.   *)
ReaderInv ==
  ~late =>
    /\ reader.at # "bad"
    /\ phase = "ended" => reader.at = "stop"
    /\ phase = "new" /\ op = "none" => reader = Start
    /\ op = "preamble" => reader = IF Len(todo) = 2 THEN Start ELSE Reading("blocks", 0, "none")
    /\ phase = "blocks" /\ blockStarted => reader = Reading("block", BlockIndex, "text")
    /\ phase = "blocks" /\ ~blockStarted /\ op \in {"none", "write"} => reader = Reading("blocks", BlockIndex, "none")
    /\ op = "tool" /\ Len(todo) = 3 => reader = Reading("blocks", BlockIndex, "none")
    /\ op = "tool" /\ Len(todo) = 2 => reader = Reading("block", BlockIndex, todo[1].kind)
    /\ op = "tool" /\ Len(todo) = 1 => \E k \in ToolKinds : reader = Reading("block", BlockIndex, k)
    /\ op = "epilogue" => reader.at = IF Len(todo) = 2 THEN "blocks" ELSE "delta"

(* The last start on the topic is that of the block deltas are sent for.    *)
StartInv ==
  /\ phase = "blocks" /\ blockStarted => LastStart(topic, BlockIndex, "text")
  /\ op = "tool" /\ Len(todo) = 2 => LastStart(topic, BlockIndex, todo[1].kind)
  /\ AllDeltas(topic)

(* A reader was sent parts of the text, in order; the chunk that is being   *)
(* written is not among them yet.                                           *)
SentInv == Embeds(Received, text, IF op = "write" THEN Len(text) - 1 ELSE Len(text))

(* The inductive invariant of the streamer.                                 *)
StreamInv == StreamTypes /\ TodoInv /\ ReaderInv /\ StartInv /\ SentInv

(* Every event takes a reader to a reader.                                  *)
LEMMA ReadStepType == ReadStep \in [Readers \X Events -> Readers]
<1>1. ASSUME NEW r \in Readers, NEW e \in Events PROVE Reads(r, e) \in Readers
  <2>1. r.at \in Places /\ r.index \in Nat /\ r.kind \in Kinds \cup {"none"} /\ e.kind \in Kinds
    BY Zenon DEF Readers, Events
  <2>2. r.index + 1 \in Nat
    <3>1. r.index \in Nat
      BY <2>1, Zenon
    <3>. QED  BY <3>1
  <2>3. \A a \in Places, k \in Kinds \cup {"none"} :
          [r EXCEPT !.at = a] \in Readers /\ [r EXCEPT !.at = a, !.kind = k] \in Readers
          /\ [at |-> a, index |-> r.index + 1, kind |-> k] \in Readers
    BY <2>1, <2>2, Zenon DEF Readers
  <2>. QED  BY <2>1, <2>3, Zenon DEF Reads, Places
<1>. QED  BY <1>1, Zenon DEF ReadStep

(* A step of what has been received is a function on texts.                 *)
LEMMA ReceiveStepType == ReceiveStep \in [Seq(Texts) \X Events -> Seq(Texts)]
<1>1. ASSUME NEW t \in Seq(Texts), NEW e \in Events PROVE Receives(t, e) \in Seq(Texts)
  <2>1. e.text \in Texts
    BY Zenon DEF Events
  <2>2. Append(t, e.text) \in Seq(Texts)
    BY <2>1
  <2>. QED  BY <2>2, Zenon DEF Receives
<1>. QED  BY <1>1, Zenon DEF ReceiveStep

(* h holds the states of the reader after each prefix of s.                 *)
ReadTable(h, s) ==
  h = [t \in SUBSET DOMAIN s |-> IF t = {} THEN Start ELSE Reads(h[t \ {Max(t)}], s[Max(t)])]

(* The reader of a topic is the fold of its events.                         *)
LEMMA ReaderIsFolded ==
  ASSUME NEW s \in Seq(Events)
  PROVE  Folded(InOrder(Reads, Start, s), s, Readers, Start, ReadStep)
<1>0. Start \in Readers
  BY Zenon DEF Start, Readers, Places
<1>1. \A r \in Readers, e \in Events : ReadStep[<<r, e>>] = Reads(r, e)
  BY Zenon DEF ReadStep
<1>2. \A t \in SUBSET DOMAIN s : t # {} => Max(t) \in DOMAIN s /\ s[Max(t)] \in Events
  BY ElementAtMax, Zenon
<1>3. \E h : ReadTable(h, s)
  <2>1. PICK h \in [SUBSET DOMAIN s -> Readers] : FoldTable(h, s, Start, ReadStep)
    BY <1>0, ReadStepType, FoldExists, Zenon
  <2>2. \A t \in SUBSET DOMAIN s : h[t] = IF t = {} THEN Start ELSE Reads(h[t \ {Max(t)}], s[Max(t)])
    <3>. SUFFICES ASSUME NEW t \in SUBSET DOMAIN s PROVE h[t] = IF t = {} THEN Start ELSE Reads(h[t \ {Max(t)}], s[Max(t)])
      BY Zenon
    <3>1. h[t \ {Max(t)}] \in Readers
      BY Zenon
    <3>2. h[t] = IF t = {} THEN Start ELSE ReadStep[<<h[t \ {Max(t)}], s[Max(t)]>>]
      BY <2>1, Zenon DEF FoldTable
    <3>. QED  BY <1>1, <1>2, <3>1, <3>2, Zenon
  <2>. QED  BY <2>2, Zenon DEF ReadTable
<1>. DEFINE h == CHOOSE h : ReadTable(h, s)
<1>4. ReadTable(h, s)
  BY <1>3, Zenon
<1>5. InOrder(Reads, Start, s) = h[DOMAIN s]
  BY Zenon DEF InOrder, MapThenFoldSet, ReadTable
<1>. HIDE DEF h
<1>6. h[{}] = Start
  BY <1>4, Zenon DEF ReadTable
<1>7. \A t \in SUBSET DOMAIN s : t # {} /\ h[t \ {Max(t)}] \in Readers =>
        h[t] = ReadStep[<<h[t \ {Max(t)}], s[Max(t)]>>]
  <2>1. \A t \in SUBSET DOMAIN s : t # {} => h[t] = Reads(h[t \ {Max(t)}], s[Max(t)])
    BY <1>4, Zenon DEF ReadTable
  <2>. QED  BY <1>1, <1>2, <2>1, Zenon
<1>8. Folded(h[DOMAIN s], s, Readers, Start, ReadStep)
  BY <1>0, <1>6, <1>7, ReadStepType, FoldIsFolded, Zenon
<1>. QED  BY <1>5, <1>8, Zenon

(* h holds what has been received after each prefix of s.                   *)
ReceiveTable(h, s) ==
  h = [t \in SUBSET DOMAIN s |-> IF t = {} THEN <<>> ELSE Receives(h[t \ {Max(t)}], s[Max(t)])]

(* So is what it received.                                                  *)
LEMMA ReceivedIsFolded ==
  ASSUME NEW s \in Seq(Events)
  PROVE  Folded(InOrder(Receives, <<>>, s), s, Seq(Texts), <<>>, ReceiveStep)
<1>. DEFINE V == Seq(Texts)
<1>0. <<>> \in V
  OBVIOUS
<1>1. \A r \in V, e \in Events : ReceiveStep[<<r, e>>] = Receives(r, e)
  BY Zenon DEF ReceiveStep
<1>2. \A t \in SUBSET DOMAIN s : t # {} => Max(t) \in DOMAIN s /\ s[Max(t)] \in Events
  BY ElementAtMax, Zenon
<1>9. ReceiveStep \in [V \X Events -> V]
  BY ReceiveStepType, Zenon
<1>. HIDE DEF V
<1>3. \E h : ReceiveTable(h, s)
  <2>1. PICK h \in [SUBSET DOMAIN s -> V] : FoldTable(h, s, <<>>, ReceiveStep)
    BY <1>0, <1>9, FoldExists, Zenon
  <2>2. \A t \in SUBSET DOMAIN s : h[t] = IF t = {} THEN <<>> ELSE Receives(h[t \ {Max(t)}], s[Max(t)])
    <3>. SUFFICES ASSUME NEW t \in SUBSET DOMAIN s PROVE h[t] = IF t = {} THEN <<>> ELSE Receives(h[t \ {Max(t)}], s[Max(t)])
      BY Zenon
    <3>1. h[t \ {Max(t)}] \in V
      BY Zenon
    <3>2. h[t] = IF t = {} THEN <<>> ELSE ReceiveStep[<<h[t \ {Max(t)}], s[Max(t)]>>]
      BY <2>1, Zenon DEF FoldTable
    <3>. QED  BY <1>1, <1>2, <3>1, <3>2, Zenon
  <2>. QED  BY <2>2, Zenon DEF ReceiveTable
<1>. DEFINE h == CHOOSE h : ReceiveTable(h, s)
<1>4. ReceiveTable(h, s)
  BY <1>3, Zenon
<1>5. InOrder(Receives, <<>>, s) = h[DOMAIN s]
  BY Zenon DEF InOrder, MapThenFoldSet, ReceiveTable
<1>. HIDE DEF h
<1>6. h[{}] = <<>>
  BY <1>4, Zenon DEF ReceiveTable
<1>7. \A t \in SUBSET DOMAIN s : t # {} /\ h[t \ {Max(t)}] \in V =>
        h[t] = ReceiveStep[<<h[t \ {Max(t)}], s[Max(t)]>>]
  <2>1. \A t \in SUBSET DOMAIN s : t # {} => h[t] = Receives(h[t \ {Max(t)}], s[Max(t)])
    BY <1>4, Zenon DEF ReceiveTable
  <2>. QED  BY <1>1, <1>2, <2>1, Zenon
<1>8. Folded(h[DOMAIN s], s, V, <<>>, ReceiveStep)
  BY <1>0, <1>6, <1>7, <1>9, FoldIsFolded, Zenon
<1>. QED  BY <1>5, <1>8, Zenon DEF V

(* One more event is one more step of the reader, and of what it received.  *)
LEMMA TopicGrows ==
  ASSUME NEW s \in Seq(Events), NEW e \in Events
  PROVE  /\ InOrder(Reads, Start, s) \in Readers
         /\ InOrder(Reads, Start, Append(s, e)) = Reads(InOrder(Reads, Start, s), e)
         /\ InOrder(Receives, <<>>, s) \in Seq(Texts)
         /\ InOrder(Receives, <<>>, Append(s, e)) = Receives(InOrder(Receives, <<>>, s), e)
<1>. DEFINE V == Seq(Texts)
            r == InOrder(Reads, Start, s)
            u == InOrder(Reads, Start, Append(s, e))
            v == InOrder(Receives, <<>>, s)
            w == InOrder(Receives, <<>>, Append(s, e))
<1>0. Append(s, e) \in Seq(Events) /\ Start \in Readers /\ <<>> \in V /\ ReceiveStep \in [V \X Events -> V]
  <2>1. Start \in Readers
    BY Zenon DEF Start, Readers, Places
  <2>2. Append(s, e) \in Seq(Events) /\ <<>> \in V
    OBVIOUS
  <2>. QED  BY <2>1, <2>2, ReceiveStepType, Zenon
<1>1. Folded(r, s, Readers, Start, ReadStep) /\ Folded(u, Append(s, e), Readers, Start, ReadStep)
  BY <1>0, ReaderIsFolded, Zenon
<1>2. Folded(v, s, V, <<>>, ReceiveStep) /\ Folded(w, Append(s, e), V, <<>>, ReceiveStep)
  BY <1>0, ReceivedIsFolded, Zenon
<1>. HIDE DEF V, r, u, v, w
<1>3. r \in Readers /\ u = ReadStep[<<r, e>>]
  <2>1. FoldStep(r, u, e, Readers, ReadStep)
    BY <1>0, <1>1, ReadStepType, FoldedAppend, Zenon
  <2>. QED  BY <2>1, Zenon DEF FoldStep
<1>4. v \in V /\ w = ReceiveStep[<<v, e>>]
  <2>1. FoldStep(v, w, e, V, ReceiveStep)
    BY <1>0, <1>2, FoldedAppend, Zenon
  <2>. QED  BY <2>1, Zenon DEF FoldStep
<1>5. u = Reads(r, e) /\ w = Receives(v, e)
  BY <1>3, <1>4, Zenon DEF ReadStep, ReceiveStep, V
<1>. QED  BY <1>3, <1>4, <1>5, Zenon DEF r, u, v, w, V

(* A topic without events has been read nowhere.                            *)
LEMMA TopicBegins ==
  InOrder(Reads, Start, <<>>) = Start /\ InOrder(Receives, <<>>, <<>>) = <<>>
<1>1. <<>> \in Seq(Events)
  OBVIOUS
<1>. QED  BY <1>1, ReaderIsFolded, ReceivedIsFolded, FoldedEmpty, Zenon
-----------------------------------------------------------------------------
(* Sequences of one to three events.                                        *)
LEMMA TupleFacts ==
  \A a, b, c :
    /\ Head(<<a>>) = a /\ Tail(<<a>>) = <<>> /\ Len(<<a>>) = 1
    /\ Head(<<a, b>>) = a /\ Tail(<<a, b>>) = <<b>> /\ Len(<<a, b>>) = 2
    /\ Head(<<a, b, c>>) = a /\ Tail(<<a, b, c>>) = <<b, c>> /\ Len(<<a, b, c>>) = 3
OBVIOUS

(* Sequences of events that one more is added to.                           *)
LEMMA AppendFacts ==
  ASSUME NEW a, NEW b, NEW c
  PROVE  Append(<<>>, a) = <<a>> /\ Append(<<a>>, b) = <<a, b>> /\ Append(<<a, b>>, c) = <<a, b, c>>
<1>1. Append(<<>>, a) = <<a>>
  OBVIOUS
<1>2. Append(<<a>>, b) = <<a, b>>
  <2>1. <<a>> \in Seq({a, b}) /\ Len(<<a>>) = 1
    OBVIOUS
  <2>2. Append(<<a>>, b) = [i \in 1..2 |-> IF i = 2 THEN b ELSE <<a>>[i]]
    BY <2>1
  <2>3. <<a, b>> = [i \in 1..2 |-> IF i = 2 THEN b ELSE <<a>>[i]]
    OBVIOUS
  <2>. QED  BY <2>2, <2>3, Zenon
<1>3. Append(<<a, b>>, c) = <<a, b, c>>
  <2>1. <<a, b>> \in Seq({a, b, c}) /\ Len(<<a, b>>) = 2
    OBVIOUS
  <2>2. Append(<<a, b>>, c) = [i \in 1..3 |-> IF i = 3 THEN c ELSE <<a, b>>[i]]
    BY <2>1
  <2>3. <<a, b, c>> = [i \in 1..3 |-> IF i = 3 THEN c ELSE <<a, b>>[i]]
    OBVIOUS
  <2>. QED  BY <2>2, <2>3, Zenon
<1>. QED  BY <1>1, <1>2, <1>3, Zenon

(* What the operations publish are events.                                  *)
LEMMA EventTypesHold ==
  ASSUME NEW i \in Int, NEW k \in {"text"} \cup ToolKinds, NEW c \in Texts
  PROVE  /\ \A t \in {"message_start", "ping", "message_delta", "message_stop"} : MessageEvent(t) \in Events
         /\ BlockStart(i, k) \in Events /\ Delta(i, k, c) \in Events /\ BlockStop(i) \in Events
<1>1. /\ "none" \in Texts /\ -1 \in Int /\ k \in Kinds /\ {"message", "block"} \subseteq Kinds
      /\ {"start", "delta", "stop", "message_start", "ping", "message_delta", "message_stop"} \subseteq EventTypes
  <2>1. "none" \in Texts
    BY Zenon DEF Texts
  <2>4. -1 \in Int
    OBVIOUS
  <2>2. k \in Kinds /\ {"message", "block"} \subseteq Kinds
    BY Zenon DEF Kinds, ToolKinds
  <2>3. {"start", "delta", "stop", "message_start", "ping", "message_delta", "message_stop"} \subseteq EventTypes
    BY Zenon DEF EventTypes
  <2>. QED  BY <2>1, <2>2, <2>3, <2>4, Zenon
<1>2. \A t \in {"message_start", "ping", "message_delta", "message_stop"} : MessageEvent(t) \in Events
  BY <1>1, Zenon DEF MessageEvent, Events
<1>3. BlockStart(i, k) \in Events
  BY <1>1, Zenon DEF BlockStart, Events
<1>4. Delta(i, k, c) \in Events
  BY <1>1, Zenon DEF Delta, Events
<1>5. BlockStop(i) \in Events
  BY <1>1, Zenon DEF BlockStop, Events
<1>. QED  BY <1>2, <1>3, <1>4, <1>5, Zenon

(* The topic with one more event: the last start before it still counts.    *)
LEMMA LastStartKept ==
  ASSUME NEW t \in Seq(Events), NEW e \in Events, NEW i, NEW k,
         \/ e.type = "start" /\ e.index = i /\ e.kind = k
         \/ e.type # "start" /\ LastStart(t, i, k)
  PROVE  LastStart(Append(t, e), i, k)
<1>. DEFINE n == Len(t)
            u == Append(t, e)
<1>0. n \in Nat /\ Len(u) = n + 1 /\ u[n + 1] = e /\ \A j \in 1..n : u[j] = t[j]
  OBVIOUS
<1>. HIDE DEF u
<1>1. CASE e.type = "start" /\ e.index = i /\ e.kind = k
  <2>1. n + 1 \in 1..Len(u) /\ \A m \in (n + 1) + 1..Len(u) : FALSE
    BY <1>0
  <2>. QED  BY <1>0, <1>1, <2>1, Zenon DEF LastStart, u
<1>2. CASE e.type # "start" /\ LastStart(t, i, k)
  <2>1. PICK j \in 1..n : /\ t[j].type = "start" /\ t[j].index = i /\ t[j].kind = k
                          /\ \A m \in j + 1..n : t[m].type = "start" => t[m].index = i /\ t[m].kind = k
    BY <1>2, Zenon DEF LastStart
  <2>2. j \in 1..Len(u) /\ u[j] = t[j]
    BY <1>0
  <2>3. ASSUME NEW m \in j + 1..Len(u), u[m].type = "start" PROVE u[m].index = i /\ u[m].kind = k
    <3>1. m # n + 1
      BY <1>0, <1>2, <2>3, Zenon
    <3>2. m \in 1..n /\ m \in j + 1..n
      BY <1>0, <3>1
    <3>3. u[m] = t[m]
      BY <1>0, <3>2, Zenon
    <3>. QED  BY <2>1, <2>3, <3>2, <3>3, Zenon
  <2>. QED  BY <2>1, <2>2, <2>3, Zenon DEF LastStart, u
<1>. QED  BY <1>1, <1>2, Zenon

(* A delta goes to the topic only while the start of its block is last.     *)
LEMMA DeltasKept ==
  ASSUME NEW t \in Seq(Events), NEW e \in Events, AllDeltas(t),
         e.type = "delta" => LastStart(t, e.index, e.kind)
  PROVE  AllDeltas(Append(t, e))
<1>. DEFINE n == Len(t)
            u == Append(t, e)
<1>0. n \in Nat /\ Len(u) = n + 1 /\ u[n + 1] = e /\ \A j \in 1..n : u[j] = t[j]
  OBVIOUS
<1>. HIDE DEF u
<1>. SUFFICES ASSUME NEW d \in 1..Len(u), u[d].type = "delta"
              PROVE  \E j \in 1 .. d - 1 :
                       /\ u[j].type = "start" /\ u[j].index = u[d].index /\ u[j].kind = u[d].kind
                       /\ \A m \in j + 1 .. d - 1 :
                            u[m].type = "start" => u[m].index = u[j].index /\ u[m].kind = u[j].kind
  BY Zenon DEF AllDeltas, u
<1>1. CASE d = n + 1
  <2>1. PICK j \in 1..n : /\ t[j].type = "start" /\ t[j].index = e.index /\ t[j].kind = e.kind
                          /\ \A m \in j + 1..n : t[m].type = "start" => t[m].index = e.index /\ t[m].kind = e.kind
    BY <1>0, <1>1, Zenon DEF LastStart
  <2>2. j \in 1..d - 1 /\ u[j] = t[j] /\ u[d] = e
    BY <1>0, <1>1
  <2>3. \A m \in j + 1..d - 1 : m \in j + 1..n /\ u[m] = t[m]
    BY <1>0, <1>1, SMTT(30)
  <2>. QED  BY <2>1, <2>2, <2>3, SMTT(30)
<1>2. CASE d # n + 1
  <2>0. d \in 1..n /\ u[d] = t[d]
    BY <1>0, <1>2
  <2>1. PICK j \in 1..d - 1 :
          /\ t[j].type = "start" /\ t[j].index = t[d].index /\ t[j].kind = t[d].kind
          /\ \A m \in j + 1 .. d - 1 :
               t[m].type = "start" => t[m].index = t[j].index /\ t[m].kind = t[j].kind
    BY <2>0 DEF AllDeltas
  <2>2. u[j] = t[j] /\ \A m \in j + 1..d - 1 : u[m] = t[m]
    BY <1>0, <2>0
  <2>. QED  BY <2>0, <2>1, <2>2
<1>. QED  BY <1>1, <1>2, Zenon

(* Nothing is a part of any text.                                           *)
LEMMA EmbedsNothing == ASSUME NEW t, NEW n PROVE Embeds(<<>>, t, n)
<1>1. Len(<<>>) = 0 /\ 1..0 = {}
  OBVIOUS
<1>2. [i \in {} |-> 1] \in [{} -> 1..n]
  BY Zenon
<1>. QED  BY <1>1, <1>2, Zenon DEF Embeds

(* The text grows, and what was sent of it remains a part of it.            *)
LEMMA EmbedsMore ==
  ASSUME NEW r \in Seq(Texts), NEW t \in Seq(Chunks), NEW n \in Int, n <= Len(t), Embeds(r, t, n)
  PROVE  /\ Embeds(r, t, Len(t)) /\ \A c \in Chunks : Embeds(r, Append(t, c), n)
         /\ \A c \in Chunks : Embeds(r, Append(t, c), Len(Append(t, c)))
<1>1. PICK f \in [1..Len(r) -> 1..n] : \A i, j \in 1..Len(r) : t[f[i]] = r[i] /\ (i < j => f[i] < f[j])
  BY Zenon DEF Embeds
<1>2. \A i \in 1..Len(r) : f[i] \in 1..Len(t)
  OBVIOUS
<1>3. f \in [1..Len(r) -> 1..Len(t)]
  BY <1>2, Zenon
<1>4. Embeds(r, t, Len(t))
  BY <1>1, <1>3, Zenon DEF Embeds
<1>5. ASSUME NEW c \in Chunks PROVE Embeds(r, Append(t, c), n) /\ Embeds(r, Append(t, c), Len(Append(t, c)))
  <2>. DEFINE u == Append(t, c)
  <2>1. Len(u) = Len(t) + 1 /\ \A k \in 1..Len(t) : u[k] = t[k]
    OBVIOUS
  <2>. HIDE DEF u
  <2>2. \A i \in 1..Len(r) : u[f[i]] = t[f[i]]
    BY <1>2, <2>1, Zenon
  <2>0. \A i, j \in 1..Len(r) : u[f[i]] = r[i] /\ (i < j => f[i] < f[j])
    BY <1>1, <2>2, Zenon
  <2>3. Embeds(r, u, n)
    BY <2>0, Zenon DEF Embeds
  <2>4. \A i \in 1..Len(r) : f[i] \in 1..Len(u)
    BY <1>2, <2>1
  <2>5. f \in [1..Len(r) -> 1..Len(u)]
    BY <2>4, Zenon
  <2>6. Embeds(r, u, Len(u))
    BY <2>0, <2>5, Zenon DEF Embeds
  <2>. QED  BY <2>3, <2>6, Zenon DEF u
<1>. QED  BY <1>4, <1>5, Zenon

(* The chunk that was written last is sent after all that was sent before.  *)
LEMMA EmbedsLast ==
  ASSUME NEW r \in Seq(Texts), NEW t \in Seq(Chunks), t # <<>>, Embeds(r, t, Len(t) - 1)
  PROVE  Embeds(Append(r, t[Len(t)]), t, Len(t))
<1>. DEFINE m == Len(r)
            n == Len(t)
            q == Append(r, t[n])
<1>0. m \in Nat /\ n \in Nat /\ n # 0
  OBVIOUS
<1>1. Len(q) = m + 1 /\ q[m + 1] = t[n] /\ \A i \in 1..m : q[i] = r[i]
  OBVIOUS
<1>2. PICK f \in [1..m -> 1..n - 1] : \A i, j \in 1..m : t[f[i]] = r[i] /\ (i < j => f[i] < f[j])
  BY Zenon DEF Embeds
<1>. DEFINE g == [i \in 1..m + 1 |-> IF i = m + 1 THEN n ELSE f[i]]
<1>. HIDE DEF m, n, q
<1>3. \A i \in 1..m : g[i] = f[i] /\ f[i] \in 1..n - 1
  BY <1>0
<1>4. g[m + 1] = n
  BY <1>0
<1>5. g \in [1..m + 1 -> 1..n]
  BY <1>0
<1>. HIDE DEF g
<1>6. \A i \in 1..m + 1 : i = m + 1 \/ i \in 1..m
  BY <1>0
<1>7. \A i \in 1..m + 1 : t[g[i]] = q[i]
  BY <1>1, <1>2, <1>3, <1>4, <1>6, Zenon
<1>8. ASSUME NEW i \in 1..m + 1, NEW j \in 1..m + 1, i < j PROVE g[i] < g[j]
  <2>1. i \in 1..m
    BY <1>0, <1>8
  <2>2. CASE j = m + 1
    BY <1>0, <1>3, <1>4, <2>1, <2>2, SMTT(30)
  <2>3. CASE j \in 1..m
    BY <1>2, <1>3, <1>8, <2>1, <2>3, Zenon
  <2>. QED  BY <1>6, <2>2, <2>3, Zenon
<1>. QED  BY <1>1, <1>5, <1>7, <1>8, Zenon DEF Embeds, q, n
-----------------------------------------------------------------------------
(* At the start nothing was read and nothing received.                      *)
LEMMA StreamInvInit == StreamInit => StreamInv
<1>. SUFFICES ASSUME StreamInit PROVE StreamInv
  BY Zenon
<1>1. reader = Start /\ Received = <<>>
  BY TopicBegins, Zenon DEF StreamInit, reader, Received, Start
<1>2. StreamTypes
  <2>1. BlockIndex = 0 /\ BlockIndex \in Nat /\ BlockIndex <= MaxBlocks
    BY StreamerAssumption DEF StreamInit
  <2>2. <<>> \in Seq(Chunks) /\ <<>> \in Seq(Events)
    OBVIOUS
  <2>. QED  BY <2>1, <2>2, Zenon DEF StreamInit, StreamTypes
<1>3. TodoInv
  BY Zenon DEF StreamInit, TodoInv
<1>4. ReaderInv
  BY <1>1, Zenon DEF StreamInit, ReaderInv, Start
<1>5. StartInv
  BY DEF StreamInit, StartInv, AllDeltas
<1>6. SentInv
  <2>1. Embeds(<<>>, text, 0)
    BY EmbedsNothing, Zenon
  <2>2. op = "none" /\ Len(text) = 0
    BY Zenon DEF StreamInit
  <2>. QED  BY <1>1, <2>1, <2>2, Zenon DEF SentInv
<1>. QED  BY <1>2, <1>3, <1>4, <1>5, <1>6, Zenon DEF StreamInv

(* What is read and received depends on the topic alone.                    *)
LEMMA SameTopic ==
  ASSUME topic' = topic
  PROVE  reader' = reader /\ Received' = Received
BY Zenon DEF reader, Received

(* The operations that begin: what they will publish fits where the reader  *)
(* is.                                                                      *)
LEMMA BeginsNext ==
  ASSUME StreamInv, op = "none", UNCHANGED <<streamer, phase, topic, late>>,
         \/ phase = "new" /\ publishing /\ BeginOp("preamble", Opening)
         \/ phase = "blocks" /\ blockStarted /\ BeginOp("close", <<BlockStop(BlockIndex)>>)
         \/ phase = "blocks" /\ ~blockStarted /\ BeginOp("epilogue", Closing)
         \/ /\ phase = "blocks" /\ ~blockStarted /\ publishing /\ BlockIndex < MaxBlocks
            /\ \E k \in ToolKinds :
                 BeginOp("tool", <<BlockStart(BlockIndex, k), Delta(BlockIndex, k, "none"), BlockStop(BlockIndex)>>)
  PROVE  StreamInv'
<1>0. /\ UNCHANGED <<publishing, text, BlockIndex, blockStarted, phase, topic, late>>
      /\ reader' = reader /\ Received' = Received
  BY SameTopic, Zenon DEF streamer
<1>1. op' # "write" /\ op' # "none" /\ SentInv'
  <2>1. op' # "write" /\ op' # "none"
    BY Zenon DEF BeginOp
  <2>. QED  BY <1>0, <2>1, Zenon DEF StreamInv, SentInv
<1>2. StreamTypes'
  BY <1>0, Zenon DEF StreamInv, StreamTypes, BeginOp
<1>. USE TupleFacts
<1>3. CASE phase = "new" /\ publishing /\ BeginOp("preamble", Opening)
  <2>1. op' = "preamble" /\ todo' = Opening /\ Len(todo') = 2 /\ phase' = "new"
    BY <1>0, <1>3, ZenonT(30) DEF BeginOp, Opening
  <2>2. ReaderInv' /\ StartInv'
    BY <1>0, <2>1 DEF StreamInv, ReaderInv, StartInv
  <2>3. TodoInv'
    <3>1. ~blockStarted
      BY <1>3, Zenon DEF StreamInv, StreamTypes
    <3>. QED  BY <1>0, <2>1, <3>1, Zenon DEF TodoInv
  <2>. QED  BY <1>1, <1>2, <2>2, <2>3, Zenon DEF StreamInv
<1>4. CASE phase = "blocks" /\ blockStarted /\ BeginOp("close", <<BlockStop(BlockIndex)>>)
  <2>1. op' = "close" /\ todo' = <<BlockStop(BlockIndex)>> /\ phase' = "blocks" /\ blockStarted
    BY <1>0, <1>4, Zenon DEF BeginOp
  <2>2. ReaderInv' /\ StartInv'
    BY <1>0, <2>1 DEF StreamInv, ReaderInv, StartInv
  <2>3. TodoInv'
    BY <1>0, <2>1, ZenonT(30) DEF TodoInv
  <2>. QED  BY <1>1, <1>2, <2>2, <2>3, Zenon DEF StreamInv
<1>5. CASE phase = "blocks" /\ ~blockStarted /\ BeginOp("epilogue", Closing)
  <2>1. op' = "epilogue" /\ todo' = Closing /\ Len(todo') = 2 /\ phase' = "blocks" /\ ~blockStarted
    BY <1>0, <1>5, ZenonT(30) DEF BeginOp, Closing
  <2>2. ReaderInv' /\ StartInv'
    BY <1>0, <2>1 DEF StreamInv, ReaderInv, StartInv, Reading
  <2>3. TodoInv'
    BY <1>0, <2>1, Zenon DEF TodoInv
  <2>. QED  BY <1>1, <1>2, <2>2, <2>3, Zenon DEF StreamInv
<1>6. CASE /\ phase = "blocks" /\ ~blockStarted /\ publishing /\ BlockIndex < MaxBlocks
           /\ \E k \in ToolKinds :
                BeginOp("tool", <<BlockStart(BlockIndex, k), Delta(BlockIndex, k, "none"), BlockStop(BlockIndex)>>)
  <2>1. PICK k \in ToolKinds :
          BeginOp("tool", <<BlockStart(BlockIndex, k), Delta(BlockIndex, k, "none"), BlockStop(BlockIndex)>>)
    BY <1>6, Zenon
  <2>2. /\ op' = "tool" /\ todo' = <<BlockStart(BlockIndex, k), Delta(BlockIndex, k, "none"), BlockStop(BlockIndex)>>
        /\ Len(todo') = 3 /\ phase' = "blocks" /\ ~blockStarted
    BY <1>0, <1>6, <2>1, ZenonT(30) DEF BeginOp
  <2>3. ReaderInv' /\ StartInv'
    BY <1>0, <2>2 DEF StreamInv, ReaderInv, StartInv
  <2>4. TodoInv'
    BY <1>0, <2>2, Zenon DEF TodoInv
  <2>. QED  BY <1>1, <1>2, <2>3, <2>4, Zenon DEF StreamInv
<1>. QED  BY <1>3, <1>4, <1>5, <1>6, Zenon

(* What has been received is a sequence of texts.                           *)
LEMMA ReceivedType == StreamTypes => Received \in Seq(Texts) /\ reader \in Readers
<1>1. MessageEvent("ping") \in Events
  <2>1. 0 \in Int /\ "text" \in {"text"} \cup ToolKinds /\ "none" \in Texts
    BY DEF Texts
  <2>. QED  BY <2>1, EventTypesHold, Zenon
<1>. QED  BY <1>1, TopicGrows, Zenon DEF StreamTypes, Received, reader, Start

(* Text is accumulated, and then published if there is a publisher.         *)
LEMMA WritesNext ==
  ASSUME StreamInv, NEW c \in Chunks, Accumulate(c) \/ WriteChunk(c) PROVE StreamInv'
<1>0. /\ UNCHANGED <<publishing, BlockIndex, blockStarted, phase, topic, late>> /\ text' = Append(text, c)
      /\ reader' = reader /\ Received' = Received
  BY SameTopic, Zenon DEF Accumulate, WriteChunk
<1>1. text \in Seq(Chunks) /\ text' \in Seq(Chunks) /\ text' # <<>> /\ Len(text') - 1 = Len(text) /\ text'[Len(text')] = c
  <2>1. text \in Seq(Chunks)
    BY Zenon DEF StreamInv, StreamTypes
  <2>. QED  BY <1>0, <2>1
<1>2. Received \in Seq(Texts)
  BY ReceivedType, Zenon DEF StreamInv
<1>3. CASE Accumulate(c)
  <2>0. op' = op /\ todo' = todo /\ ~publishing
    BY <1>3, Zenon DEF Accumulate
  <2>1. op # "write"
    BY <2>0, Zenon DEF StreamInv, TodoInv
  <2>2. StreamTypes'
    BY <1>0, <1>1, <2>0, Zenon DEF StreamInv, StreamTypes
  <2>3. TodoInv'
    BY <1>0, <2>0, <2>1, ZenonT(30) DEF StreamInv, TodoInv
  <2>4. ReaderInv' /\ StartInv'
    BY <1>0, <2>0 DEF StreamInv, ReaderInv, StartInv
  <2>5. SentInv'
    <3>1. Embeds(Received, text, Len(text)) /\ Len(text) \in Int
      BY <1>1, <2>1, SMTT(30) DEF StreamInv, SentInv
    <3>2. Embeds(Received, text', Len(text'))
      BY <1>0, <1>1, <1>2, <3>1, EmbedsMore, SMTT(30)
    <3>. QED  BY <1>0, <2>0, <2>1, <3>2, Zenon DEF SentInv
  <2>. QED  BY <2>2, <2>3, <2>4, <2>5, Zenon DEF StreamInv
<1>4. CASE WriteChunk(c)
  <2>0. op = "none" /\ op' = "write" /\ phase = "blocks" /\ publishing /\ BlockIndex < MaxBlocks
    BY <1>4, Zenon DEF WriteChunk, BeginOp
  <2>1. todo' = IF blockStarted THEN <<Delta(BlockIndex, "text", c)>>
                ELSE <<BlockStart(BlockIndex, "text"), Delta(BlockIndex, "text", c)>>
    <3>1. todo' = Append(IF blockStarted THEN <<>> ELSE <<BlockStart(BlockIndex, "text")>>, Delta(BlockIndex, "text", c))
      BY <1>4, Zenon DEF WriteChunk, BeginOp
    <3>2. \A a, b : Append(<<>>, b) = <<b>> /\ Append(<<a>>, b) = <<a, b>>
      BY AppendFacts, Zenon
    <3>. QED  BY <3>1, <3>2, Zenon
  <2>2. StreamTypes'
    BY <1>0, <1>1, <2>0, Zenon DEF StreamInv, StreamTypes
  <2>3. TodoInv'
    BY <1>0, <1>1, <2>0, <2>1, Zenon DEF TodoInv
  <2>4. ReaderInv' /\ StartInv'
    BY <1>0, <2>0, Zenon DEF StreamInv, ReaderInv, StartInv
  <2>5. SentInv'
    <3>1. Embeds(Received, text, Len(text)) /\ Len(text) \in Int
      BY <1>1, <2>0, SMTT(30) DEF StreamInv, SentInv
    <3>2. Embeds(Received, text', Len(text))
      BY <1>0, <1>1, <1>2, <3>1, EmbedsMore, SMTT(30)
    <3>. QED  BY <1>0, <1>1, <2>0, <3>2, Zenon DEF SentInv
  <2>. QED  BY <2>2, <2>3, <2>4, <2>5, Zenon DEF StreamInv
<1>. QED  BY <1>3, <1>4, Zenon

(* The event that is published next.                                        *)
Due(e) ==
  /\ e \in Events
  /\ e.type = "delta" => LastStart(topic, e.index, e.kind)
  /\ e.type = "start" => ~blockStarted
  /\ e.type = "delta" /\ e.kind = "text" => op = "write" /\ text # <<>> /\ e.text = text[Len(text)]
  /\ op = "write" /\ blockStarted => e.type = "delta" /\ e.kind = "text"

(* Whatever is next fits the topic.                                         *)
LEMMA NextIsDue == StreamInv /\ op # "none" => Due(Head(todo))
<1>. SUFFICES ASSUME StreamInv, op # "none" PROVE Due(Head(todo))
  BY Zenon
<1>. USE TupleFacts
<1>0. BlockIndex \in Int /\ "none" \in Texts /\ blockStarted \in BOOLEAN
  BY DEF StreamInv, StreamTypes, Texts
<1>1. /\ \A t \in {"message_start", "ping", "message_delta", "message_stop"} :
           MessageEvent(t) \in Events /\ MessageEvent(t).type = t
      /\ \A k \in {"text"} \cup ToolKinds : BlockStart(BlockIndex, k) \in Events
      /\ \A k \in {"text"} \cup ToolKinds, c \in Texts : Delta(BlockIndex, k, c) \in Events
      /\ BlockStop(BlockIndex) \in Events
  BY <1>0, EventTypesHold, Zenon DEF MessageEvent
<1>2. /\ \A i, k : BlockStart(i, k).type = "start" /\ BlockStart(i, k).index = i /\ BlockStart(i, k).kind = k
      /\ \A i, k, c : /\ Delta(i, k, c).type = "delta" /\ Delta(i, k, c).index = i /\ Delta(i, k, c).kind = k
                      /\ Delta(i, k, c).text = c
      /\ \A i : BlockStop(i).type = "stop"
  BY Zenon DEF BlockStart, Delta, BlockStop
<1>3. CASE op = "preamble"
  <2>1. Head(todo) \in {MessageEvent("message_start"), MessageEvent("ping")}
    BY <1>3 DEF StreamInv, TodoInv, Opening
  <2>. QED  BY <1>1, <1>3, <2>1, Zenon DEF Due
<1>4. CASE op = "epilogue"
  <2>1. Head(todo) \in {MessageEvent("message_delta"), MessageEvent("message_stop")}
    BY <1>4 DEF StreamInv, TodoInv, Closing
  <2>. QED  BY <1>1, <1>4, <2>1, Zenon DEF Due
<1>5. CASE op = "close"
  <2>1. Head(todo) = BlockStop(BlockIndex)
    BY <1>5, Zenon DEF StreamInv, TodoInv
  <2>. QED  BY <1>1, <1>2, <1>5, <2>1, Zenon DEF Due
<1>6. CASE op = "write"
  <2>0. text # <<>> /\ phase = "blocks" /\ text[Len(text)] \in Texts
    <3>1. text # <<>> /\ phase = "blocks" /\ text \in Seq(Chunks)
      BY <1>6, Zenon DEF StreamInv, TodoInv, StreamTypes
    <3>2. text[Len(text)] \in Chunks
      BY <3>1, SMTT(30)
    <3>. QED  BY <3>1, <3>2, Zenon DEF Texts
  <2>1. CASE blockStarted
    <3>1. Head(todo) = Delta(BlockIndex, "text", text[Len(text)])
      BY <1>6, <2>1, Zenon DEF StreamInv, TodoInv
    <3>2. LastStart(topic, BlockIndex, "text")
      BY <2>0, <2>1, Zenon DEF StreamInv, StartInv
    <3>. QED  BY <1>1, <1>2, <1>6, <2>0, <2>1, <3>1, <3>2, SMTT(30) DEF Due
  <2>2. CASE ~blockStarted
    <3>1. Head(todo) = BlockStart(BlockIndex, "text")
      BY <1>6, <2>2, Zenon DEF StreamInv, TodoInv
    <3>. QED  BY <1>1, <1>2, <2>2, <3>1, SMTT(30) DEF Due
  <2>. QED  BY <2>1, <2>2, Zenon
<1>7. CASE op = "tool"
  <2>1. ~blockStarted
    BY <1>7, Zenon DEF StreamInv, TodoInv
  <2>2. PICK k \in ToolKinds :
          todo \in {<<BlockStart(BlockIndex, k), Delta(BlockIndex, k, "none"), BlockStop(BlockIndex)>>,
                    <<Delta(BlockIndex, k, "none"), BlockStop(BlockIndex)>>, <<BlockStop(BlockIndex)>>}
    BY <1>7, Zenon DEF StreamInv, TodoInv
  <2>3. k # "text" /\ k \in {"text"} \cup ToolKinds
    BY Zenon DEF ToolKinds
  <2>4. CASE todo = <<BlockStart(BlockIndex, k), Delta(BlockIndex, k, "none"), BlockStop(BlockIndex)>>
    BY <1>1, <1>2, <1>7, <2>1, <2>3, <2>4, SMTT(30) DEF Due
  <2>5. CASE todo = <<Delta(BlockIndex, k, "none"), BlockStop(BlockIndex)>>
    <3>1. Head(todo) = Delta(BlockIndex, k, "none") /\ todo[1] = Delta(BlockIndex, k, "none") /\ Len(todo) = 2
      BY <2>5, Zenon
    <3>2. LastStart(topic, BlockIndex, k)
      BY <1>2, <1>7, <3>1, SMTT(30) DEF StreamInv, StartInv
    <3>. QED  BY <1>0, <1>1, <1>2, <1>7, <2>1, <2>3, <3>1, <3>2, SMTT(30) DEF Due
  <2>6. CASE todo = <<BlockStop(BlockIndex)>>
    BY <1>1, <1>2, <1>7, <2>1, <2>6, SMTT(30) DEF Due
  <2>. QED  BY <2>2, <2>4, <2>5, <2>6, Zenon
<1>. QED  BY <1>3, <1>4, <1>5, <1>6, <1>7, Zenon DEF StreamInv, TodoInv

(* An event that is stored, whether or not Publish reports it: it fits what *)
(* is on the topic, and of the text a reader is sent no more than there is. *)
LEMMA StoreNext ==
  ASSUME StreamInv, op # "none", topic' = Append(topic, Head(todo)), text' = text
  PROVE  /\ topic' \in Seq(Events) /\ AllDeltas(topic')
         /\ reader' = Reads(reader, Head(todo))
         /\ Embeds(Received', text', Len(text'))
         /\ Head(todo).type = "start" => Received' = Received
<1>. DEFINE e == Head(todo)
<1>1. Due(e)
  BY NextIsDue, Zenon
<1>. HIDE DEF e
<1>2. topic \in Seq(Events) /\ e \in Events /\ topic' = Append(topic, e)
  BY <1>1, Zenon DEF StreamInv, StreamTypes, Due, e
<1>3. topic' \in Seq(Events)
  BY <1>2
<1>4. AllDeltas(topic')
  BY <1>1, <1>2, DeltasKept, Zenon DEF StreamInv, StartInv, Due
<1>5. reader' = Reads(reader, e) /\ Received' = Receives(Received, e)
  BY <1>2, TopicGrows, Zenon DEF reader, Received, Start
<1>6. Received \in Seq(Texts) /\ text \in Seq(Chunks)
  BY ReceivedType, Zenon DEF StreamInv, StreamTypes
<1>7. Embeds(Received', text, Len(text))
  <2>1. CASE e.type = "delta" /\ e.kind = "text"
    <3>1. Received' = Append(Received, text[Len(text)])
      BY <1>1, <1>5, <2>1, Zenon DEF Receives, Due
    <3>2. Embeds(Received, text, Len(text) - 1) /\ text # <<>>
      BY <1>1, <2>1, Zenon DEF StreamInv, SentInv, Due
    <3>. QED  BY <1>6, <3>1, <3>2, EmbedsLast, Zenon
  <2>2. CASE ~(e.type = "delta" /\ e.kind = "text")
    <3>1. Received' = Received
      BY <1>5, <2>2, Zenon DEF Receives
    <3>. DEFINE n == IF op = "write" THEN Len(text) - 1 ELSE Len(text)
    <3>2. n \in Int /\ n <= Len(text) /\ Embeds(Received, text, n)
      BY <1>6 DEF StreamInv, SentInv
    <3>. HIDE DEF n
    <3>. QED  BY <1>6, <3>1, <3>2, EmbedsMore, Zenon
  <2>. QED  BY <2>1, <2>2, Zenon
<1>8. e.type = "start" => Received' = Received
  BY <1>5, Zenon DEF Receives
<1>. QED  BY <1>3, <1>4, <1>5, <1>7, <1>8, Zenon DEF e

(* Publish fails, and the operation with it.                                *)
LEMMA FailsNext == ASSUME StreamInv, PublishFails PROVE StreamInv'
<1>0. /\ op # "none" /\ op' = "none" /\ todo' = <<>> /\ UNCHANGED <<publishing, text, BlockIndex, blockStarted>>
      /\ phase' = IF op \in {"write", "close"} THEN phase ELSE "gaveup"
  BY Zenon DEF PublishFails, streamer
<1>1. \/ topic' = topic /\ late' = late
      \/ topic' = Append(topic, Head(todo)) /\ late' = TRUE
  BY Zenon DEF PublishFails
<1>2. Due(Head(todo))
  BY <1>0, NextIsDue, Zenon
<1>3. topic' \in Seq(Events) /\ AllDeltas(topic') /\ late' \in BOOLEAN
  <2>1. CASE topic' = topic /\ late' = late
    BY <2>1, Zenon DEF StreamInv, StreamTypes, StartInv
  <2>2. CASE topic' = Append(topic, Head(todo)) /\ late' = TRUE
    BY <1>0, <2>2, StoreNext, Zenon
  <2>. QED  BY <1>1, <2>1, <2>2, Zenon
<1>4. Embeds(Received', text', Len(text'))
  <2>1. CASE topic' = topic
    <3>1. Received' = Received /\ Received \in Seq(Texts) /\ text \in Seq(Chunks)
      BY <2>1, SameTopic, ReceivedType, Zenon DEF StreamInv, StreamTypes
    <3>. DEFINE n == IF op = "write" THEN Len(text) - 1 ELSE Len(text)
    <3>2. n \in Int /\ n <= Len(text) /\ Embeds(Received, text, n)
      BY <3>1 DEF StreamInv, SentInv
    <3>. HIDE DEF n
    <3>. QED  BY <1>0, <3>1, <3>2, EmbedsMore, Zenon
  <2>2. CASE topic' = Append(topic, Head(todo))
    BY <1>0, <2>2, StoreNext, Zenon
  <2>. QED  BY <1>1, <2>1, <2>2, Zenon
<1>5. StreamTypes'
  BY <1>0, <1>3, Zenon DEF StreamInv, StreamTypes
<1>6. TodoInv' /\ SentInv'
  BY <1>0, <1>4, Zenon DEF TodoInv, SentInv
<1>7. StartInv'
  <2>1. ASSUME phase' = "blocks", blockStarted PROVE LastStart(topic', BlockIndex, "text")
    <3>1. op \in {"write", "close"} /\ phase = "blocks" /\ LastStart(topic, BlockIndex, "text")
      BY <1>0, <2>1, Zenon DEF StreamInv, StartInv
    <3>2. Head(todo).type # "start"
      BY <1>2, <2>1, Zenon DEF Due
    <3>3. topic \in Seq(Events) /\ Head(todo) \in Events
      BY <1>2, Zenon DEF StreamInv, StreamTypes, Due
    <3>. QED  BY <1>1, <3>1, <3>2, <3>3, LastStartKept, ZenonT(30)
  <2>. QED  BY <1>0, <1>3, <2>1, Zenon DEF StartInv
<1>8. ReaderInv'
  <2>1. SUFFICES ASSUME ~late' PROVE ReaderInv'
    BY Zenon DEF ReaderInv
  <2>2. ~late /\ reader' = reader
    BY <1>1, <2>1, SameTopic, SMTT(30)
  <2>3. phase' # "new" /\ phase' # "ended"
    BY <1>0, Zenon DEF StreamInv, TodoInv
  <2>4. phase' = "blocks" => phase = "blocks" /\ op \in {"write", "close"}
    BY <1>0, Zenon
  <2>5. op = "close" => blockStarted
    BY ZenonT(30) DEF StreamInv, TodoInv
  <2>. QED  BY <1>0, <2>2, <2>3, <2>4, <2>5, ZenonT(30) DEF StreamInv, ReaderInv
<1>. QED  BY <1>5, <1>6, <1>7, <1>8, Zenon DEF StreamInv

(* How a reader takes each event of an operation.                           *)
LEMMA ReaderSteps ==
  ASSUME NEW i \in Nat, NEW k \in {"text"} \cup ToolKinds, NEW c
  PROVE  /\ Reads(Start, MessageEvent("message_start")) = Reading("blocks", 0, "none")
         /\ Reads(Reading("blocks", 0, "none"), MessageEvent("ping")) = Reading("blocks", 0, "none")
         /\ Reads(Reading("blocks", i, "none"), BlockStart(i, k)) = Reading("block", i, k)
         /\ Reads(Reading("block", i, k), Delta(i, k, c)) = Reading("block", i, k)
         /\ Reads(Reading("block", i, k), BlockStop(i)) = Reading("blocks", i + 1, "none")
<1>. USE DEF Reads, Reading
<1>1. Reads(Start, MessageEvent("message_start")) = Reading("blocks", 0, "none")
  BY Zenon DEF Start, MessageEvent
<1>2. Reads(Reading("blocks", 0, "none"), MessageEvent("ping")) = Reading("blocks", 0, "none")
  BY Zenon DEF MessageEvent
<1>3. Reads(Reading("blocks", i, "none"), BlockStart(i, k)) = Reading("block", i, k)
  BY Zenon DEF BlockStart
<1>4. Reads(Reading("block", i, k), Delta(i, k, c)) = Reading("block", i, k)
  BY Zenon DEF Delta
<1>5. Reads(Reading("block", i, k), BlockStop(i)) = Reading("blocks", i + 1, "none")
  BY Zenon DEF BlockStop
<1>. QED  BY <1>1, <1>2, <1>3, <1>4, <1>5, SMTT(30)

(* Where a reader that is in or between blocks is.                          *)
LEMMA ReadingAt == \A a, i, k : Reading(a, i, k).at = a
BY Zenon DEF Reading

(* How it takes the end of the message.                                     *)
LEMMA ReaderEnds ==
  ASSUME NEW r \in Readers
  PROVE  /\ r.at = "blocks" => Reads(r, MessageEvent("message_delta")).at = "delta"
         /\ r.at = "delta" => Reads(r, MessageEvent("message_stop")).at = "stop"
<1>1. r = [at |-> r.at, index |-> r.index, kind |-> r.kind]
  BY Zenon DEF Readers
<1>2. \A a : [r EXCEPT !.at = a].at = a
  BY <1>1, Zenon
<1>. QED  BY <1>2, Zenon DEF Reads, MessageEvent

(* Publish succeeds: what every operation has in common.                    *)
LEMMA OkCommon ==
  ASSUME StreamInv, PublishOk
  PROVE  StreamTypes' /\ SentInv' /\ AllDeltas(topic') /\ reader' = Reads(reader, Head(todo)) /\ late' = late
<1>. USE TupleFacts
<1>0. /\ op # "none" /\ topic' = Append(topic, Head(todo)) /\ UNCHANGED <<publishing, text, late>>
      /\ op' \in {"none", op}
  BY Zenon DEF PublishOk
<1>1. /\ topic' \in Seq(Events) /\ AllDeltas(topic') /\ reader' = Reads(reader, Head(todo))
      /\ Embeds(Received', text', Len(text')) /\ (Head(todo).type = "start" => Received' = Received)
  BY <1>0, StoreNext, Zenon
<1>2. SentInv'
  <2>1. CASE op' = "write"
    <3>1. op = "write" /\ Len(todo) # 1
      BY <2>1, Zenon DEF PublishOk
    <3>2. Head(todo) = BlockStart(BlockIndex, "text")
      BY <3>1, Zenon DEF StreamInv, TodoInv
    <3>3. Received' = Received
      BY <1>1, <3>2 DEF BlockStart
    <3>. QED  BY <1>0, <2>1, <3>1, <3>3, Zenon DEF StreamInv, SentInv
  <2>2. CASE op' # "write"
    BY <1>1, <2>2, Zenon DEF SentInv
  <2>. QED  BY <2>1, <2>2, Zenon
<1>3. BlockIndex' \in Nat /\ BlockIndex' <= MaxBlocks /\ (op' \in {"write", "close", "tool"} => BlockIndex' < MaxBlocks)
  <2>1. BlockIndex \in Nat /\ BlockIndex <= MaxBlocks /\ (op \in {"write", "close", "tool"} => BlockIndex < MaxBlocks)
    BY Zenon DEF StreamInv, StreamTypes
  <2>2. CASE op \in {"close", "tool"} /\ Len(todo) = 1
    <3>1. BlockIndex' = BlockIndex + 1 /\ op' = "none"
      BY <2>2, Zenon DEF PublishOk
    <3>. QED  BY <2>1, <2>2, <3>1, StreamerAssumption, SMTT(30)
  <2>3. CASE ~(op \in {"close", "tool"} /\ Len(todo) = 1)
    <3>1. BlockIndex' = BlockIndex
      BY <2>3, Zenon DEF PublishOk
    <3>. QED  BY <1>0, <2>1, <3>1, Zenon
  <2>. QED  BY <2>2, <2>3, Zenon
<1>4. blockStarted' \in BOOLEAN /\ (blockStarted' => publishing' /\ BlockIndex' < MaxBlocks)
  <2>1. CASE op = "write"
    <3>1. publishing /\ BlockIndex' = BlockIndex /\ BlockIndex < MaxBlocks
      BY <2>1, Zenon DEF PublishOk, StreamInv, StreamTypes, TodoInv
    <3>. QED  BY <1>0, <2>1, <3>1, SMTT(30) DEF PublishOk
  <2>2. CASE op # "write"
    <3>1. blockStarted' => blockStarted /\ op # "close"
      BY <2>2, Zenon DEF PublishOk
    <3>2. blockStarted' => op # "tool"
      BY <3>1, Zenon DEF StreamInv, TodoInv
    <3>3. blockStarted' => BlockIndex' = BlockIndex
      BY <3>1, <3>2, Zenon DEF PublishOk
    <3>4. blockStarted' \in BOOLEAN
      BY Zenon DEF PublishOk
    <3>. QED  BY <1>0, <3>1, <3>3, <3>4, Zenon DEF StreamInv, StreamTypes
  <2>. QED  BY <2>1, <2>2, Zenon
<1>5. phase' \in {"new", "blocks", "ended", "gaveup"} /\ (phase' = "new" => BlockIndex' = 0 /\ ~blockStarted')
  <2>1. CASE op = "preamble"
    <3>1. phase = "new" /\ ~blockStarted /\ BlockIndex = 0
      BY <2>1, Zenon DEF StreamInv, StreamTypes, TodoInv
    <3>. QED  BY <2>1, <3>1, Zenon DEF PublishOk
  <2>2. CASE op # "preamble"
    <3>1. phase = "blocks"
      BY <1>0, <2>2, Zenon DEF StreamInv, TodoInv
    <3>. QED  BY <2>2, <3>1, Zenon DEF PublishOk
  <2>. QED  BY <2>1, <2>2, Zenon
<1>6. StreamTypes'
  BY <1>0, <1>1, <1>3, <1>4, <1>5, ZenonT(30) DEF StreamInv, StreamTypes
<1>. QED  BY <1>0, <1>1, <1>2, <1>6, ZenonT(30)

(* The part of the invariant that depends on the operation, after a step.   *)
Follows == TodoInv' /\ ReaderInv' /\ (phase' = "blocks" /\ blockStarted' => LastStart(topic', BlockIndex', "text"))
           /\ (op' = "tool" /\ Len(todo') = 2 => LastStart(topic', BlockIndex', todo'[1].kind))

(* Between two blocks.                                                      *)
LEMMA BetweenBlocks ==
  ASSUME phase' = "blocks", op' = "none", ~blockStarted',
         ~late' => reader' = Reading("blocks", BlockIndex', "none")
  PROVE  ReaderInv'
<1>. SUFFICES ASSUME ~late' PROVE ReaderInv'
  BY Zenon DEF ReaderInv
<1>1. reader' = Reading("blocks", BlockIndex', "none") /\ reader'.at = "blocks"
  BY ReadingAt, Zenon
<1>. QED  BY <1>1, Zenon DEF ReaderInv

(* In a block of text.                                                      *)
LEMMA InTextBlock ==
  ASSUME phase' = "blocks", op' \in {"none", "write"}, blockStarted',
         ~late' => reader' = Reading("block", BlockIndex', "text")
  PROVE  ReaderInv'
<1>. SUFFICES ASSUME ~late' PROVE ReaderInv'
  BY Zenon DEF ReaderInv
<1>1. reader' = Reading("block", BlockIndex', "text") /\ reader'.at = "block"
  BY ReadingAt, SMTT(30)
<1>. QED  BY <1>1, Zenon DEF ReaderInv

(* In a tool block.                                                         *)
LEMMA InToolBlock ==
  ASSUME phase' = "blocks", op' = "tool", ~blockStarted', NEW k \in ToolKinds,
         ~late' => reader' = Reading("block", BlockIndex', k),
         Len(todo') = 1 \/ (Len(todo') = 2 /\ todo'[1].kind = k)
  PROVE  ReaderInv'
<1>. SUFFICES ASSUME ~late' PROVE ReaderInv'
  BY Zenon DEF ReaderInv
<1>1. reader' = Reading("block", BlockIndex', k) /\ reader'.at = "block"
  BY ReadingAt
<1>. QED  BY <1>1 DEF ReaderInv

(* Publish succeeds for the preamble.                                       *)
LEMMA OkPreamble == ASSUME StreamInv, PublishOk, op = "preamble" PROVE Follows
<1>. USE TupleFacts
<1>0. /\ phase = "new" /\ ~blockStarted /\ todo \in {Opening, <<MessageEvent("ping")>>} /\ BlockIndex = 0
      /\ reader' = Reads(reader, Head(todo)) /\ late' = late /\ ~blockStarted' /\ BlockIndex' = BlockIndex
  BY OkCommon, Zenon DEF StreamInv, TodoInv, StreamTypes, PublishOk
<1>a. ~blockStarted' /\ BlockIndex' = 0
  BY <1>0, Zenon
<1>1. CASE todo = Opening
  <2>1. todo' = <<MessageEvent("ping")>> /\ op' = "preamble" /\ phase' = "new" /\ Len(todo') = 1 /\ Len(todo) = 2
        /\ Head(todo) = MessageEvent("message_start")
    BY <1>0, <1>1 DEF PublishOk, Opening
  <2>2. ~late' => reader' = Reading("blocks", 0, "none")
    <3>1. ~late => reader = Start
      BY <2>1, Zenon DEF StreamInv, ReaderInv
    <3>. QED  BY <1>0, <2>1, <3>1, ReaderSteps, ZenonT(30)
  <2>3. ReaderInv'
    <3>1. op' = "preamble" /\ phase' = "new" /\ Len(todo') # 2
      BY <2>1
    <3>2. ~late' => reader' = Reading("blocks", 0, "none") /\ reader'.at = "blocks"
      BY <2>2, ReadingAt
    <3>. HIDE TupleFacts
    <3>. QED  BY <1>a, <3>1, <3>2, ZenonT(30) DEF ReaderInv
  <2>4. TodoInv'
    BY <1>0, <2>1, ZenonT(30) DEF TodoInv
  <2>. QED  BY <2>1, <2>3, <2>4, ZenonT(30) DEF Follows
<1>2. CASE todo = <<MessageEvent("ping")>>
  <2>1. todo' = <<>> /\ op' = "none" /\ phase' = "blocks" /\ Len(todo) = 1 /\ Head(todo) = MessageEvent("ping")
    BY <1>0, <1>2, Zenon DEF PublishOk
  <2>2. ~late' => reader' = Reading("blocks", 0, "none")
    <3>1. ~late => reader = Reading("blocks", 0, "none")
      BY <2>1 DEF StreamInv, ReaderInv
    <3>. QED  BY <1>0, <2>1, <3>1, ReaderSteps, ZenonT(30)
  <2>3. ReaderInv'
    BY <1>a, <2>1, <2>2, BetweenBlocks, ZenonT(30)
  <2>4. TodoInv'
    BY <2>1, Zenon DEF TodoInv
  <2>. QED  BY <1>0, <2>1, <2>3, <2>4, ZenonT(30) DEF Follows
<1>. QED  BY <1>0, <1>1, <1>2, Zenon

(* Publish succeeds for a chunk of text: its block is open from then on.    *)
LEMMA OkWrite == ASSUME StreamInv, PublishOk, op = "write" PROVE Follows
<1>. USE TupleFacts
<1>. DEFINE c == text[Len(text)]
<1>0. /\ phase = "blocks" /\ publishing /\ text # <<>> /\ UNCHANGED <<publishing, text>>
      /\ reader' = Reads(reader, Head(todo)) /\ late' = late /\ blockStarted' /\ BlockIndex' = BlockIndex
      /\ BlockIndex \in Nat /\ phase' = "blocks" /\ topic' = Append(topic, Head(todo)) /\ topic \in Seq(Events)
      /\ todo' = Tail(todo) /\ op' = (IF Len(todo) = 1 THEN "none" ELSE op)
      /\ todo = IF blockStarted THEN <<Delta(BlockIndex, "text", c)>>
                ELSE <<BlockStart(BlockIndex, "text"), Delta(BlockIndex, "text", c)>>
  BY OkCommon, Zenon DEF StreamInv, TodoInv, StreamTypes, PublishOk
<1>1. Due(Head(todo)) /\ Head(todo) \in Events
  BY NextIsDue, Zenon DEF Due
<1>. HIDE DEF c
<1>2. LastStart(topic', BlockIndex, "text")
  <2>1. CASE blockStarted
    <3>1. LastStart(topic, BlockIndex, "text") /\ Head(todo).type # "start"
      BY <1>0, <1>1, <2>1, Zenon DEF StreamInv, StartInv, Due
    <3>. QED  BY <1>0, <1>1, <3>1, LastStartKept, Zenon
  <2>2. CASE ~blockStarted
    <3>1. Head(todo) = BlockStart(BlockIndex, "text")
      BY <1>0, <2>2, ZenonT(30)
    <3>2. Head(todo).type = "start" /\ Head(todo).index = BlockIndex /\ Head(todo).kind = "text"
      BY <3>1 DEF BlockStart
    <3>. QED  BY <1>0, <1>1, <3>2, LastStartKept, Zenon
  <2>. QED  BY <2>1, <2>2, Zenon
<1>3. ~late' => reader' = Reading("block", BlockIndex, "text")
  <2>1. CASE blockStarted
    <3>1. ~late => reader = Reading("block", BlockIndex, "text")
      BY <1>0, <2>1, Zenon DEF StreamInv, ReaderInv
    <3>. QED  BY <1>0, <2>1, <3>1, ReaderSteps, SMTT(30)
  <2>2. CASE ~blockStarted
    <3>1. ~late => reader = Reading("blocks", BlockIndex, "none")
      BY <1>0, <2>2, Zenon DEF StreamInv, ReaderInv
    <3>. QED  BY <1>0, <2>2, <3>1, ReaderSteps, Zenon
  <2>. QED  BY <2>1, <2>2, ZenonT(30)
<1>4. op' \in {"none", "write"} /\ TodoInv'
  <2>1. CASE blockStarted
    <3>1. todo' = <<>> /\ op' = "none"
      BY <1>0, <2>1, Zenon
    <3>. QED  BY <3>1, Zenon DEF TodoInv
  <2>2. CASE ~blockStarted
    <3>1. todo' = <<Delta(BlockIndex, "text", c)>> /\ op' = "write"
      BY <1>0, <2>2, SMTT(30)
    <3>2. c = text'[Len(text')]
      BY <1>0, Zenon DEF c
    <3>. QED  BY <1>0, <3>1, <3>2, ZenonT(30) DEF TodoInv
  <2>. QED  BY <2>1, <2>2, Zenon
<1>5. ReaderInv'
  BY <1>0, <1>3, <1>4, InTextBlock, ZenonT(30)
<1>. QED  BY <1>0, <1>2, <1>4, <1>5, ZenonT(30) DEF Follows

(* Publish succeeds for the stop of a text block, which moves on the index. *)
LEMMA OkClose == ASSUME StreamInv, PublishOk, op = "close" PROVE Follows
<1>. USE TupleFacts
<1>0. /\ phase = "blocks" /\ blockStarted /\ todo = <<BlockStop(BlockIndex)>> /\ phase' = "blocks"
      /\ reader' = Reads(reader, Head(todo)) /\ late' = late /\ ~blockStarted' /\ BlockIndex' = BlockIndex + 1
      /\ BlockIndex \in Nat /\ todo' = <<>> /\ op' = "none" /\ Head(todo) = BlockStop(BlockIndex)
  BY OkCommon, Zenon DEF StreamInv, TodoInv, StreamTypes, PublishOk
<1>1. ~late' => reader' = Reading("blocks", BlockIndex', "none")
  <2>1. ~late => reader = Reading("block", BlockIndex, "text")
    BY <1>0, Zenon DEF StreamInv, ReaderInv
  <2>. QED  BY <1>0, <2>1, ReaderSteps, Zenon
<1>2. ReaderInv'
  BY <1>0, <1>1, BetweenBlocks, Zenon
<1>3. TodoInv'
  BY <1>0, Zenon DEF TodoInv
<1>. QED  BY <1>0, <1>2, <1>3, Zenon DEF Follows

(* Publish succeeds for an event of a tool block.                           *)
LEMMA OkTool == ASSUME StreamInv, PublishOk, op = "tool" PROVE Follows
<1>. USE TupleFacts
<1>0. /\ phase = "blocks" /\ ~blockStarted /\ phase' = "blocks"
      /\ reader' = Reads(reader, Head(todo)) /\ late' = late /\ ~blockStarted'
      /\ BlockIndex' = (IF Len(todo) = 1 THEN BlockIndex + 1 ELSE BlockIndex)
      /\ BlockIndex \in Nat /\ topic' = Append(topic, Head(todo)) /\ topic \in Seq(Events)
      /\ todo' = Tail(todo) /\ op' = (IF Len(todo) = 1 THEN "none" ELSE op)
  BY OkCommon, Zenon DEF StreamInv, TodoInv, StreamTypes, PublishOk
<1>1. PICK k \in ToolKinds :
        todo \in {<<BlockStart(BlockIndex, k), Delta(BlockIndex, k, "none"), BlockStop(BlockIndex)>>,
                  <<Delta(BlockIndex, k, "none"), BlockStop(BlockIndex)>>, <<BlockStop(BlockIndex)>>}
  BY Zenon DEF StreamInv, TodoInv
<1>2. Head(todo) \in Events
  BY NextIsDue, Zenon DEF Due
<1>3. CASE todo = <<BlockStart(BlockIndex, k), Delta(BlockIndex, k, "none"), BlockStop(BlockIndex)>>
  <2>1. /\ todo' = <<Delta(BlockIndex, k, "none"), BlockStop(BlockIndex)>> /\ op' = "tool" /\ BlockIndex' = BlockIndex
        /\ Head(todo) = BlockStart(BlockIndex, k) /\ Len(todo) = 3 /\ Len(todo') = 2 /\ todo'[1] = Delta(BlockIndex, k, "none")
    BY <1>0, <1>3, SMTT(30)
  <2>2. todo'[1].kind = k
    BY <2>1, Zenon DEF Delta
  <2>3. LastStart(topic', BlockIndex, k)
    <3>1. Head(todo).type = "start" /\ Head(todo).index = BlockIndex /\ Head(todo).kind = k
      BY <2>1, SMTT(30) DEF BlockStart
    <3>. QED  BY <1>0, <1>2, <3>1, LastStartKept, ZenonT(30)
  <2>4. ~late' => reader' = Reading("block", BlockIndex, k)
    <3>1. ~late => reader = Reading("blocks", BlockIndex, "none")
      BY <2>1, Zenon DEF StreamInv, ReaderInv
    <3>. QED  BY <1>0, <2>1, <3>1, ReaderSteps, ZenonT(30)
  <2>5. ReaderInv'
    BY <1>0, <2>1, <2>2, <2>4, InToolBlock, ZenonT(30)
  <2>6. TodoInv'
    BY <1>0, <2>1, Zenon DEF TodoInv
  <2>. QED  BY <1>0, <2>1, <2>2, <2>3, <2>5, <2>6, ZenonT(30) DEF Follows
<1>4. CASE todo = <<Delta(BlockIndex, k, "none"), BlockStop(BlockIndex)>>
  <2>1. /\ todo' = <<BlockStop(BlockIndex)>> /\ op' = "tool" /\ BlockIndex' = BlockIndex /\ Len(todo') = 1
        /\ Head(todo) = Delta(BlockIndex, k, "none") /\ todo[1] = Delta(BlockIndex, k, "none") /\ Len(todo) = 2
    BY <1>0, <1>4, SMTT(30)
  <2>2. ~late' => reader' = Reading("block", BlockIndex, k)
    <3>1. todo[1].kind = k
      BY <2>1 DEF Delta
    <3>2. ~late => reader = Reading("block", BlockIndex, k)
      BY <2>1, <3>1, Zenon DEF StreamInv, ReaderInv
    <3>. QED  BY <1>0, <2>1, <3>2, ReaderSteps, ZenonT(30)
  <2>3. ReaderInv'
    BY <1>0, <2>1, <2>2, InToolBlock, Zenon
  <2>4. TodoInv'
    BY <1>0, <2>1, Zenon DEF TodoInv
  <2>. QED  BY <1>0, <2>1, <2>3, <2>4, ZenonT(30) DEF Follows
<1>5. CASE todo = <<BlockStop(BlockIndex)>>
  <2>1. /\ todo' = <<>> /\ op' = "none" /\ BlockIndex' = BlockIndex + 1 /\ Head(todo) = BlockStop(BlockIndex) /\ Len(todo) = 1
    BY <1>0, <1>5, ZenonT(30)
  <2>2. ~late' => reader' = Reading("blocks", BlockIndex', "none")
    <3>1. ~late => \E j \in ToolKinds : reader = Reading("block", BlockIndex, j)
      BY <2>1, Zenon DEF StreamInv, ReaderInv
    <3>. QED  BY <1>0, <2>1, <3>1, ReaderSteps, ZenonT(30)
  <2>3. ReaderInv'
    BY <1>0, <2>1, <2>2, BetweenBlocks, ZenonT(30)
  <2>4. TodoInv'
    BY <2>1, Zenon DEF TodoInv
  <2>. QED  BY <1>0, <2>1, <2>3, <2>4, ZenonT(30) DEF Follows
<1>. QED  BY <1>1, <1>3, <1>4, <1>5, ZenonT(30)

(* Publish succeeds for the epilogue.                                       *)
LEMMA OkEpilogue == ASSUME StreamInv, PublishOk, op = "epilogue" PROVE Follows
<1>. USE TupleFacts
<1>0. /\ phase = "blocks" /\ ~blockStarted /\ todo \in {Closing, <<MessageEvent("message_stop")>>}
      /\ reader' = Reads(reader, Head(todo)) /\ late' = late /\ ~blockStarted' /\ reader \in Readers
  BY OkCommon, ReceivedType, ZenonT(30) DEF StreamInv, TodoInv, PublishOk
<1>1. CASE todo = Closing
  <2>1. /\ todo' = <<MessageEvent("message_stop")>> /\ op' = "epilogue" /\ phase' = "blocks" /\ Len(todo') = 1 /\ Len(todo) = 2
        /\ Head(todo) = MessageEvent("message_delta")
    BY <1>0, <1>1, SMTT(30) DEF PublishOk, Closing
  <2>2. ~late' => reader'.at = "delta"
    <3>1. ~late => reader.at = "blocks"
      BY <2>1, Zenon DEF StreamInv, ReaderInv
    <3>. QED  BY <1>0, <2>1, <3>1, ReaderEnds, ZenonT(30)
  <2>3. ReaderInv'
    BY <1>0, <2>1, <2>2, SMTT(30) DEF ReaderInv
  <2>4. TodoInv'
    BY <1>0, <2>1, Zenon DEF TodoInv
  <2>. QED  BY <1>0, <2>1, <2>3, <2>4, ZenonT(30) DEF Follows
<1>2. CASE todo = <<MessageEvent("message_stop")>>
  <2>1. todo' = <<>> /\ op' = "none" /\ phase' = "ended" /\ Len(todo) = 1 /\ Head(todo) = MessageEvent("message_stop")
    BY <1>0, <1>2, Zenon DEF PublishOk
  <2>2. ~late' => reader'.at = "stop"
    <3>1. ~late => reader.at = "delta"
      BY <2>1 DEF StreamInv, ReaderInv
    <3>. QED  BY <1>0, <2>1, <3>1, ReaderEnds, ZenonT(30)
  <2>3. ReaderInv'
    BY <1>0, <2>1, <2>2, Zenon DEF ReaderInv
  <2>4. TodoInv'
    BY <2>1, Zenon DEF TodoInv
  <2>. QED  BY <2>1, <2>3, <2>4, Zenon DEF Follows
<1>. QED  BY <1>0, <1>1, <1>2, Zenon

(* Every step of the streamer and its caller keeps the invariant.           *)
LEMMA StreamInvNext == ASSUME StreamInv, [StreamNext]_streamVars PROVE StreamInv'
<1>1. CASE PublishOk
  <2>1. Follows
    BY <1>1, OkPreamble, OkWrite, OkClose, OkTool, OkEpilogue, ZenonT(30) DEF PublishOk, StreamInv, TodoInv
  <2>. QED  BY <1>1, <2>1, OkCommon, Zenon DEF Follows, StreamInv, StartInv
<1>2. CASE PublishFails
  BY <1>2, FailsNext, Zenon
<1>3. CASE \E c \in Chunks : Accumulate(c) \/ WriteChunk(c)
  BY <1>3, WritesNext, Zenon
<1>4. CASE SendStreamPreamble \/ CloseBlock \/ SendStreamEpilogue
  BY <1>4, BeginsNext, Zenon DEF SendStreamPreamble, CloseBlock, SendStreamEpilogue
<1>5. CASE SendToolUseBlock \/ SendToolResultBlock
  <2>1. PICK k \in ToolKinds : ToolBlock(<<BlockStart(BlockIndex, k), Delta(BlockIndex, k, "none")>>)
    BY <1>5, Zenon DEF SendToolUseBlock, SendToolResultBlock, ToolUse, ToolResult, ToolKinds
  <2>2. BeginOp("tool", <<BlockStart(BlockIndex, k), Delta(BlockIndex, k, "none"), BlockStop(BlockIndex)>>)
    BY <2>1, AppendFacts, Zenon DEF ToolBlock
  <2>. QED  BY <2>1, <2>2, BeginsNext, Zenon DEF ToolBlock
<1>6. CASE UNCHANGED streamVars
  <2>0. UNCHANGED <<publishing, text, BlockIndex, blockStarted, phase, op, todo, topic, late>> /\ reader' = reader /\ Received' = Received
    BY <1>6, SameTopic, Zenon DEF streamVars
  <2>1. StreamTypes'
    BY <2>0, Zenon DEF StreamInv, StreamTypes
  <2>2. TodoInv'
    BY <2>0, ZenonT(30) DEF StreamInv, TodoInv
  <2>3. ReaderInv' /\ StartInv' /\ SentInv'
    BY <2>0 DEF StreamInv, ReaderInv, StartInv, SentInv
  <2>. QED  BY <2>1, <2>2, <2>3, Zenon DEF StreamInv
<1>. QED  BY <1>1, <1>2, <1>3, <1>4, <1>5, <1>6, ZenonT(30) DEF StreamNext

(* The invariant holds in every reachable state.                            *)
LEMMA StreamInvHolds == StreamSpec => []StreamInv
BY StreamInvInit, StreamInvNext, PTL DEF StreamSpec

(* Types of the streamer and of its caller; without a publisher no block is *)
(* ever open.                                                               *)
THEOREM StreamTypeCorrect == StreamSpec => []StreamTypeOK
<1>1. StreamInv => StreamTypeOK
  <2>. SUFFICES ASSUME StreamInv PROVE StreamTypeOK
    BY Zenon
  <2>1. BlockIndex \in 0..MaxBlocks
    BY StreamerAssumption DEF StreamInv, StreamTypes
  <2>2. op \in {"none", "preamble", "write", "close", "tool", "epilogue"}
    BY Zenon DEF StreamInv, TodoInv
  <2>3. op # "none" => todo # <<>>
    <3>1. Opening # <<>> /\ Closing # <<>>
      BY Zenon DEF Opening, Closing
    <3>. QED  BY <3>1 DEF StreamInv, TodoInv
  <2>4. (op = "none") = (todo = <<>>)
    BY <2>3, Zenon DEF StreamInv, TodoInv
  <2>. QED  BY <2>1, <2>2, <2>4, Zenon DEF StreamInv, StreamTypes, StreamTypeOK
<1>. QED  BY <1>1, StreamInvHolds, PTL

(* However Publish fails, the topic holds a message a reader can follow,    *)
(* and every delta follows the start of its block.                          *)
THEOREM ReadableHolds == StreamSpec => []Readable
<1>1. StreamInv => Readable
  <2>. SUFFICES ASSUME StreamInv PROVE Readable
    BY Zenon
  <2>1. \A d \in DOMAIN topic : topic[d].type = "delta" => DeltaAfterStart(d)
    <3>1. DOMAIN topic = 1..Len(topic) /\ AllDeltas(topic)
      BY SMTT(30) DEF StreamInv, StreamTypes, StartInv
    <3>. QED  BY <3>1, SMTT(30) DEF AllDeltas, DeltaAfterStart
  <2>. QED  BY <2>1, ZenonT(30) DEF StreamInv, ReaderInv, Readable
<1>. QED  BY <1>1, StreamInvHolds, PTL

(* Text() has all the text a reader was sent, in that order, whatever       *)
(* failed: WriteChunk accumulates before it publishes.                      *)
THEOREM TextHasReceivedHolds == StreamSpec => []TextHasReceived
<1>1. StreamInv => TextHasReceived
  <2>. SUFFICES ASSUME StreamInv PROVE TextHasReceived
    BY Zenon
  <2>1. Received \in Seq(Texts) /\ text \in Seq(Chunks)
    BY ReceivedType, Zenon DEF StreamInv, StreamTypes
  <2>2. DOMAIN Received = 1..Len(Received) /\ DOMAIN text = 1..Len(text)
    BY <2>1
  <2>3. Embeds(Received, text, Len(text))
    <3>. DEFINE n == IF op = "write" THEN Len(text) - 1 ELSE Len(text)
    <3>1. n \in Int /\ n <= Len(text) /\ Embeds(Received, text, n)
      BY <2>1 DEF StreamInv, SentInv
    <3>. HIDE DEF n
    <3>. QED  BY <2>1, <3>1, EmbedsMore, Zenon
  <2>. QED  BY <2>2, <2>3, Zenon DEF Embeds, TextHasReceived
<1>. QED  BY <1>1, StreamInvHolds, PTL
=============================================================================
