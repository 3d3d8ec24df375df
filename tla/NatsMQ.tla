------------------------------- MODULE NatsMQ -------------------------------
(***************************************************************************)
(* mq/nats/natsmq.go over one JetStream stream: Publish, and Subscribe     *)
(* calls that run consumeLoop until their context is cancelled or their    *)
(* connection is closed.  Calls of clients with a queue group share one    *)
(* durable consumer; without a group each call has a consumer of its own.  *)
(* The server is external: it redelivers what is not acknowledged in time  *)
(* and, with interest retention, keeps a message for as long as some       *)
(* consumer has not acknowledged it.                                       *)
(***************************************************************************)
EXTENDS Integers, FiniteSets

CONSTANTS
  Calls,      \* Subscribe calls, each made once, of clients of their own
  Msgs,       \* messages, each published once
  Groups,     \* of TRUE and FALSE: whether the clients have a queue group
  Retention,  \* "interest" or "limits"
  None

ASSUME NatsAssumption ==
  /\ Groups \subseteq BOOLEAN
  /\ Retention \in {"interest", "limits"}
  /\ None \notin Msgs
  /\ "group" \notin Calls

VARIABLES
  grouped,    \* the clients were created with a queue group
  stored,     \* messages in the stream
  sent,       \* messages Publish has been called with
  consumers,  \* the consumers that exist on the server
  acked,      \* per consumer: messages acknowledged
  pending,    \* per consumer: messages delivered and awaiting their ack
  sub,        \* per call: "new", "on", "off"
  creator,    \* per call: it created the consumer (the library's jsi.dc)
  inbox,      \* per call: messages pushed to the subscription
  work,       \* per call: the message its handler is given, or None
  handled     \* per consumer: messages for which some handler returned nil

vars == <<grouped, stored, sent, consumers, acked, pending, sub, creator, inbox,
          work, handled>>

Consumers == Calls \cup {"group"}
ConsumerOf(s) == IF grouped THEN "group" ELSE s

Init ==
  /\ grouped \in Groups
  /\ stored = {} /\ sent = {} /\ consumers = {}
  /\ acked = [c \in Consumers |-> {}]
  /\ pending = [c \in Consumers |-> {}]
  /\ sub = [s \in Calls |-> "new"]
  /\ creator = [s \in Calls |-> FALSE]
  /\ inbox = [s \in Calls |-> {}]
  /\ work = [s \in Calls |-> None]
  /\ handled = [c \in Consumers |-> {}]

(* What the stream keeps when C are the consumers and A their acks. *)
Kept(S, C, A) ==
  IF Retention = "limits" THEN S ELSE {m \in S : \E c \in C : m \notin A[c]}

Publish(m) ==
  /\ m \notin sent
  /\ sent' = sent \cup {m}
  /\ stored' = Kept(stored \cup {m}, consumers, acked)
  /\ UNCHANGED <<grouped, consumers, acked, pending, sub, creator, inbox, work, handled>>

(* Fault: DeliverNew in place of DeliverAll. *)
SubscribeDeliverNew(s) ==
  LET c == ConsumerOf(s) IN
  /\ sub[s] = "new"
  /\ sub' = [sub EXCEPT ![s] = "on"]
  /\ consumers' = consumers \cup {c}
  /\ creator' = [creator EXCEPT ![s] = c \notin consumers]
  /\ acked' = IF c \in consumers THEN acked ELSE [acked EXCEPT ![c] = stored]
  /\ UNCHANGED <<grouped, stored, sent, pending, inbox, work, handled>>

(* subscribe(): DeliverAll starts a new consumer at the first message; a   *)
(* call that finds the group's consumer joins it.                          *)
Subscribe(s) ==
  LET c == ConsumerOf(s) IN
  /\ sub[s] = "new"
  /\ sub' = [sub EXCEPT ![s] = "on"]
  /\ consumers' = consumers \cup {c}
  /\ creator' = [creator EXCEPT ![s] = c \notin consumers]
  /\ UNCHANGED <<grouped, stored, sent, acked, pending, inbox, work, handled>>

(* The server pushes a message to one call of the consumer. *)
Push(m, s) ==
  LET c == ConsumerOf(s) IN
  /\ c \in consumers /\ sub[s] = "on"
  /\ m \in stored /\ m \notin acked[c] \cup pending[c]
  /\ pending' = [pending EXCEPT ![c] = @ \cup {m}]
  /\ inbox' = [inbox EXCEPT ![s] = @ \cup {m}]
  /\ UNCHANGED <<grouped, stored, sent, consumers, acked, sub, creator, work, handled>>

(* AckWait runs out: the message may be pushed again. *)
AckWait(m, c) ==
  /\ m \in pending[c]
  /\ pending' = [pending EXCEPT ![c] = @ \ {m}]
  /\ UNCHANGED <<grouped, stored, sent, consumers, acked, sub, creator, inbox, work,
                 handled>>

(* consumeLoop: NextMsgWithContext, then the handler. *)
NextMsg(s, m) ==
  /\ sub[s] = "on" /\ work[s] = None /\ m \in inbox[s]
  /\ inbox' = [inbox EXCEPT ![s] = @ \ {m}]
  /\ work' = [work EXCEPT ![s] = m]
  /\ UNCHANGED <<grouped, stored, sent, consumers, acked, pending, sub, creator, handled>>

(* Fault: the ack does not wait for the handler's result. *)
HandlerFailsAcks(s) ==
  LET c == ConsumerOf(s) IN
  /\ work[s] # None
  /\ work' = [work EXCEPT ![s] = None]
  /\ acked' = [acked EXCEPT ![c] = @ \cup {work[s]}]
  /\ stored' = Kept(stored, consumers, acked')
  /\ UNCHANGED <<grouped, sent, consumers, pending, sub, creator, inbox,
                 handled>>

(* The handler returns an error: no ack. *)
HandlerFails(s) ==
  /\ work[s] # None
  /\ work' = [work EXCEPT ![s] = None]
  /\ UNCHANGED <<grouped, stored, sent, consumers, acked, pending, sub, creator, inbox,
                 handled>>

(* It returns nil and the message is acknowledged; the ack does not arrive *)
(* when the connection is closed, or gets lost, and that is only logged.   *)
HandlerSucceeds(s) ==
  LET m == work[s]
      c == ConsumerOf(s)
  IN
  /\ m # None
  /\ work' = [work EXCEPT ![s] = None]
  /\ handled' = [handled EXCEPT ![c] = @ \cup {m}]
  /\ \/ /\ sub[s] = "on" /\ c \in consumers
        /\ acked' = [acked EXCEPT ![c] = @ \cup {m}]
        /\ pending' = [pending EXCEPT ![c] = @ \ {m}]
        /\ stored' = Kept(stored, consumers, acked')
     \/ UNCHANGED <<acked, pending, stored>>
  /\ UNCHANGED <<grouped, sent, consumers, sub, creator, inbox>>

DeleteConsumer(c) ==
  /\ consumers' = consumers \ {c}
  /\ acked' = [acked EXCEPT ![c] = {}]
  /\ pending' = [pending EXCEPT ![c] = {}]
  /\ stored' = Kept(stored, consumers', acked)

(* Fault: Subscribe returns without Unsubscribe. *)
CancelKeepsInbox(s) ==
  /\ sub[s] = "on" /\ work[s] = None
  /\ sub' = [sub EXCEPT ![s] = "off"]
  /\ UNCHANGED <<grouped, stored, sent, consumers, acked, pending, creator,
                 inbox, work, handled>>

(* The context is cancelled: the loop ends at NextMsgWithContext and the   *)
(* deferred Unsubscribe deletes the consumer if this call created it.      *)
Cancel(s) ==
  /\ sub[s] = "on" /\ work[s] = None
  /\ sub' = [sub EXCEPT ![s] = "off"]
  /\ inbox' = [inbox EXCEPT ![s] = {}]
  /\ IF creator[s]
     THEN DeleteConsumer(ConsumerOf(s))
     ELSE UNCHANGED <<consumers, acked, pending, stored>>
  /\ UNCHANGED <<grouped, sent, creator, work, handled>>

(* Client.Close closes the connection under its Subscribe call, whatever   *)
(* the call is doing; a crash looks the same to the server.                *)
Close(s) ==
  /\ sub[s] = "on"
  /\ sub' = [sub EXCEPT ![s] = "off"]
  /\ inbox' = [inbox EXCEPT ![s] = {}]
  /\ UNCHANGED <<grouped, stored, sent, consumers, acked, pending, creator, work, handled>>

(* An ephemeral consumer without a subscriber is removed by the server. *)
Inactive(s) ==
  /\ ~grouped /\ sub[s] = "off" /\ s \in consumers
  /\ DeleteConsumer(s)
  /\ UNCHANGED <<grouped, sent, sub, creator, inbox, work, handled>>

Next ==
  \/ \E m \in Msgs : Publish(m)
  \/ \E m \in Msgs, s \in Calls : Push(m, s) \/ NextMsg(s, m)
  \/ \E m \in Msgs, c \in Consumers : AckWait(m, c)
  \/ \E s \in Calls : \/ Subscribe(s) \/ HandlerFails(s) \/ HandlerSucceeds(s)
                      \/ Cancel(s) \/ Close(s) \/ Inactive(s)

Spec == Init /\ [][Next]_vars

(* The server pushes what it can and its ack timers run out; a             *)
(* subscription is a queue, so no message in it is passed over for ever; a *)
(* handler returns, and one that is given a message again and again        *)
(* returns nil in the end.                                                 *)
Fairness ==
  /\ \A m \in Msgs, c \in Consumers :
       /\ WF_vars(\E s \in Calls : ConsumerOf(s) = c /\ Push(m, s))
       /\ WF_vars(AckWait(m, c))
  /\ \A m \in Msgs, s \in Calls :
       SF_vars(NextMsg(s, m)) /\ SF_vars(work[s] = m /\ HandlerSucceeds(s))
  /\ \A s \in Calls : WF_vars(HandlerFails(s) \/ HandlerSucceeds(s))

FairSpec == Spec /\ Fairness
-----------------------------------------------------------------------------
(* Types of the stream, the consumers and the subscriptions; a             *)
(* subscription that has ended holds no messages.                          *)
TypeOK ==
  /\ grouped \in Groups
  /\ stored \subseteq sent /\ sent \subseteq Msgs
  /\ consumers \subseteq Consumers
  /\ acked \in [Consumers -> SUBSET Msgs] /\ pending \in [Consumers -> SUBSET Msgs]
  /\ sub \in [Calls -> {"new", "on", "off"}]
  /\ creator \in [Calls -> BOOLEAN]
  /\ inbox \in [Calls -> SUBSET Msgs]
  /\ \A s \in Calls : inbox[s] # {} => sub[s] = "on"
  /\ work \in [Calls -> Msgs \cup {None}]
  /\ handled \in [Consumers -> SUBSET Msgs]

(* "Return nil to ack, error to skip ack (redelivery)": a consumer that    *)
(* lives on loses a stored message only after one of its handlers has      *)
(* returned nil for it, through lost acks, redeliveries and closed         *)
(* connections.                                                            *)
KeptUntilHandled ==
  [][\A m \in Msgs, c \in consumers \cap consumers' :
       m \in stored \ acked[c] => m \in stored' \ acked'[c] \/ m \in handled'[c]]_vars

(* A message that a consumer still needs is handled in the end, for as     *)
(* long as the consumer has a subscriber.                                  *)
EventuallyHandled ==
  \A m \in Msgs, s \in Calls :
    LET c == ConsumerOf(s) IN
    (m \in stored /\ c \in consumers /\ sub[s] = "on")
      ~> (m \in handled[c] \/ c \notin consumers \/ sub[s] = "off")

(* "each message goes to one consumer in the group": while a call of the   *)
(* group stays subscribed, a message in the stream is handled in the end.  *)
GroupServed ==
  \A m \in Msgs, s \in Calls :
    (m \in stored /\ sub[s] = "on") ~> (m \in handled["group"] \/ sub[s] = "off")
=============================================================================
