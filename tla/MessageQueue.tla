---------------------------- MODULE MessageQueue ----------------------------
(***************************************************************************)
(* RabbitMQ as shared/messagequeue uses it: durable queues whose rejected  *)
(* and expired messages go to the dead letter queue, and the goroutine of  *)
(* ConsumeMessages, which takes the deliveries of one queue in turn and    *)
(* publishes a message again, with a higher count, when its handler fails. *)
(* The broker keeps what is not acknowledged and delivers it again when a  *)
(* connection breaks; the goroutine may still go through the deliveries    *)
(* its process had received, but none of its answers arrives.              *)
(***************************************************************************)
EXTENDS Naturals, Sequences, FiniteSets

CONSTANTS
    Events,       \* the messages that can be published
    Malformed,    \* those among them whose body does not unmarshal
    Queues,
    Route,        \* Route[e]: the queue e's routing key is bound to
    Processes,
    Consumers,    \* the goroutines
    Subscribed,   \* Subscribed[c]: the queue c consumes
    ProcessOf,    \* ProcessOf[c]: the process of c, which has one connection
    MaxRetries,   \* 5 in the code
    Prefetch,     \* 10 in the code
    MaxPublished, \* bound: events published
    MaxFaults     \* bound: broken connections, crashes, failed publishes, expiries

VARIABLES
    queue,        \* messages the broker has to deliver
    dead,         \* contents of dead_letter_queue, with what brought them there
    up,           \* connections of the processes
    inbox,        \* deliveries a goroutine has received, the one in its hands first
    pc,           \* the goroutines
    published,    \* history: events published
    handled,      \* history: how often a handler took the event without error
    failures,     \* history: how often a handler failed on the event
    lost,         \* history: events whose publishing for a retry failed
    doubled,      \* history: events the broker and a goroutine have both had
    faults

broker == <<queue, dead, up>>
client == <<inbox, pc>>
record == <<published, handled, failures, lost, doubled>>
queueVars == <<broker, client, record, faults>>

Message(e, n) == [event |-> e, retries |-> n]
Messages == [event : Events, retries : 0 .. MaxRetries]
DeadLetters == [event : Events, retries : 0 .. MaxRetries, cause : {"malformed", "failed", "expired"}]
Labels == {"down", "starting", "receive", "handle", "republish", "ack", "reject"}

Fault == faults < MaxFaults /\ faults' = faults + 1
Current(c) == inbox[c][1]
Connected(c) == up[ProcessOf[c]]
ConsumersOf(p) == {c \in Consumers : ProcessOf[c] = p}
At(c, label) == pc[c] = label
Goto(c, label) == pc' = [pc EXCEPT ![c] = label]
InHands(c) == {inbox[c][i].event : i \in 1 .. Len(inbox[c])}
Waiting(q) == {queue[q][i].event : i \in 1 .. Len(queue[q])}

InitQueue ==
    /\ queue = [q \in Queues |-> <<>>]
    /\ dead = {}
    /\ up = [p \in Processes |-> TRUE]
    /\ inbox = [c \in Consumers |-> <<>>]
    /\ pc = [c \in Consumers |-> "starting"]
    /\ published = {} /\ lost = {} /\ doubled = {}
    /\ handled = [e \in Events |-> 0] /\ failures = [e \in Events |-> 0]
    /\ faults = 0

-----------------------------------------------------------------------------
(* PublishMessage, which starts the retry count at 0.                      *)
PublishMessage(e) ==
    /\ e \notin published /\ Cardinality(published) < MaxPublished
    /\ published' = published \cup {e}
    /\ queue' = [queue EXCEPT ![Route[e]] = Append(@, Message(e, 0))]
    /\ UNCHANGED <<dead, up, client, handled, failures, lost, doubled, faults>>

(* The broker: it delivers up to Prefetch messages ahead, buries what is   *)
(* older than a day, and puts what it still has to see acknowledged back   *)
(* when a connection goes.                                                 *)
Deliver(c) ==
    LET q == Subscribed[c] IN
    /\ Connected(c) /\ pc[c] \notin {"down", "starting"}
    /\ Len(inbox[c]) < Prefetch /\ queue[q] # <<>>
    /\ inbox' = [inbox EXCEPT ![c] = Append(@, Head(queue[q]))]
    /\ queue' = [queue EXCEPT ![q] = Tail(@)]
    /\ UNCHANGED <<dead, up, pc, record, faults>>

Bury(message, cause) ==
    dead' = dead \cup {[event |-> message.event, retries |-> message.retries, cause |-> cause]}

Expire(q) ==
    /\ Fault
    /\ queue[q] # <<>>
    /\ Bury(Head(queue[q]), "expired")
    /\ queue' = [queue EXCEPT ![q] = Tail(@)]
    /\ UNCHANGED <<up, client, record>>

(* The deliveries the goroutines S have not answered, and the orders in    *)
(* which they may go back: those of one goroutine keep theirs.             *)
Unanswered(S) == UNION {{c} \X DOMAIN inbox[c] : c \in S}
Orders(S) ==
    {order \in [1 .. Cardinality(Unanswered(S)) -> Unanswered(S)] :
        /\ Unanswered(S) \subseteq {order[i] : i \in DOMAIN order}
        /\ \A i, j \in DOMAIN order :
             i < j /\ order[i][1] = order[j][1] => order[i][2] < order[j][2]}
Deliveries(order) == [i \in DOMAIN order |-> inbox[order[i][1]][order[i][2]]]

Requeue(p) ==
    /\ LET Of(q) == {c \in ConsumersOf(p) : Subscribed[c] = q /\ up[p]} IN
       \E order \in [Queues -> UNION {Orders(Of(q)) : q \in Queues}] :
          /\ \A q \in Queues : order[q] \in Orders(Of(q))
          /\ queue' = [q \in Queues |-> Deliveries(order[q]) \o queue[q]]
    /\ up' = [up EXCEPT ![p] = FALSE]
    /\ doubled' = doubled \cup UNION {InHands(c) : c \in ConsumersOf(p)}

Disconnect(p) ==
    /\ Fault
    /\ up[p]
    /\ Requeue(p)
    /\ UNCHANGED <<dead, client, published, handled, failures, lost>>

Crash(p) ==
    /\ Fault
    /\ Requeue(p)
    /\ inbox' = [c \in Consumers |-> IF ProcessOf[c] = p THEN <<>> ELSE inbox[c]]
    /\ pc' = [c \in Consumers |-> IF ProcessOf[c] = p THEN "down" ELSE pc[c]]
    /\ UNCHANGED <<dead, published, handled, failures, lost>>

(* The process is started again; nothing else connects again.              *)
Restart(p) ==
    /\ \A c \in ConsumersOf(p) : pc[c] = "down"
    /\ ~up[p]
    /\ up' = [up EXCEPT ![p] = TRUE]
    /\ pc' = [c \in Consumers |-> IF ProcessOf[c] = p THEN "starting" ELSE pc[c]]
    /\ UNCHANGED <<queue, dead, inbox, record, faults>>

(* Qos and Consume: the goroutine exists once both have answered.          *)
ConsumeMessages(c) ==
    /\ At(c, "starting") /\ Connected(c)
    /\ Goto(c, "receive")
    /\ UNCHANGED <<broker, inbox, record, faults>>

(* The goroutine: range over the deliveries, whose channel is closed when  *)
(* the connection is gone; a body that does not unmarshal is rejected.     *)
Receive(c) ==
    /\ At(c, "receive") /\ inbox[c] # <<>>
    /\ Goto(c, IF Current(c).event \in Malformed THEN "reject" ELSE "handle")
    /\ UNCHANGED <<broker, inbox, record, faults>>

RangeEnds(c) ==
    /\ At(c, "receive") /\ ~Connected(c)
    /\ Goto(c, "down")
    /\ inbox' = [inbox EXCEPT ![c] = <<>>]
    /\ UNCHANGED <<broker, record, faults>>

HandlerSucceeds(c) ==
    /\ At(c, "handle")
    /\ Goto(c, "ack")
    /\ handled' = [handled EXCEPT ![Current(c).event] = @ + 1]
    /\ UNCHANGED <<broker, inbox, published, failures, lost, doubled, faults>>

(* Mutated: the last retry is left out. *)
HandlerFailsEarly(c) ==
    /\ At(c, "handle")
    /\ Goto(c, IF Current(c).retries + 1 < MaxRetries THEN "republish" ELSE "reject")
    /\ failures' = [failures EXCEPT ![Current(c).event] = @ + 1]
    /\ UNCHANGED <<broker, inbox, published, handled, lost, doubled, faults>>

(* Mutated: a failure is acknowledged like a success. *)
HandlerFailsQuietly(c) ==
    /\ At(c, "handle")
    /\ Goto(c, IF Current(c).retries < MaxRetries THEN "ack" ELSE "reject")
    /\ failures' = [failures EXCEPT ![Current(c).event] = @ + 1]
    /\ UNCHANGED <<broker, inbox, published, handled, lost, doubled, faults>>

HandlerFails(c) ==
    /\ At(c, "handle")
    /\ Goto(c, IF Current(c).retries < MaxRetries THEN "republish" ELSE "reject")
    /\ failures' = [failures EXCEPT ![Current(c).event] = @ + 1]
    /\ UNCHANGED <<broker, inbox, published, handled, lost, doubled, faults>>

Again(c) == Message(Current(c).event, Current(c).retries + 1)

(* Mutated: the original is put back as well. *)
RepublishAndRequeue(c) ==
    /\ At(c, "republish")
    /\ Connected(c)
    /\ queue' = [queue EXCEPT ![Subscribed[c]] = Append(<<Current(c)>> \o @, Again(c))]
    /\ Goto(c, "ack")
    /\ UNCHANGED <<dead, up, inbox, record, faults>>

(* After the back-off the body goes to the end of its queue.  The publish  *)
(* may fail, and the goroutine goes on to acknowledge the original.        *)
Republish(c) ==
    /\ At(c, "republish")
    /\ Connected(c)
    /\ queue' = [queue EXCEPT ![Subscribed[c]] = Append(@, Again(c))]
    /\ Goto(c, "ack")
    /\ UNCHANGED <<dead, up, inbox, record, faults>>

RepublishFails(c) ==
    /\ At(c, "republish")
    /\ IF Connected(c) THEN Fault /\ lost' = lost \cup {Current(c).event}
                       ELSE UNCHANGED <<faults, lost>>
    /\ Goto(c, "ack")
    /\ UNCHANGED <<broker, inbox, published, handled, failures, doubled>>

Answer(c, label) ==
    /\ At(c, label)
    /\ inbox' = [inbox EXCEPT ![c] = Tail(@)]
    /\ Goto(c, "receive")

Ack(c) ==
    /\ Answer(c, "ack")
    /\ UNCHANGED <<broker, record, faults>>

(* Mutated: what cannot be handled is passed over without an answer. *)
NackForgotten(c) ==
    /\ Answer(c, "reject")
    /\ UNCHANGED <<broker, record, faults>>

Nack(c) ==
    /\ Answer(c, "reject")
    /\ IF Connected(c) THEN Bury(Current(c), IF Current(c).event \in Malformed THEN "malformed" ELSE "failed")
                       ELSE UNCHANGED dead
    /\ UNCHANGED <<queue, up, record, faults>>

QueueStep(c) == Receive(c) \/ RangeEnds(c) \/ Republish(c) \/ RepublishFails(c) \/ Ack(c) \/ Nack(c)

-----------------------------------------------------------------------------
QueueTypeOK ==
    /\ queue \in [Queues -> Seq(Messages)]
    /\ dead \subseteq DeadLetters
    /\ up \in [Processes -> BOOLEAN]
    /\ inbox \in [Consumers -> Seq(Messages)] /\ pc \in [Consumers -> Labels]
    /\ UNION {published, lost, doubled} \subseteq Events
    /\ handled \in [Events -> Nat] /\ failures \in [Events -> Nat]
    /\ faults \in 0 .. MaxFaults

Buried(e) == \E d \in dead : d.event = e
Held(e) == \E c \in Consumers : Connected(c) /\ e \in InHands(c)

(* No event disappears: what was published is with the broker or with a    *)
(* connected consumer, was handled, is in the dead letter queue, or fell   *)
(* to the publish whose error the goroutine ignores.                       *)
NoEventDisappears ==
    \A e \in published \ lost :
        e \in Waiting(Route[e]) \/ Held(e) \/ handled[e] > 0 \/ Buried(e)

(* A dead letter that is neither malformed nor a day old was tried on      *)
(* every one of its MaxRetries + 1 deliveries.                             *)
DeadLettersWereTried ==
    \A d \in dead : d.cause = "failed" => failures[d.event] >= MaxRetries + 1

(* An event is handled once, and given up only if it never was: the        *)
(* consumers of a queue compete for it, so that an event the notification  *)
(* service takes never reaches the fan-out workers.  The exceptions are    *)
(* the events that were out with a consumer whose connection broke.        *)
HandledOnce ==
    \A e \in Events \ doubled :
        /\ handled[e] <= 1
        /\ handled[e] = 1 => ~Buried(e) /\ failures[e] <= MaxRetries
=============================================================================
