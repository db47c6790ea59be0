---------------------------- MODULE EventPipeline ----------------------------
(***************************************************************************)
(* The consumers of the RabbitMQ queues together: notification-service,    *)
(* one process with a goroutine per queue, and the fan-out workers of a    *)
(* WorkerManager, one process with a goroutine per worker, all of them on  *)
(* the post queue.  Both sides of that queue compete for its messages.     *)
(* What a worker does with an event is ProcessPostCreated, which module    *)
(* FanoutWorker describes; here it succeeds or fails.  Deliveries and HTTP *)
(* calls change nothing a handler reads: NotificationService has them.     *)
(***************************************************************************)
EXTENDS Integers, Sequences, FiniteSets

CONSTANTS
    Events, Malformed, Queues, Route, Subscribed, MaxRetries, Prefetch,
    MaxPublished, MaxFaults,
    PostCreated,    \* events of the type the workers handle
    Known,          \* events of the types the notification service handles
    Notifiers,      \* goroutines of notification-service
    WorkerSet,      \* workers of the manager
    Recipient, Requests, Limit, MaxRows

ASSUME EventAssumption ==
    /\ Malformed \subseteq Events /\ PostCreated \subseteq Known /\ Known \subseteq Events
    /\ Route \in [Events -> Queues] /\ Subscribed \in [Notifiers \cup WorkerSet -> Queues]
    /\ Notifiers \cap WorkerSet = {} /\ IsFiniteSet(Notifiers \cup WorkerSet)
    /\ MaxRetries \in Nat /\ Prefetch \in Nat \ {0}
    /\ {MaxPublished, MaxFaults, MaxRows} \subseteq Nat /\ Limit \in Nat \ {0}

VARIABLES
    queue, dead, up, inbox, pc,                     \* RabbitMQ and the goroutines
    rows, delivery, request, scroll,                \* notification-service
    start, stop, metrics,                           \* WorkerManager
    published, handled, failures, lost, doubled,    \* history
    confirmed, unanswered,
    faults                                          \* bound

Processes == {"notifier", "fanout"}
Consumers == Notifiers \cup WorkerSet
ProcessOf == [c \in Consumers |-> IF c \in Notifiers THEN "notifier" ELSE "fanout"]

MQ == INSTANCE MessageQueue
Notification == INSTANCE NotificationService
Manager == INSTANCE WorkerManager

queueVars == <<queue, dead, up, inbox, pc, published, handled, failures, lost, doubled, faults>>
notificationVars == <<rows, delivery, request, scroll, confirmed, unanswered>>
workerVars == <<start, stop, metrics>>
vars == <<queueVars, notificationVars, workerVars>>

Init == MQ!InitQueue /\ Notification!Init /\ Manager!InitWorkers

-----------------------------------------------------------------------------
(* The handlers, each with the outcome ConsumeMessages acts on.  A message *)
(* of a type the handler does not know is taken without error.             *)
HandleNotification(c) ==
    /\ c \in Notifiers /\ MQ!At(c, "handle")
    /\ LET e == inbox[c][1].event IN
        \/ e \notin Known /\ MQ!HandlerSucceeds(c) /\ UNCHANGED notificationVars
        \/ e \in Known /\ MQ!HandlerSucceeds(c) /\ Notification!CreateNotification(e)
        \/ e \in Known /\ MQ!HandlerFails(c) /\ Notification!CreateFails(e)
    /\ UNCHANGED workerVars

(* Mutated: a failed fan-out is not counted. *)
HandlePostUncounted(w) ==
    /\ w \in WorkerSet /\ MQ!At(w, "handle")
    /\ LET e == inbox[w][1].event IN
        \/ e \notin PostCreated /\ MQ!HandlerSucceeds(w) /\ UNCHANGED workerVars
        \/ e \in PostCreated /\ MQ!HandlerSucceeds(w) /\ Manager!Count(w, "batches")
        \/ e \in PostCreated /\ MQ!HandlerFails(w) /\ UNCHANGED workerVars
    /\ UNCHANGED notificationVars

HandlePost(w) ==
    /\ w \in WorkerSet /\ MQ!At(w, "handle")
    /\ LET e == inbox[w][1].event IN
        \/ e \notin PostCreated /\ MQ!HandlerSucceeds(w) /\ UNCHANGED workerVars
        \/ e \in PostCreated /\ MQ!HandlerSucceeds(w) /\ Manager!Count(w, "batches")
        \/ e \in PostCreated /\ MQ!HandlerFails(w) /\ Manager!Count(w, "errors")
    /\ UNCHANGED notificationVars

(* A step of the goroutine of ConsumeMessages.  A worker's handler counts  *)
(* the message as soon as it is entered.                                   *)
Goroutine(c) ==
    \/ HandleNotification(c)
    \/ HandlePost(c)
    \/ /\ MQ!QueueStep(c)
       /\ IF c \in WorkerSet /\ pc'[c] = "handle"
          THEN Manager!Count(c, "processed") ELSE UNCHANGED workerVars
       /\ UNCHANGED notificationVars

Register(c) ==
    /\ MQ!ConsumeMessages(c)
    /\ IF c \in WorkerSet THEN Manager!Registers(c) ELSE UNCHANGED workerVars
    /\ UNCHANGED notificationVars

(* A worker that cannot register is idle from then on.  When the           *)
(* notification service cannot, its main exits: that is a Crash.           *)
RegisterFails(w) ==
    /\ pc[w] = "starting"
    /\ MQ!Goto(w, "down")
    /\ Manager!RegisterFails(w)
    /\ UNCHANGED <<queue, dead, up, inbox, published, handled, failures, lost, doubled, faults,
                   notificationVars>>

(* A process is killed, or told to stop: main closes its connections and   *)
(* returns, and waits for no consumer.                                     *)
Crash(p) ==
    /\ MQ!Crash(p)
    /\ IF p = "notifier" THEN Notification!Dies ELSE UNCHANGED notificationVars
    /\ UNCHANGED workerVars

Restart(p) ==
    /\ MQ!Restart(p)
    /\ IF p = "fanout" THEN Manager!ManagerRestarts ELSE UNCHANGED workerVars
    /\ UNCHANGED notificationVars

Broker ==
    /\ \/ \E e \in Events : MQ!PublishMessage(e)
       \/ \E c \in Consumers : MQ!Deliver(c)
       \/ \E q \in Queues : MQ!Expire(q)
       \/ \E p \in Processes : MQ!Disconnect(p)
    /\ UNCHANGED <<notificationVars, workerVars>>

ManagerGoroutines ==
    /\ \/ \E w \in WorkerSet : Manager!Stops(w)
       \/ Manager!StopReturns
    /\ UNCHANGED <<queueVars, notificationVars>>

Next ==
    \/ Broker
    \/ \E c \in Consumers : Goroutine(c) \/ Register(c)
    \/ \E w \in WorkerSet : RegisterFails(w)
    \/ \E p \in Processes : Crash(p) \/ Restart(p)
    \/ ManagerGoroutines
    \/ Manager!Stop /\ UNCHANGED <<queueVars, notificationVars>>

(* The scheduler runs the goroutines, and the broker delivers.             *)
Fairness ==
    /\ \A c \in Consumers :
        /\ WF_vars(Goroutine(c) \/ Register(c))
        /\ WF_vars(MQ!Deliver(c) /\ UNCHANGED <<notificationVars, workerVars>>)
    /\ WF_vars(ManagerGoroutines)

Spec == Init /\ [][Next]_vars /\ Fairness

-----------------------------------------------------------------------------
TypeOK == MQ!QueueTypeOK /\ Notification!TypeOK /\ Manager!WorkersTypeOK

NoEventDisappears == MQ!NoEventDisappears
DeadLettersWereTried == MQ!DeadLettersWereTried
HandledOnce == MQ!HandledOnce

(* Every event the notification service took has its row, and nobody gets  *)
(* a second notification of it unless an INSERT lost its answer or a       *)
(* connection broke: nothing in the table identifies the event.            *)
OneNotificationPerEvent ==
    \A e \in Events :
        /\ e \in confirmed => Notification!RowsOf(e) # {}
        /\ e \notin doubled \cup unanswered => Cardinality(Notification!RowsOf(e)) <= 1

(* A worker that is not in its handler has counted every message it took   *)
(* once more, as handled or as failed, but for those of other types that   *)
(* it passed over.                                                         *)
MetricsAddUp ==
    \A w \in WorkerSet :
        LET passed == metrics[w].processed - metrics[w].batches - metrics[w].errors
                        - (IF pc[w] = "handle" THEN 1 ELSE 0)
            others == Cardinality(UNION {{e} \X (1 .. handled[e]) : e \in Events \ PostCreated})
        IN  up["fanout"] => 0 <= passed /\ passed <= others

(* While some consumer of a queue stays connected, all that was published  *)
(* to the queue is handled or given up in the end, though a consumer       *)
(* sleeps through the back-off of one message while the next ones wait,    *)
(* and whether or not Stop was called: a stopped manager's handlers go on. *)
Serves(c, q) == Subscribed[c] = q /\ up[ProcessOf[c]] /\ pc[c] # "down"
Settled(e) == handled[e] > 0 \/ MQ!Buried(e) \/ e \in lost

EventsSettle ==
    \A q \in Queues :
        <>[](\E c \in Consumers : Serves(c, q))
        => []<>(\A e \in published : Route[e] = q => Settled(e))
==============================================================================
