------------------------------- MODULE EventQueue ------------------------------
(***************************************************************************)
(* The events of the transaction service: RabbitMQ, the consumer of        *)
(* QueueProvider and EventsService.process_event.                          *)
(*                                                                         *)
(* The queue is durable and a message stays until it is acknowledged.  The *)
(* consumer has no prefetch limit, so several callbacks run concurrently in *)
(* the event loop of the web process; each is a handler here.  When the    *)
(* connection is lost the callbacks go on, RabbitMQ delivers their events  *)
(* again, and their own ack or nack has no effect.                         *)
(***************************************************************************)
EXTENDS Integers, FiniteSets

CONSTANTS
    Event,
    Handler,          \* callbacks that run at the same time
    Contract,         \* addresses
    NULL_ADDRESS,
    Kind,             \* of each event, see KindAssumption
    Involved,         \* of each event: `to` and the addresses in its MultiSend
    NoEvent,
    MaxQueueFaults    \* bound: failures, lost connections, crashes

(* "call": a processable event with data.  "ignored": an empty body, text    *)
(* that is not JSON, another type, no data.  "broken": process_event raises  *)
(* on it, because it is not an object or has no valid chain id.              *)
ASSUME KindAssumption == Kind \in [Event -> {"call", "ignored", "broken"}]
ASSUME InvolvedAssumption == Involved \in [Event -> SUBSET Contract]
ASSUME NoEventAssumption == NoEvent \notin Event
ASSUME QueueFaultsAssumption == MaxQueueFaults \in Nat

VARIABLES
    consumer,     \* the web process: "down", "detached" (no RabbitMQ), "consuming"
    broker,       \* each event in RabbitMQ
    hpc,          \* where each handler is
    event,        \* the event of each handler
    live,         \* whether the channel its event came through is still open
    todo,         \* the contracts it has not sent a task for yet
    sent,         \* history: the tasks sent, with the event they are for
    failed,       \* history: the events whose handling raised
    queueFaults   \* history: how many faults there were

handlerVars == <<hpc, event, live, todo>>
queueVars == <<consumer, broker, handlerVars, sent, failed, queueFaults>>

QueueTypeOK ==
    /\ consumer \in {"down", "detached", "consuming"}
    /\ broker \in [Event -> {"none", "ready", "unacked", "acked", "rejected"}]
    /\ hpc \in [Handler -> {"idle", "check", "create", "send", "nack"}]
    /\ event \in [Handler -> Event \union {NoEvent}]
    /\ live \in [Handler -> BOOLEAN]
    /\ todo \in [Handler -> SUBSET Contract]
    /\ sent \subseteq Event \X Contract
    /\ failed \subseteq Event
    /\ queueFaults \in 0..MaxQueueFaults

QueueInit ==
    /\ consumer = "down"
    /\ broker = [e \in Event |-> "none"]
    /\ hpc = [h \in Handler |-> "idle"]
    /\ event = [h \in Handler |-> NoEvent]
    /\ live = [h \in Handler |-> FALSE]
    /\ todo = [h \in Handler |-> {}]
    /\ sent = {}
    /\ failed = {}
    /\ queueFaults = 0

(* {to, *contracts_from_data} without the null address. *)
ContractsOf(e) == IF Kind[e] = "call" THEN Involved[e] \ {NULL_ADDRESS} ELSE {}

HandlerAt(h, label) == hpc' = [hpc EXCEPT ![h] = label]

QueueFault ==
    /\ queueFaults < MaxQueueFaults
    /\ queueFaults' = queueFaults + 1

-----------------------------------------------------------------------------
(* RabbitMQ and the connection. *)

(* The exchange copies the event to the queue. *)
Publish(e) ==
    /\ broker[e] = "none"
    /\ broker' = [broker EXCEPT ![e] = "ready"]
    /\ UNCHANGED <<consumer, handlerVars, sent, failed, queueFaults>>

(* lifespan: connect and then consume. *)
Connect ==
    /\ consumer = "down"
    /\ consumer' = "consuming"
    /\ UNCHANGED <<broker, handlerVars, sent, failed, queueFaults>>

(* QueueProviderUnableToConnectException is logged, and the process serves  *)
(* requests without ever trying again.                                      *)
FailConnect ==
    /\ consumer = "down"
    /\ QueueFault
    /\ consumer' = "detached"
    /\ UNCHANGED <<broker, handlerVars, sent, failed>>

(* Nobody will acknowledge what the closed channel delivered. *)
Requeued == [e \in Event |-> IF broker[e] = "unacked" THEN "ready" ELSE broker[e]]

(* connect_robust reconnects and consumes again. *)
LoseConnection ==
    /\ consumer = "consuming"
    /\ QueueFault
    /\ broker' = Requeued
    /\ live' = [h \in Handler |-> FALSE]
    /\ UNCHANGED <<consumer, hpc, event, todo, sent, failed>>

(* The process dies, or ends: lifespan cancels the consumer and disconnects. *)
StopWeb ==
    /\ consumer # "down"
    /\ QueueFault
    /\ consumer' = "down"
    /\ broker' = Requeued
    /\ hpc' = [h \in Handler |-> "idle"]
    /\ event' = [h \in Handler |-> NoEvent]
    /\ live' = [h \in Handler |-> FALSE]
    /\ todo' = [h \in Handler |-> {}]
    /\ UNCHANGED <<sent, failed>>

-----------------------------------------------------------------------------
(* A handler: wrapped_callback around process_event. *)

FirstStep(e) ==
    IF Kind[e] = "call" THEN "check" ELSE IF Kind[e] = "ignored" THEN "send" ELSE "nack"

Deliver(h, e) ==
    /\ consumer = "consuming"
    /\ broker[e] = "ready"
    /\ hpc[h] = "idle"
    /\ broker' = [broker EXCEPT ![e] = "unacked"]
    /\ event' = [event EXCEPT ![h] = e]
    /\ live' = [live EXCEPT ![h] = TRUE]
    /\ todo' = [todo EXCEPT ![h] = ContractsOf(e)]
    /\ HandlerAt(h, FirstStep(e))
    /\ failed' = IF Kind[e] = "broken" THEN failed \union {e} ELSE failed
    /\ UNCHANGED <<consumer, sent, queueFaults>>

(* await safe_contracts_exist *)
CheckChain(h, exists) ==
    /\ hpc[h] = "check"
    /\ HandlerAt(h, IF exists THEN "send" ELSE "create")
    /\ UNCHANGED <<consumer, broker, event, live, todo, sent, failed, queueFaults>>

(* create_safe_contracts_task_for_new_chains.send *)
SendCreate(h) ==
    /\ hpc[h] = "create"
    /\ HandlerAt(h, "send")
    /\ UNCHANGED <<consumer, broker, event, live, todo, sent, failed, queueFaults>>

(* get_contract_metadata_task.send, for one contract after the other. *)
SendMetadataTask(h, c) ==
    /\ hpc[h] = "send"
    /\ c \in todo[h]
    /\ sent' = sent \union {<<event[h], c>>}
    /\ todo' = [todo EXCEPT ![h] = @ \ {c}]
    /\ UNCHANGED <<consumer, broker, hpc, event, live, failed, queueFaults>>

EndHandler(h) ==
    /\ HandlerAt(h, "idle")
    /\ event' = [event EXCEPT ![h] = NoEvent]
    /\ live' = [live EXCEPT ![h] = FALSE]
    /\ todo' = [todo EXCEPT ![h] = {}]

(* An answer through a closed channel raises and changes nothing. *)
Settle(h, outcome) ==
    broker' = IF live[h] THEN [broker EXCEPT ![event[h]] = outcome] ELSE broker

(* Mutant of Raise: the message is acknowledged in a finally clause. *)
RaiseAndAck(h) ==
    /\ hpc[h] \in {"check", "create", "send"}
    /\ QueueFault
    /\ failed' = failed \union {event[h]}
    /\ Settle(h, "acked")
    /\ EndHandler(h)
    /\ UNCHANGED <<consumer, sent>>

(* The database or Redis fails, also between two of the sends or when the  *)
(* session is removed after them.                                          *)
Raise(h) ==
    /\ hpc[h] \in {"check", "create", "send"}
    /\ QueueFault
    /\ failed' = failed \union {event[h]}
    /\ HandlerAt(h, "nack")
    /\ UNCHANGED <<consumer, broker, event, live, todo, sent>>

(* process_event has returned, nothing left to send. *)
Ack(h) ==
    /\ hpc[h] = "send"
    /\ todo[h] = {}
    /\ Settle(h, "acked")
    /\ EndHandler(h)
    /\ UNCHANGED <<consumer, sent, failed, queueFaults>>

(* Mutant of Nack: an error is logged and the message left alone. *)
NoNack(h) ==
    /\ hpc[h] = "nack"
    /\ EndHandler(h)
    /\ UNCHANGED <<consumer, broker, sent, failed, queueFaults>>

(* nack(requeue=False), and the queue has no dead letter exchange. *)
Nack(h) ==
    /\ hpc[h] = "nack"
    /\ Settle(h, "rejected")
    /\ EndHandler(h)
    /\ UNCHANGED <<consumer, sent, failed, queueFaults>>

LocalStep(h) ==
    \/ \E c \in Contract : SendMetadataTask(h, c)
    \/ Ack(h)
    \/ Nack(h)

QueueNext ==
    \/ \E e \in Event : Publish(e)
    \/ Connect
    \/ FailConnect
    \/ LoseConnection
    \/ StopWeb
    \/ \E h \in Handler :
        \/ \E e \in Event : Deliver(h, e)
        \/ \E exists \in BOOLEAN : CheckChain(h, exists)
        \/ SendCreate(h)
        \/ LocalStep(h)
        \/ Raise(h)

QueueSpec == QueueInit /\ [][QueueNext]_queueVars

-----------------------------------------------------------------------------
(* Properties. *)

Fate(state) ==
    IF state = "none" THEN "unpublished"
    ELSE IF state = "acked" THEN "handled"
    ELSE IF state = "rejected" THEN "dropped"
    ELSE "pending"

Delivery == INSTANCE EventDelivery
              WITH fate <- [e \in Event |-> Fate(broker[e])],
                   tasks <- sent,
                   Wanted <- ContractsOf

(* DeliveryRefined: through redeliveries, handlers that outlive their       *)
(* connection, crashes and partial sends, the consumer does what            *)
(* EventDelivery says.  An event is acknowledged only with a task sent for  *)
(* each of its contracts, rejected only after an attempt that raised, and   *)
(* settled once.                                                            *)
DeliveryRefined == Delivery!Spec

Settled(e) == broker[e] \in {"acked", "rejected"}

(* EventsAreSettled: an event in the queue is acknowledged or rejected in   *)
(* the end, unless the process could not reach RabbitMQ when it started     *)
(* and serves without a consumer.                                           *)
EventsAreSettled ==
    \A e \in Event : broker[e] = "ready" ~> Settled(e) \/ consumer = "detached"

(* EventsHeld: RabbitMQ delivers a message again only when its channel is   *)
(* closed, so one that is delivered and not answered belongs to a callback  *)
(* that still runs and whose answer will count.                             *)
EventsHeld ==
    \A e \in Event : broker[e] = "unacked" => \E h \in Handler : live[h] /\ event[h] = e

(* A handler with an open channel is alone with its event; one that is      *)
(* about to answer has sent everything or has failed.                       *)
HandlerInv ==
    /\ consumer = "down" => \A h \in Handler : hpc[h] = "idle"
    /\ \A h \in Handler :
        /\ hpc[h] = "idle" => event[h] = NoEvent /\ ~live[h]
        /\ hpc[h] # "idle" => /\ event[h] \in Event
                             /\ broker[event[h]] # "none"
                             /\ todo[h] \subseteq ContractsOf(event[h])
                             /\ \A c \in ContractsOf(event[h]) \ todo[h] :
                                    <<event[h], c>> \in sent
        /\ hpc[h] = "nack" => event[h] \in failed
        /\ live[h] => broker[event[h]] = "unacked"
        /\ \A k \in Handler \ {h} : live[h] /\ live[k] => event[h] # event[k]

QueueInv == QueueTypeOK /\ HandlerInv /\ EventsHeld
==============================================================================
