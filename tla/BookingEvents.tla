--------------------------- MODULE BookingEvents ---------------------------
(***************************************************************************)
(* Booking confirmations, from an order's transaction to the notification  *)
(* service: the connections create_order takes from the pool of            *)
(* database.py, its commit, the reload of the order, and                   *)
(* publish_booking_confirmation with the lazily started producer of        *)
(* kafka_producer.py; the topic; and the loop                              *)
(* consume_booking_confirmations.                                          *)
(*                                                                         *)
(* A session takes a connection for its first statement and gives it back  *)
(* at its commit; the reload takes one again and keeps it while Kafka is   *)
(* awaited.  Other requests take connections of the pool too: all a        *)
(* handler knows is that it may wait for one and that the wait may time    *)
(* out.                                                                    *)
(*                                                                         *)
(* The producer is a global that handlers check, set before the await of   *)
(* its start, and use.  A producer object is named by who made it.  The    *)
(* topic has one partition here: an order has one event, and events of     *)
(* different orders need no order among them.                              *)
(***************************************************************************)
EXTENDS Integers, Sequences, FiniteSets

CONSTANTS
    Orders,      \* orders, each created by a request of its own
    Lifespan,    \* the start-up and shut-down code of the ticket service
    None,        \* no producer
    PoolSize,    \* pool_size + max_overflow
    MaxFailures  \* bound of the crashes and lost connections

ASSUME LifespanAssumption == Lifespan \notin Orders /\ None \notin Orders \cup {Lifespan}
ASSUME FailuresAssumption == MaxFailures \in Nat
ASSUME PoolAssumption == PoolSize \in Nat \ {0}

VARIABLES
    life,        \* where the lifespan of the ticket service is
    req,         \* each order's handler, and the producer object it sends with
    conn,        \* the handlers that have a connection of the pool
    producer,    \* the global _producer
    started,     \* producer objects connected to the broker and not stopped
    committed,   \* orders in the database
    topic,       \* Kafka: the events, each the order it confirms
    consumer,    \* the consumer loop: whether it is connected, and its position
    offset,      \* Kafka: the committed offset of the consumer's group
    notified,    \* orders whose confirmation was dispatched
    failures     \* crashes and lost connections so far

vars == <<life, req, conn, producer, started, committed, topic, consumer, offset, notified, failures>>
ticketVars == <<life, req, conn, producer, started, committed>>
notifVars == <<consumer, offset, notified>>

Procs == Orders \cup {Lifespan}
Disconnected == [up |-> FALSE, position |-> 0]
Serving == life = "serving"

(* A handler that needs a connection, one that has an open transaction, and  *)
(* one that has been answered: 201, or an error or nothing at all.           *)
Waiting == {"want", "reload"}
Publishing == {"publish", "start", "send"}
Connected == {"open"} \cup Publishing
Answered == {"created", "failed"}
Reqs == [pc : {"new"} \cup Waiting \cup Connected \cup Answered, uses : Procs \cup {None}]
At(pc) == [pc |-> pc, uses |-> None]

Goto(o, pc) == req' = [req EXCEPT ![o].pc = pc]

(* The answer is given and get_db closes the session. *)
Finish(o, pc) ==
    /\ req' = [req EXCEPT ![o] = At(pc)]
    /\ conn' = conn \ {o}
CountFailure == failures < MaxFailures /\ failures' = failures + 1

-----------------------------------------------------------------------------
(* start_kafka_producer and stop_kafka_producer *)

(* The check of the global and its assignment have no await between them.    *)
BeginStart(p) == producer = None /\ producer' = p

StartOk(p) == started' = started \cup {p} /\ UNCHANGED producer

StartFailed_KeepsGlobal == UNCHANGED <<producer, started>>
StartFailed == producer' = None /\ UNCHANGED started

(* Start-up; nothing is served before the await is over, broker or not. *)
LifeBegin ==
    /\ life = "down"
    /\ BeginStart(Lifespan)
    /\ life' = "starting"
    /\ UNCHANGED <<req, conn, started, committed, topic, notifVars, failures>>

LifeStarted ==
    /\ life = "starting"
    /\ StartOk(Lifespan) \/ StartFailed
    /\ life' = "serving"
    /\ UNCHANGED <<req, conn, committed, topic, notifVars, failures>>

(* The server lets its requests end before it shuts down; stop flushes, and  *)
(* finally the global is reset.  A container that stops is started again.    *)
LifeStop ==
    /\ Serving
    /\ \A o \in Orders : req[o].pc \in {"new"} \cup Answered
    /\ CountFailure
    /\ life' = "down"
    /\ producer' = None
    /\ started' = started \ {producer}
    /\ UNCHANGED <<req, conn, committed, topic, notifVars>>

-----------------------------------------------------------------------------
(* create_order: its transaction, the reload and the confirmation, which are *)
(* awaited before the answer                                                 *)

BeginOrder(o) ==
    /\ Serving /\ req[o].pc = "new"
    /\ Goto(o, "want")
    /\ UNCHANGED <<life, conn, producer, started, committed, topic, notifVars, failures>>

(* The pool gives a connection: for the order's first statement, or for the  *)
(* SELECT and the refresh after its commit.                                  *)
GetConnection(o) ==
    /\ req[o].pc \in Waiting
    /\ Cardinality(conn) < PoolSize
    /\ conn' = conn \cup {o}
    /\ Goto(o, IF req[o].pc = "want" THEN "open" ELSE "publish")
    /\ UNCHANGED <<life, producer, started, committed, topic, notifVars, failures>>

CommitOrder_KeepsConnection(o) ==
    /\ req[o].pc = "open"
    /\ committed' = committed \cup {o}
    /\ Goto(o, "reload")
    /\ UNCHANGED <<life, conn, producer, started, topic, notifVars, failures>>

CommitOrder_PublishFirst(o) ==
    /\ req[o].pc = "open"
    /\ Goto(o, "publish")
    /\ UNCHANGED <<life, conn, producer, started, committed, topic, notifVars, failures>>

CommitOrder(o) ==
    /\ req[o].pc = "open"
    /\ committed' = committed \cup {o}
    /\ conn' = conn \ {o}
    /\ Goto(o, "reload")
    /\ UNCHANGED <<life, producer, started, topic, notifVars, failures>>

FailOrder_Swallowed(o) ==
    /\ req[o].pc \in Waiting \cup {"open"}
    /\ Finish(o, "created")
    /\ UNCHANGED <<life, producer, started, committed, topic, notifVars, failures>>

(* The order is refused, a statement fails, or no connection comes in time:  *)
(* before the commit, or after it.                                           *)
FailOrder(o) ==
    /\ req[o].pc \in Waiting \cup {"open"}
    /\ Finish(o, "failed")
    /\ UNCHANGED <<life, producer, started, committed, topic, notifVars, failures>>

(* The producer is missing: start it. *)
Reconnect(o) ==
    /\ req[o].pc = "publish"
    /\ BeginStart(o)
    /\ Goto(o, "start")
    /\ UNCHANGED <<life, conn, started, committed, topic, notifVars, failures>>

Reconnected(o) ==
    /\ req[o].pc = "start"
    /\ StartOk(o)
    /\ req' = [req EXCEPT ![o] = [pc |-> "send", uses |-> producer]]
    /\ UNCHANGED <<life, conn, committed, topic, notifVars, failures>>

NotReconnected_Raises(o) ==
    /\ req[o].pc = "start"
    /\ StartFailed
    /\ Finish(o, "failed")
    /\ UNCHANGED <<life, committed, topic, notifVars, failures>>

(* The event is given up: publish_booking_confirmation returns False. *)
NotReconnected(o) ==
    /\ req[o].pc = "start"
    /\ StartFailed
    /\ Finish(o, "created")
    /\ UNCHANGED <<life, committed, topic, notifVars, failures>>

(* Some handler has set the global, though its start may still be awaited. *)
UseProducer(o) ==
    /\ req[o].pc = "publish"
    /\ producer # None
    /\ req' = [req EXCEPT ![o] = [pc |-> "send", uses |-> producer]]
    /\ UNCHANGED <<life, conn, producer, started, committed, topic, notifVars, failures>>

(* send_and_wait on a connected producer.  The producer is not idempotent:   *)
(* a batch whose acknowledgement was lost is sent again; and when no answer  *)
(* comes in time it raises, though the broker has the event.  Either way the *)
(* request is answered 201.                                                  *)
Send(o, copies) ==
    /\ req[o].pc = "send" /\ req[o].uses \in started
    /\ topic' = topic \o [i \in 1 .. copies |-> o]
    /\ Finish(o, "created")
    /\ UNCHANGED <<life, producer, started, committed, notifVars, failures>>

(* It raises when the broker does not answer in time, and the client's       *)
(* answer is the same.  The timeouts are those of a connected producer: on   *)
(* an object whose start is still awaited send waits for the topic's         *)
(* metadata, which the task fetches that a successful start creates.         *)
SendFailed_Retries(o) ==
    /\ req[o].pc = "send" /\ req[o].uses \in started
    /\ Goto(o, "publish")
    /\ UNCHANGED <<life, conn, producer, started, committed, topic, notifVars, failures>>

SendFailed(o) ==
    /\ req[o].pc = "send" /\ req[o].uses \in started
    /\ Finish(o, "created")
    /\ UNCHANGED <<life, producer, started, committed, topic, notifVars, failures>>

(* The process dies, its handlers, its connections and its producer with it. *)
CrashTickets ==
    /\ life # "down"
    /\ CountFailure
    /\ life' = "down"
    /\ req' = [o \in Orders |-> IF req[o].pc \in {"new"} \cup Answered THEN req[o] ELSE At("failed")]
    /\ conn' = {}
    /\ producer' = None
    /\ started' = {}
    /\ UNCHANGED <<committed, topic, notifVars>>

-----------------------------------------------------------------------------
(* consume_booking_confirmations *)

(* The group resumes at its committed offset; a new group at the earliest. *)
Connect_Latest ==
    /\ ~consumer.up
    /\ consumer' = [up |-> TRUE, position |-> IF offset = 0 THEN Len(topic) ELSE offset]
    /\ UNCHANGED <<ticketVars, topic, offset, notified, failures>>

Connect ==
    /\ ~consumer.up
    /\ consumer' = [up |-> TRUE, position |-> offset]
    /\ UNCHANGED <<ticketVars, topic, offset, notified, failures>>

(* A message is handed out and processed without an await in between. *)
Process_Later ==
    /\ consumer.up /\ consumer.position < Len(topic)
    /\ consumer' = [consumer EXCEPT !.position = @ + 1]
    /\ notified' = notified \cup {topic[i] : i \in {consumer.position} \ {0}}
    /\ UNCHANGED <<ticketVars, topic, offset, failures>>

Process ==
    /\ consumer.up /\ consumer.position < Len(topic)
    /\ consumer' = [consumer EXCEPT !.position = @ + 1]
    /\ notified' = notified \cup {topic[consumer.position + 1]}
    /\ UNCHANGED <<ticketVars, topic, offset, failures>>

(* enable_auto_commit: in the background, every few seconds. *)
AutoCommit_PlusOne ==
    /\ consumer.up
    /\ offset' = consumer.position + 1
    /\ UNCHANGED <<ticketVars, topic, consumer, notified, failures>>

AutoCommit ==
    /\ consumer.up
    /\ offset' = consumer.position
    /\ UNCHANGED <<ticketVars, topic, consumer, notified, failures>>

(* The connection breaks: the consumer is stopped, which commits if it can,  *)
(* and another one connects after five seconds.                              *)
Disconnect ==
    /\ consumer.up
    /\ CountFailure
    /\ consumer' = Disconnected
    /\ offset' \in {offset, consumer.position}
    /\ UNCHANGED <<ticketVars, topic, notified>>

(* The process dies, or its lifespan cancels the task and the container      *)
(* starts again: nothing of the loop survives but the offset.                *)
CrashNotifier ==
    /\ consumer.up
    /\ CountFailure
    /\ consumer' = Disconnected
    /\ UNCHANGED <<ticketVars, topic, offset, notified>>

-----------------------------------------------------------------------------
Init ==
    /\ life = "down"
    /\ req = [o \in Orders |-> At("new")]
    /\ conn = {}
    /\ producer = None
    /\ started = {}
    /\ committed = {}
    /\ topic = << >>
    /\ consumer = Disconnected
    /\ offset = 0
    /\ notified = {}
    /\ failures = 0

Order(o) == GetConnection(o) \/ CommitOrder(o) \/ FailOrder(o)

Publish(o) ==
    \/ Reconnect(o) \/ Reconnected(o) \/ NotReconnected(o) \/ UseProducer(o)
    \/ \E copies \in 1 .. 2 : Send(o, copies)
    \/ SendFailed(o)

Consume == Connect \/ Process \/ AutoCommit

Next ==
    \/ LifeBegin \/ LifeStarted \/ LifeStop \/ CrashTickets
    \/ \E o \in Orders : BeginOrder(o) \/ Order(o) \/ Publish(o)
    \/ Consume \/ Disconnect \/ CrashNotifier

Spec == Init /\ [][Next]_vars

(* The awaits of the pool (30 seconds at most), of the database and of a     *)
(* producer's start end, with a result or an exception, and so does a send   *)
(* on a connected producer.  Nothing is assumed of a send on an object that  *)
(* is not connected: there Publish is not enabled.  The consumer loop        *)
(* retries its connection for ever and reads what there is.                  *)
Fairness ==
    /\ \A o \in Orders : WF_vars(Order(o)) /\ WF_vars(Publish(o))
    /\ WF_vars(Connect) /\ WF_vars(Process)

FairSpec == Spec /\ Fairness
-----------------------------------------------------------------------------
(* Properties *)

(* Every variable has its type; offsets are positions of the topic. *)
TypeOK ==
    /\ life \in {"down", "starting", "serving"}
    /\ req \in [Orders -> Reqs]
    /\ conn \subseteq Orders
    /\ producer \in Procs \cup {None}
    /\ started \subseteq Procs
    /\ committed \subseteq Orders /\ notified \subseteq Orders
    /\ topic \in Seq(Orders)
    /\ consumer \in [up : BOOLEAN, position : 0 .. Len(topic)]
    /\ offset \in 0 .. Len(topic)
    /\ failures \in Nat

(* The producer objects some await is connecting. *)
Starting == {o \in Orders : req[o].pc = "start"} \cup (IF life = "starting" THEN {Lifespan} ELSE {})

(* However handlers interleave in the lazy start, there is never a second    *)
(* producer, and the global names the one that is connected or is being      *)
(* connected: no connection is lost and no dead object stays in the global,  *)
(* where it would silence every later confirmation.                          *)
ProducerTracked == started \cup Starting = {producer} \ {None}

(* A confirmation, and so a notification, is only of an order that is in the *)
(* database, whatever crashes between the commit and the publication.        *)
ConfirmsCommitted == notified \cup {topic[i] : i \in 1 .. Len(topic)} \subseteq committed

(* At least once: what the group's offset has passed has been dispatched,    *)
(* so neither a crash nor a rebalance of the consumer skips an event,        *)
(* although commits run in the background.                                   *)
OffsetNotAhead == \A i \in 1 .. offset : topic[i] \in notified

(* A connection is with a handler that has a transaction open, and with      *)
(* nobody else: nothing answered or crashed keeps one, and nobody who waits  *)
(* for a connection has one, so the pool never waits for itself.             *)
ConnectionsHeld == conn = {o \in Orders : req[o].pc \in Connected}

(* A handler that found the global while another handler's start of it was   *)
(* awaited, and sends with the object although that start has failed: it     *)
(* waits for metadata that nobody fetches.                                   *)
Stranded(o) == req[o].pc = "send" /\ req[o].uses \notin started \cup Starting

(* Every order that is called for is answered, database, pool and Kafka or   *)
(* not, and so gives its connection back.  The stranded are the exception,   *)
(* and the only one: they have neither True nor False of                     *)
(* publish_booking_confirmation ("Returns True if published successfully,    *)
(* False otherwise", kafka_producer.py:67), and keep their connection.       *)
EveryOrderAnswered ==
    \A o \in Orders : req[o].pc # "new" ~> (req[o].pc \in Answered \/ Stranded(o))

(* An event in the topic is dispatched in the end. *)
EventsDelivered ==
    \A o \in Orders : (\E i \in 1 .. Len(topic) : topic[i] = o) ~> o \in notified

(* "Errors are logged to avoid failing already-committed transactions"       *)
(* (purchase.py:65): once a handler has come to its publication, nothing but *)
(* the death of the process keeps the answer 201 from its client.            *)
KafkaFailsNoOrder ==
    [][\A o \in Orders :
          (req[o].pc \in Publishing /\ req'[o].pc = "failed") => life' = "down"]_vars

(* The code implements the promise to the buyer.                             *)
Notices == INSTANCE OrderNotices WITH
    Orders <- Orders,
    committed <- committed,
    created <- {o \in Orders : req[o].pc = "created"},
    published <- {topic[i] : i \in 1 .. Len(topic)},
    notified <- notified
NoticesSpec == Notices!Spec
=============================================================================
