------------------------ MODULE BookingEventsProofs -------------------------
(***************************************************************************)
(* Proofs about BookingEvents for every set of orders and every number of  *)
(* crashes.                                                                *)
(***************************************************************************)
EXTENDS BookingEvents, TLAPS

(* An object is being connected or is connected, not both. *)
StartingApart == started \cap Starting = {}

ProducerInv == TypeOK /\ ProducerTracked /\ StartingApart

(* A handler past its commit has an order in the database. *)
PastCommit == {"reload", "created"} \cup Publishing
InFlightCommitted ==
    \A o \in Orders : req[o].pc \in PastCommit => o \in committed

ConfirmInv == TypeOK /\ ConfirmsCommitted /\ InFlightCommitted

(* What the connected consumer has been handed out has been dispatched. *)
PositionNotAhead == \A i \in 1 .. consumer.position : topic[i] \in notified

OffsetInv == TypeOK /\ OffsetNotAhead /\ PositionNotAhead

-----------------------------------------------------------------------------
(* Types *)

LEMMA CopiesAppended ==
    ASSUME NEW s \in Seq(Orders), NEW o \in Orders, NEW n \in Nat
    PROVE  /\ s \o [i \in 1 .. n |-> o] \in Seq(Orders)
           /\ Len(s \o [i \in 1 .. n |-> o]) = Len(s) + n
           /\ \A i \in 1 .. Len(s) : (s \o [j \in 1 .. n |-> o])[i] = s[i]
           /\ \A i \in 1 .. Len(s) + n :
                 i > Len(s) => (s \o [j \in 1 .. n |-> o])[i] = o
<1> DEFINE c == [i \in 1 .. n |-> o]
<1>1. c \in Seq(Orders) /\ Len(c) = n
  OBVIOUS
<1>2. Len(s) \in Nat
  OBVIOUS
<1>3. s \o c \in Seq(Orders) /\ Len(s \o c) = Len(s) + n
  BY <1>1
<1>4. \A i \in 1 .. Len(s) : (s \o c)[i] = s[i]
  BY <1>1, <1>2
<1>5. \A i \in 1 .. Len(s) + n : i > Len(s) => (s \o c)[i] = o
  <2> SUFFICES ASSUME NEW i \in 1 .. Len(s) + n, i > Len(s) PROVE (s \o c)[i] = o
    OBVIOUS
  <2> HIDE DEF c
  <2>1. (s \o c)[i] = c[i - Len(s)]
    BY <1>1, <1>2
  <2>2. i - Len(s) \in 1 .. n
    BY <1>2
  <2> QED
    BY <2>1, <2>2 DEF c
<1> QED
  BY <1>3, <1>4, <1>5

(* The initial state is typed. *)
LEMMA InitType == Init => TypeOK
  BY DEF Init, TypeOK, Reqs, At, Disconnected

(* Steps keep the types. *)
LEMMA NextType == TypeOK /\ [Next]_vars => TypeOK'
<1> SUFFICES ASSUME TypeOK, [Next]_vars PROVE TypeOK'
  OBVIOUS
<1> USE DEF TypeOK, Procs, Reqs, At, Waiting, Connected, Publishing, Answered
<1>1. CASE LifeBegin
  BY <1>1 DEF LifeBegin, BeginStart, notifVars
<1>2. CASE LifeStarted
  BY <1>2 DEF LifeStarted, StartOk, StartFailed, notifVars
<1>3. CASE LifeStop
  BY <1>3 DEF LifeStop, CountFailure, notifVars
<1>4. CASE CrashTickets
  BY <1>4 DEF CrashTickets, CountFailure, notifVars
<1>5. ASSUME NEW o \in Orders, BeginOrder(o) \/ Order(o) PROVE TypeOK'
  <2>1. CASE BeginOrder(o)
    BY <2>1 DEF BeginOrder, Goto, notifVars
  <2>2. CASE GetConnection(o)
    BY <2>2 DEF GetConnection, Goto, notifVars
  <2>3. CASE CommitOrder(o)
    BY <2>3 DEF CommitOrder, Goto, notifVars
  <2>4. CASE FailOrder(o)
    BY <2>4 DEF FailOrder, Finish, notifVars
  <2> QED
    BY <1>5, <2>1, <2>2, <2>3, <2>4 DEF Order
<1>6. ASSUME NEW o \in Orders, Publish(o) PROVE TypeOK'
  <2>1. CASE Reconnect(o)
    BY <2>1 DEF Reconnect, BeginStart, Goto, notifVars
  <2>2. CASE Reconnected(o)
    BY <2>2 DEF Reconnected, StartOk, notifVars
  <2>3. CASE NotReconnected(o)
    BY <2>3 DEF NotReconnected, StartFailed, Finish, notifVars
  <2>4. CASE UseProducer(o)
    BY <2>4 DEF UseProducer, notifVars
  <2>5. ASSUME NEW copies \in 1 .. 2, Send(o, copies) PROVE TypeOK'
    <3>1. topic' \in Seq(Orders) /\ Len(topic') = Len(topic) + copies
      BY <2>5, CopiesAppended DEF Send
    <3>2. req' \in [Orders -> Reqs] /\ conn' \subseteq Orders
      BY <2>5 DEF Send, Finish
    <3>3. Len(topic) \in Nat
      OBVIOUS
    <3>4. /\ consumer' \in [up : BOOLEAN, position : 0 .. Len(topic')]
          /\ offset' \in 0 .. Len(topic')
      BY <2>5, <3>1, <3>3 DEF Send, notifVars
    <3> QED
      BY <2>5, <3>1, <3>2, <3>4 DEF Send, notifVars
  <2>6. CASE SendFailed(o)
    BY <2>6 DEF SendFailed, Finish, notifVars
  <2> QED
    BY <1>6, <2>1, <2>2, <2>3, <2>4, <2>5, <2>6 DEF Publish
<1>7. CASE Connect
  BY <1>7 DEF Connect, ticketVars
<1>8. CASE Process
  BY <1>8 DEF Process, ticketVars
<1>9. CASE AutoCommit
  BY <1>9 DEF AutoCommit, ticketVars
<1>10. CASE Disconnect
  BY <1>10 DEF Disconnect, Disconnected, CountFailure, ticketVars
<1>11. CASE CrashNotifier
  BY <1>11 DEF CrashNotifier, Disconnected, CountFailure, ticketVars
<1>12. CASE UNCHANGED vars
  BY <1>12 DEF vars
<1> QED
  BY <1>1, <1>2, <1>3, <1>4, <1>5, <1>6, <1>7, <1>8, <1>9, <1>10, <1>11, <1>12 DEF Next, Consume

(* Every reachable state has its type: in particular the group's offset and  *)
(* the consumer's position never leave the topic.                            *)
THEOREM TypeCorrect == Spec => []TypeOK
<1> QED
  BY InitType, NextType, PTL DEF Spec

-----------------------------------------------------------------------------
(* The producer *)

(* Where a step changes which objects are being connected, and how. *)
LEMMA NextProducer == ProducerInv /\ [Next]_vars => ProducerTracked' /\ StartingApart'
<1> SUFFICES ASSUME ProducerInv, [Next]_vars PROVE ProducerTracked' /\ StartingApart'
  OBVIOUS
<1> USE DEF ProducerInv, TypeOK, ProducerTracked, StartingApart, Starting, Procs, At
<1> USE LifespanAssumption
<1>1. CASE LifeBegin
  BY <1>1 DEF LifeBegin, BeginStart
<1>2. CASE LifeStarted
  <2>1. UNCHANGED req /\ life = "starting" /\ life' = "serving"
    BY <1>2 DEF LifeStarted
  <2>2. Lifespan \in Starting /\ Starting' = Starting \ {Lifespan}
    BY <2>1
  <2>3. CASE StartOk(Lifespan)
    BY <2>2, <2>3 DEF StartOk
  <2>4. CASE StartFailed
    <3>1. Starting = {Lifespan} /\ started = {}
      BY <2>2
    <3> QED
      BY <2>2, <2>4, <3>1 DEF StartFailed
  <2> QED
    BY <1>2, <2>3, <2>4 DEF LifeStarted
<1>3. CASE LifeStop
  <2>1. Starting = {} /\ Starting' = {}
    BY <1>3 DEF LifeStop, Serving, Answered
  <2>2. producer' = None /\ started' = started \ {producer} /\ started = {producer} \ {None}
    BY <1>3, <2>1 DEF LifeStop
  <2> QED
    BY <2>1, <2>2
<1>4. CASE CrashTickets
  BY <1>4 DEF CrashTickets, Answered
<1>5. ASSUME NEW o \in Orders, BeginOrder(o) \/ Order(o) PROVE ProducerTracked' /\ StartingApart'
  <2>1. Starting' = Starting /\ UNCHANGED <<started, producer>>
    <3> USE DEF Reqs
    <3>1. CASE BeginOrder(o)
      BY <3>1 DEF BeginOrder, Goto
    <3>2. CASE GetConnection(o)
      BY <3>2 DEF GetConnection, Goto, Waiting
    <3>3. CASE CommitOrder(o)
      BY <3>3 DEF CommitOrder, Goto
    <3>4. CASE FailOrder(o)
      BY <3>4 DEF FailOrder, Finish, Waiting
    <3> QED
      BY <1>5, <3>1, <3>2, <3>3, <3>4 DEF Order
  <2> QED
    BY <2>1
<1>6. ASSUME NEW o \in Orders, Publish(o) PROVE ProducerTracked' /\ StartingApart'
  <2>1. CASE Reconnect(o)
    <3>1. Starting' = Starting \cup {o} /\ producer = None /\ producer' = o /\ UNCHANGED started
      BY <2>1 DEF Reconnect, BeginStart, Goto
    <3> QED
      BY <3>1
  <2>2. CASE Reconnected(o)
    <3>1. /\ o \in Starting /\ Starting' = Starting \ {o}
          /\ started' = started \cup {o} /\ UNCHANGED producer
      BY <2>2 DEF Reconnected, StartOk
    <3> QED
      BY <3>1
  <2>3. CASE NotReconnected(o)
    <3>1. /\ o \in Starting /\ Starting' = Starting \ {o}
          /\ producer' = None /\ UNCHANGED started
      BY <2>3 DEF NotReconnected, StartFailed, Finish
    <3>2. Starting = {o} /\ started = {}
      BY <3>1
    <3> QED
      BY <3>1, <3>2
  <2>4. CASE UseProducer(o)
    <3>1. Starting' = Starting /\ UNCHANGED <<started, producer>>
      BY <2>4 DEF UseProducer, Reqs
    <3> QED
      BY <3>1
  <2>5. ASSUME NEW copies \in 1 .. 2, Send(o, copies) PROVE ProducerTracked' /\ StartingApart'
    <3>1. Starting' = Starting /\ UNCHANGED <<started, producer>>
      BY <2>5 DEF Send, Finish
    <3> QED
      BY <3>1
  <2>6. CASE SendFailed(o)
    <3>1. Starting' = Starting /\ UNCHANGED <<started, producer>>
      BY <2>6 DEF SendFailed, Finish
    <3> QED
      BY <3>1
  <2> QED
    BY <1>6, <2>1, <2>2, <2>3, <2>4, <2>5, <2>6 DEF Publish
<1>7. CASE Consume \/ Disconnect \/ CrashNotifier \/ UNCHANGED vars
  BY <1>7 DEF Consume, Connect, Process, AutoCommit, Disconnect, CrashNotifier, ticketVars, vars
<1> QED
  BY <1>1, <1>2, <1>3, <1>4, <1>5, <1>6, <1>7 DEF Next

(* There is at most one producer object, and the global names it, however    *)
(* handlers interleave around the await of its start.                        *)
THEOREM OneProducer == Spec => []ProducerTracked
<1>1. Init => ProducerInv
  BY InitType DEF Init, ProducerInv, ProducerTracked, StartingApart, Starting, At
<1>2. ProducerInv /\ [Next]_vars => ProducerInv'
  BY NextType, NextProducer DEF ProducerInv
<1>3. ProducerInv => ProducerTracked
  BY DEF ProducerInv
<1> QED
  BY <1>1, <1>2, <1>3, PTL DEF Spec

-----------------------------------------------------------------------------
(* Confirmations and offsets *)

(* What a step adds to the topic and to the notified orders. *)
LEMMA TopicGrows ==
    ASSUME TypeOK, [Next]_vars
    PROVE  /\ Len(topic) <= Len(topic') /\ Len(topic) \in Nat /\ Len(topic') \in Nat
           /\ \A i \in 1 .. Len(topic) : topic'[i] = topic[i]
           /\ notified \subseteq notified'
<1>0. Len(topic) \in Nat
  BY DEF TypeOK
<1>1. ASSUME NEW o \in Orders, NEW copies \in 1 .. 2, Send(o, copies)
      PROVE  /\ Len(topic) <= Len(topic') /\ Len(topic') \in Nat
             /\ \A i \in 1 .. Len(topic) : topic'[i] = topic[i]
             /\ notified \subseteq notified'
  BY <1>0, <1>1, CopiesAppended DEF TypeOK, Send, notifVars
<1>2. CASE UNCHANGED topic
  <2>1. notified \subseteq notified'
    BY DEF Next, LifeBegin, LifeStarted, LifeStop, CrashTickets, BeginOrder, Order, GetConnection,
           CommitOrder, FailOrder, Publish, Reconnect,
           Reconnected, NotReconnected, UseProducer, Send, SendFailed, Consume, Connect, Process,
           AutoCommit, Disconnect, CrashNotifier, notifVars, vars
  <2> QED
    BY <1>0, <1>2, <2>1
<1>3. UNCHANGED topic \/ \E o \in Orders, copies \in 1 .. 2 : Send(o, copies)
  BY DEF Next, LifeBegin, LifeStarted, LifeStop, CrashTickets, BeginOrder, Order, GetConnection,
           CommitOrder, FailOrder, Publish, Reconnect,
         Reconnected, NotReconnected, UseProducer, SendFailed, Consume, Connect, Process,
         AutoCommit, Disconnect, CrashNotifier, vars
<1> QED
  BY <1>0, <1>1, <1>2, <1>3

(* A confirmation is only of an order in the database. *)
LEMMA NextConfirm == ConfirmInv /\ [Next]_vars => ConfirmsCommitted' /\ InFlightCommitted'
<1> SUFFICES ASSUME ConfirmInv, [Next]_vars PROVE ConfirmsCommitted' /\ InFlightCommitted'
  OBVIOUS
<1>0. /\ req \in [Orders -> Reqs]
      /\ topic \in Seq(Orders) /\ Len(topic) \in Nat
      /\ notified \subseteq committed
      /\ \A i \in 1 .. Len(topic) : topic[i] \in committed
      /\ \A o \in Orders : req[o].pc \in PastCommit => o \in committed
  BY DEF ConfirmInv, TypeOK, ConfirmsCommitted, InFlightCommitted
<1>1. CASE LifeBegin \/ LifeStarted \/ LifeStop \/ CrashTickets \/ UNCHANGED vars
  BY <1>0, <1>1 DEF LifeBegin, LifeStarted, LifeStop, CrashTickets, notifVars, vars,
                    ConfirmsCommitted, InFlightCommitted, At, PastCommit, Publishing
<1>2. ASSUME NEW o \in Orders, BeginOrder(o) \/ Order(o) PROVE ConfirmsCommitted' /\ InFlightCommitted'
  <2>1. UNCHANGED <<topic, notified>> /\ committed \subseteq committed'
    BY <1>2 DEF BeginOrder, Order, GetConnection, CommitOrder, FailOrder, notifVars
  <2>2. \A q \in Orders : req'[q].pc \in PastCommit => q \in committed'
    <3> USE DEF PastCommit, Publishing
    <3>1. CASE BeginOrder(o)
      BY <1>0, <3>1 DEF BeginOrder, Goto, Reqs
    <3>2. CASE GetConnection(o)
      BY <1>0, <3>2 DEF GetConnection, Goto, Waiting, Reqs
    <3>3. CASE CommitOrder(o)
      BY <1>0, <3>3 DEF CommitOrder, Goto, Reqs
    <3>4. CASE FailOrder(o)
      BY <1>0, <3>4 DEF FailOrder, Finish, At
    <3> QED
      BY <1>2, <3>1, <3>2, <3>3, <3>4 DEF Order
  <2> QED
    BY <1>0, <2>1, <2>2 DEF ConfirmsCommitted, InFlightCommitted
<1>3. ASSUME NEW o \in Orders, Publish(o) PROVE ConfirmsCommitted' /\ InFlightCommitted'
  <2>1. o \in committed /\ UNCHANGED <<committed, notified>>
    BY <1>0, <1>3 DEF Publish, Reconnect, Reconnected, NotReconnected, UseProducer, Send, SendFailed,
                      notifVars, PastCommit, Publishing
  <2>2. \A q \in Orders : req'[q].pc \in PastCommit => q \in committed
    <3>1. \A q \in Orders \ {o} : req'[q] = req[q]
      BY <1>0, <1>3 DEF Publish, Reconnect, Reconnected, NotReconnected, UseProducer, Send,
                        SendFailed, Goto, Finish
    <3> QED
      BY <1>0, <2>1, <3>1
  <2>3. \A i \in 1 .. Len(topic') : topic'[i] \in committed
    <3>1. ASSUME NEW copies \in 1 .. 2, Send(o, copies) PROVE \A i \in 1 .. Len(topic') : topic'[i] \in committed
      <4>1. /\ Len(topic') = Len(topic) + copies
            /\ \A i \in 1 .. Len(topic) : topic'[i] = topic[i]
            /\ \A i \in 1 .. Len(topic) + copies : i > Len(topic) => topic'[i] = o
        BY <1>0, <3>1, CopiesAppended DEF Send
      <4> QED
        BY <1>0, <2>1, <4>1
    <3>2. CASE UNCHANGED topic
      BY <1>0, <3>2
    <3> QED
      BY <1>3, <3>1, <3>2 DEF Publish, Reconnect, Reconnected, NotReconnected, UseProducer, SendFailed
  <2> QED
    BY <1>0, <2>1, <2>2, <2>3 DEF ConfirmsCommitted, InFlightCommitted
<1>4. CASE Process
  <2>1. consumer.position + 1 \in 1 .. Len(topic)
    BY <1>0, <1>4 DEF Process, ConfirmInv, TypeOK
  <2> QED
    BY <1>0, <1>4, <2>1 DEF Process, ticketVars, ConfirmsCommitted, InFlightCommitted
<1>5. CASE Connect \/ AutoCommit \/ Disconnect \/ CrashNotifier
  BY <1>0, <1>5 DEF Connect, AutoCommit, Disconnect, CrashNotifier, ticketVars,
                    ConfirmsCommitted, InFlightCommitted
<1> QED
  BY <1>1, <1>2, <1>3, <1>4, <1>5 DEF Next, Consume

(* Whatever crashes, nobody is told of an order that was not committed. *)
THEOREM ConfirmationsAreTrue == Spec => []ConfirmsCommitted
<1>1. Init => ConfirmInv
  BY InitType DEF Init, ConfirmInv, ConfirmsCommitted, InFlightCommitted, PastCommit, Publishing, At
<1>2. ConfirmInv /\ [Next]_vars => ConfirmInv'
  BY NextType, NextConfirm DEF ConfirmInv
<1>3. ConfirmInv => ConfirmsCommitted
  BY DEF ConfirmInv
<1> QED
  BY <1>1, <1>2, <1>3, PTL DEF Spec

(* The offset follows what has been dispatched. *)
LEMMA NextOffset == OffsetInv /\ [Next]_vars => OffsetNotAhead' /\ PositionNotAhead'
<1> SUFFICES ASSUME OffsetInv, [Next]_vars PROVE OffsetNotAhead' /\ PositionNotAhead'
  OBVIOUS
<1>0. /\ Len(topic) \in Nat /\ offset \in 0 .. Len(topic) /\ consumer.position \in 0 .. Len(topic)
      /\ consumer \in [up : BOOLEAN, position : 0 .. Len(topic)]
      /\ \A i \in 1 .. offset : topic[i] \in notified
      /\ \A i \in 1 .. consumer.position : topic[i] \in notified
  BY DEF OffsetInv, TypeOK, OffsetNotAhead, PositionNotAhead
<1>1. /\ \A i \in 1 .. Len(topic) : topic'[i] = topic[i]
      /\ notified \subseteq notified'
  BY TopicGrows DEF OffsetInv
<1>2. \A i \in 1 .. offset : topic'[i] \in notified'
  BY <1>0, <1>1
<1>3. \A i \in 1 .. consumer.position : topic'[i] \in notified'
  BY <1>0, <1>1
<1>4. CASE Process
  <2>1. /\ offset' = offset /\ consumer'.position = consumer.position + 1
        /\ topic[consumer.position + 1] \in notified' /\ topic' = topic
    BY <1>0, <1>4 DEF Process
  <2> QED
    BY <1>0, <1>2, <1>3, <2>1 DEF OffsetNotAhead, PositionNotAhead
<1>5. /\ offset' \in {offset, consumer.position}
      /\ Process \/ consumer'.position \in {consumer.position, offset, 0}
  BY <1>0 DEF Next, LifeBegin, LifeStarted, LifeStop, CrashTickets, BeginOrder, Order, GetConnection,
           CommitOrder, FailOrder, Publish, Reconnect,
         Reconnected, NotReconnected, UseProducer, Send, SendFailed, Consume, Connect, Process,
         AutoCommit, Disconnect, CrashNotifier, Disconnected, notifVars, vars
<1> QED
  BY <1>0, <1>2, <1>3, <1>4, <1>5 DEF OffsetNotAhead, PositionNotAhead

(* At-least-once dispatch: no event the group's offset has passed is missing. *)
THEOREM NothingSkipped == Spec => []OffsetNotAhead
<1>1. Init => OffsetInv
  BY InitType DEF Init, OffsetInv, OffsetNotAhead, PositionNotAhead, Disconnected
<1>2. OffsetInv /\ [Next]_vars => OffsetInv'
  BY NextType, NextOffset DEF OffsetInv
<1>3. OffsetInv => OffsetNotAhead
  BY DEF OffsetInv
<1> QED
  BY <1>1, <1>2, <1>3, PTL DEF Spec

-----------------------------------------------------------------------------
(* Connections and answers *)

(* What a step does to one handler and its connection: it keeps both, or is  *)
(* the handler's own, or the process dies.                                   *)
LEMMA HandlerSteps ==
    ASSUME TypeOK, [Next]_vars, NEW o \in Orders
    PROVE  \/ UNCHANGED req[o] /\ (o \in conn' <=> o \in conn)
           \/ BeginOrder(o) \/ Order(o) \/ Publish(o)
           \/ CrashTickets
<1>1. CASE LifeBegin \/ LifeStarted \/ LifeStop \/ Consume \/ Disconnect \/ CrashNotifier \/ UNCHANGED vars
  BY <1>1 DEF LifeBegin, LifeStarted, LifeStop, Consume, Connect, Process, AutoCommit, Disconnect,
              CrashNotifier, ticketVars, vars
<1>2. ASSUME NEW q \in Orders, q # o, BeginOrder(q) \/ Order(q) \/ Publish(q)
      PROVE  UNCHANGED req[o] /\ (o \in conn' <=> o \in conn)
  <2> USE DEF TypeOK
  <2>1. CASE BeginOrder(q) \/ Order(q)
    BY <1>2, <2>1 DEF BeginOrder, Order, GetConnection, CommitOrder, FailOrder, Goto, Finish
  <2>2. CASE Publish(q)
    BY <1>2, <2>2 DEF Publish, Reconnect, Reconnected, NotReconnected, UseProducer, Send, SendFailed,
                      Goto, Finish
  <2> QED
    BY <1>2, <2>1, <2>2
<1> QED
  BY <1>1, <1>2 DEF Next

(* What a handler's own step does to it. *)
LEMMA OwnSteps ==
    ASSUME TypeOK, NEW o \in Orders, BeginOrder(o) \/ Order(o) \/ Publish(o)
    PROVE  \/ BeginOrder(o) /\ req'[o].pc = "want" /\ conn' = conn
           \/ GetConnection(o) /\ req'[o].pc \in {"open", "publish"} /\ conn' = conn \cup {o}
           \/ CommitOrder(o) /\ req'[o].pc = "reload" /\ conn' = conn \ {o}
           \/ FailOrder(o) /\ req'[o].pc = "failed" /\ conn' = conn \ {o}
           \/ /\ req[o].pc \in Publishing
              /\ \/ req'[o].pc \in {"start", "send"} /\ conn' = conn
                 \/ req'[o].pc = "created" /\ conn' = conn \ {o}
<1> USE DEF TypeOK, Reqs
<1>1. CASE BeginOrder(o)
  BY <1>1 DEF BeginOrder, Goto
<1>2. CASE GetConnection(o)
  BY <1>2 DEF GetConnection, Goto
<1>3. CASE CommitOrder(o)
  BY <1>3 DEF CommitOrder, Goto
<1>4. CASE FailOrder(o)
  BY <1>4 DEF FailOrder, Finish, At
<1>5. CASE Reconnect(o)
  BY <1>5 DEF Reconnect, Goto, Publishing
<1>6. CASE Reconnected(o) \/ UseProducer(o)
  BY <1>6 DEF Reconnected, UseProducer, Publishing
<1>7. CASE NotReconnected(o) \/ SendFailed(o) \/ \E copies \in 1 .. 2 : Send(o, copies)
  BY <1>7 DEF NotReconnected, SendFailed, Send, Finish, At, Publishing
<1> QED
  BY <1>1, <1>2, <1>3, <1>4, <1>5, <1>6, <1>7 DEF Order, Publish

(* No connection leaks, and no handler that waits for one has one, so the    *)
(* pool is never exhausted by handlers waiting for each other.               *)
THEOREM NoConnectionLeaks == Spec => []ConnectionsHeld
<1> DEFINE Held == TypeOK /\ ConnectionsHeld
<1>1. Init => Held
  BY InitType DEF Init, ConnectionsHeld, Connected, Publishing, At
<1>2. Held /\ [Next]_vars => Held'
  <2> SUFFICES ASSUME TypeOK, ConnectionsHeld, [Next]_vars PROVE ConnectionsHeld'
    BY NextType
  <2> USE DEF Connected, Publishing
  <2>1. CASE CrashTickets
    BY <2>1 DEF CrashTickets, ConnectionsHeld, Answered, At
  <2>2. CASE ~CrashTickets
    <3> SUFFICES ASSUME NEW o \in Orders PROVE o \in conn' <=> req'[o].pc \in Connected
      BY NextType DEF ConnectionsHeld, TypeOK
    <3>1. o \in conn <=> req[o].pc \in Connected
      BY DEF ConnectionsHeld
    <3>2. CASE UNCHANGED req[o] /\ (o \in conn' <=> o \in conn)
      BY <3>1, <3>2
    <3>3. CASE BeginOrder(o) \/ Order(o) \/ Publish(o)
      <4>1. BeginOrder(o) => req[o].pc = "new"
        BY DEF BeginOrder
      <4> QED
        BY <3>1, <3>3, <4>1, OwnSteps
    <3> QED
      BY <2>2, <3>2, <3>3, HandlerSteps
  <2> QED
    BY <2>1, <2>2
<1>3. Held => ConnectionsHeld
  OBVIOUS
<1> QED
  BY <1>1, <1>2, <1>3, PTL DEF Spec

(* A committed order that has come to its publication is answered 201 unless *)
(* the process dies, whatever Kafka does.                                    *)
THEOREM KafkaNeverFailsOrders == Spec => KafkaFailsNoOrder
<1>1. TypeOK /\ [Next]_vars =>
         [\A o \in Orders :
            (req[o].pc \in Publishing /\ req'[o].pc = "failed") => life' = "down"]_vars
  <2> SUFFICES ASSUME TypeOK, [Next]_vars, NEW o \in Orders,
                      req[o].pc \in Publishing, req'[o].pc = "failed"
               PROVE  life' = "down"
    OBVIOUS
  <2>1. ~(UNCHANGED req[o])
    BY DEF Publishing
  <2>2. ~FailOrder(o)
    BY DEF FailOrder, Publishing, Waiting
  <2>3. ~(BeginOrder(o) \/ Order(o) \/ Publish(o))
    BY <2>2, OwnSteps
  <2> QED
    BY <2>1, <2>3, HandlerSteps DEF CrashTickets
<1> QED
  BY <1>1, TypeCorrect, PTL DEF Spec, KafkaFailsNoOrder

-----------------------------------------------------------------------------
(* The promise to the buyer *)

(* An order is committed once, by its own handler. *)
Uncommitted == \A o \in Orders : req[o].pc \in {"new", "want", "open"} => o \notin committed

NoticesInv == ConfirmInv /\ Uncommitted

LEMMA NextUncommitted == NoticesInv /\ [Next]_vars => Uncommitted'
<1> SUFFICES ASSUME NoticesInv, [Next]_vars, NEW o \in Orders,
                    req'[o].pc \in {"new", "want", "open"}, o \in committed'
             PROVE  FALSE
  BY DEF Uncommitted
<1>1. TypeOK /\ (req[o].pc \in {"new", "want", "open"} => o \notin committed)
  BY DEF NoticesInv, ConfirmInv, Uncommitted
<1>2. o \in committed \/ CommitOrder(o)
  BY DEF Next, LifeBegin, LifeStarted, LifeStop, CrashTickets, BeginOrder, Order, GetConnection,
         CommitOrder, FailOrder, Publish, Reconnect, Reconnected, NotReconnected, UseProducer, Send,
         SendFailed, Consume, Connect, Process, AutoCommit, Disconnect, CrashNotifier, ticketVars, vars
<1>3. CASE CommitOrder(o)
  BY <1>1, <1>3 DEF CommitOrder, Goto, TypeOK, Reqs
<1>4. CASE o \in committed
  <2>1. req[o].pc \notin {"new", "want", "open"}
    BY <1>1, <1>4
  <2>2. CASE UNCHANGED req[o]
    BY <2>1, <2>2
  <2>3. CASE CrashTickets
    BY <1>1, <2>1, <2>3 DEF CrashTickets, At
  <2>4. CASE BeginOrder(o) \/ Order(o) \/ Publish(o)
    <3>1. ~BeginOrder(o) /\ (GetConnection(o) => req'[o].pc = "publish")
      BY <1>1, <2>1 DEF BeginOrder, GetConnection, Goto, TypeOK, Reqs
    <3> QED
      BY <1>1, <2>4, <3>1, OwnSteps
  <2> QED
    BY <1>1, <2>2, <2>3, <2>4, HandlerSteps
<1> QED
  BY <1>2, <1>3, <1>4

(* What a step of the code is to the buyer. *)
LEMMA NoticesStep == NoticesInv /\ [Next]_vars => [Notices!Next]_(Notices!vars)
<1> SUFFICES ASSUME NoticesInv, [Next]_vars PROVE [Notices!Next]_(Notices!vars)
  OBVIOUS
<1> DEFINE Created == {o \in Orders : req[o].pc = "created"}
           Published == {topic[i] : i \in 1 .. Len(topic)}
<1>0. /\ TypeOK /\ Len(topic) \in Nat
      /\ \A o \in Orders : req[o].pc \in PastCommit => o \in committed
  BY DEF NoticesInv, ConfirmInv, InFlightCommitted, TypeOK
<1>1. ASSUME UNCHANGED <<committed, topic, notified>>, Created' = Created
      PROVE  UNCHANGED Notices!vars
  BY <1>1 DEF Notices!vars
<1>2. CASE LifeBegin \/ LifeStarted \/ LifeStop \/ UNCHANGED vars
  <2>1. UNCHANGED <<committed, topic, notified, req>>
    BY <1>2 DEF LifeBegin, LifeStarted, LifeStop, notifVars, vars
  <2> QED
    BY <1>1, <2>1
<1>3. CASE CrashTickets
  <2>1. UNCHANGED <<committed, topic, notified>> /\ Created' = Created
    BY <1>3 DEF CrashTickets, notifVars, At, Answered
  <2> QED
    BY <1>1, <2>1
<1>4. CASE Connect \/ AutoCommit \/ Disconnect \/ CrashNotifier
  <2>1. UNCHANGED <<committed, topic, notified, req>>
    BY <1>4 DEF Connect, AutoCommit, Disconnect, CrashNotifier, ticketVars
  <2> QED
    BY <1>1, <2>1
<1>5. CASE Process
  <2> DEFINE o == topic[consumer.position + 1]
  <2>1. consumer.position + 1 \in 1 .. Len(topic) /\ o \in Orders
    BY <1>0, <1>5 DEF Process, TypeOK
  <2>2. o \in Published
    BY <2>1
  <2>3. notified' = notified \cup {o} /\ UNCHANGED <<committed, topic, req>>
    BY <1>5 DEF Process, ticketVars
  <2> QED
    BY <2>1, <2>2, <2>3 DEF Notices!Next, Notices!Notify
<1>6. ASSUME NEW o \in Orders, BeginOrder(o) \/ GetConnection(o) \/ FailOrder(o)
      PROVE  UNCHANGED Notices!vars
  <2>1. UNCHANGED <<committed, topic, notified>>
    BY <1>6 DEF BeginOrder, GetConnection, FailOrder, notifVars
  <2>2. Created' = Created
    <3>1. \A q \in Orders \ {o} : req'[q] = req[q]
      BY <1>0, <1>6 DEF BeginOrder, GetConnection, FailOrder, Goto, Finish, TypeOK
    <3>2. req[o].pc # "created"
      BY <1>6 DEF BeginOrder, GetConnection, FailOrder, Waiting
    <3>3. req'[o].pc # "created"
      <4>1. CASE BeginOrder(o)
        BY <1>0, <4>1 DEF BeginOrder, Goto, TypeOK, Reqs
      <4>2. CASE GetConnection(o)
        BY <1>0, <4>2 DEF GetConnection, Goto, TypeOK, Reqs
      <4>3. CASE FailOrder(o)
        BY <1>0, <4>3 DEF FailOrder, Finish, At, TypeOK
      <4> QED
        BY <1>6, <4>1, <4>2, <4>3
    <3> QED
      BY <3>1, <3>2, <3>3
  <2> QED
    BY <1>1, <2>1, <2>2
<1>7. ASSUME NEW o \in Orders, CommitOrder(o) PROVE Notices!Next
  <2>1. o \notin committed /\ committed' = committed \cup {o} /\ UNCHANGED <<topic, notified>>
    BY <1>7 DEF CommitOrder, NoticesInv, Uncommitted, notifVars
  <2>2. Created' = Created
    BY <1>0, <1>7 DEF CommitOrder, Goto, TypeOK, Reqs
  <2> QED
    BY <2>1, <2>2 DEF Notices!Next, Notices!Commit
<1>8. ASSUME NEW o \in Orders, Publish(o) PROVE [Notices!Next]_(Notices!vars)
  <2>1. o \in committed /\ UNCHANGED <<committed, notified>>
    BY <1>0, <1>8 DEF Publish, Reconnect, Reconnected, NotReconnected, UseProducer, Send, SendFailed,
                      notifVars, PastCommit, Publishing
  <2>2. Created' \in {Created, Created \cup {o}}
    <3>1. \A q \in Orders \ {o} : req'[q] = req[q]
      BY <1>0, <1>8 DEF Publish, Reconnect, Reconnected, NotReconnected, UseProducer, Send, SendFailed,
                        Goto, Finish, TypeOK
    <3>2. req[o].pc # "created"
      BY <1>8 DEF Publish, Reconnect, Reconnected, NotReconnected, UseProducer, Send, SendFailed
    <3> QED
      BY <3>1, <3>2
  <2>3. CASE UNCHANGED topic
    <3>1. CASE Created' = Created
      BY <1>1, <2>1, <2>3, <3>1
    <3>2. CASE Created' = Created \cup {o}
      BY <2>1, <2>3, <3>2 DEF Notices!Next, Notices!Answer
    <3> QED
      BY <2>2, <3>1, <3>2
  <2>4. ASSUME NEW copies \in 1 .. 2, Send(o, copies) PROVE Notices!Next
    <3>1. /\ Len(topic') = Len(topic) + copies /\ copies \in Nat
          /\ \A i \in 1 .. Len(topic) : topic'[i] = topic[i]
          /\ \A i \in 1 .. Len(topic) + copies : i > Len(topic) => topic'[i] = o
      BY <1>0, <2>4, CopiesAppended DEF Send, TypeOK
    <3>2. Published' = Published \cup {o}
      <4>1. Published' \subseteq Published \cup {o}
        BY <1>0, <3>1
      <4>2. \A i \in 1 .. Len(topic) : i \in 1 .. Len(topic') /\ topic'[i] = topic[i]
        BY <1>0, <3>1
      <4>3. Len(topic) + 1 \in 1 .. Len(topic') /\ topic'[Len(topic) + 1] = o
        BY <1>0, <3>1
      <4> QED
        BY <4>1, <4>2, <4>3
    <3> QED
      BY <2>1, <2>2, <3>2 DEF Notices!Next, Notices!Publish
  <2> QED
    BY <1>8, <2>3, <2>4 DEF Publish, Reconnect, Reconnected, NotReconnected, UseProducer, SendFailed
<1> QED
  BY <1>2, <1>3, <1>4, <1>5, <1>6, <1>7, <1>8 DEF Next, Consume, Order

(* The handlers, the pool, the shared producer, the topic and the consumer,  *)
(* with their crashes, implement what the buyer is promised.                 *)
THEOREM ImplementsNotices == Spec => NoticesSpec
<1>1. Init => NoticesInv /\ Notices!Init
  <2> SUFFICES ASSUME Init PROVE NoticesInv /\ Notices!Init
    OBVIOUS
  <2>1. NoticesInv
    BY InitType DEF Init, NoticesInv, ConfirmInv, ConfirmsCommitted, InFlightCommitted, Uncommitted,
                    PastCommit, Publishing, At
  <2>2. {o \in Orders : req[o].pc = "created"} = {}
    BY DEF Init, At
  <2>3. {topic[i] : i \in 1 .. Len(topic)} = {}
    BY DEF Init
  <2> QED
    BY <2>1, <2>2, <2>3 DEF Init, Notices!Init
<1>2. NoticesInv /\ [Next]_vars => NoticesInv'
  BY NextType, NextConfirm, NextUncommitted DEF NoticesInv, ConfirmInv
<1> QED
  BY <1>1, <1>2, NoticesStep, PTL DEF Spec, NoticesSpec, Notices!Spec
=============================================================================
