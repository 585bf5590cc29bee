---------------------------- MODULE OrderNotices ----------------------------
(***************************************************************************)
(* What the buyer of an order is told, and when: an order is committed     *)
(* before its client is told that it was created and before its            *)
(* confirmation is published, and a notification follows a publication.    *)
(* Nothing is taken back.  A crash, a lost connection or a failure of      *)
(* Kafka is a promise not kept yet, and appears here as no step at all;    *)
(* BookingEvents shows that the code, which has all of them, implements    *)
(* this.                                                                   *)
(***************************************************************************)
CONSTANT Orders

VARIABLES
    committed,   \* orders in the database
    created,     \* orders whose client has been answered 201
    published,   \* orders with an event in the topic
    notified     \* orders whose confirmation was dispatched

vars == <<committed, created, published, notified>>

Init == committed = {} /\ created = {} /\ published = {} /\ notified = {}

Commit(o) ==
    /\ o \notin committed
    /\ committed' = committed \cup {o}
    /\ UNCHANGED <<created, published, notified>>

Answer(o) ==
    /\ o \in committed
    /\ created' = created \cup {o}
    /\ UNCHANGED <<committed, published, notified>>

(* The acknowledgement of the broker may be what the answer waits for. *)
Publish(o) ==
    /\ o \in committed
    /\ published' = published \cup {o}
    /\ created' \in {created, created \cup {o}}
    /\ UNCHANGED <<committed, notified>>

Notify(o) ==
    /\ o \in published
    /\ notified' = notified \cup {o}
    /\ UNCHANGED <<committed, created, published>>

Next == \E o \in Orders : Commit(o) \/ Answer(o) \/ Publish(o) \/ Notify(o)

Spec == Init /\ [][Next]_vars
=============================================================================
