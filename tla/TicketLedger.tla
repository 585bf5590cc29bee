---------------------------- MODULE TicketLedger ----------------------------
(***************************************************************************)
(* What the ticket service promises of its tickets table and its orders,   *)
(* with every request and the expired-lock job taken as one atomic step.   *)
(* No transactions, row locks, snapshots or handlers appear here; Purchase *)
(* shows that the code, which has all of them, implements this.            *)
(***************************************************************************)
EXTENDS Naturals, Sequences

CONSTANTS
    Users,      \* authenticated buyers
    Tickets,    \* the generated tickets
    None,       \* NULL
    LockTTL,    \* life of a reservation, in ticks
    MaxTime     \* bound of the clock

VARIABLES
    ticket,     \* row of each ticket: status, locked_by, locked_until
    orders,     \* the orders, in the order they were committed
    now         \* the clock

vars == <<ticket, orders, now>>

AvailableRow == [status |-> "available", by |-> None, until |-> None]
LockedRow(u, e) == [status |-> "locked", by |-> u, until |-> e]
SoldRow == [status |-> "sold", by |-> None, until |-> None]

HeldBy(t, u) == ticket[t].status = "locked" /\ ticket[t].by = u

SetRows(S, row) == [t \in Tickets |-> IF t \in S THEN row ELSE ticket[t]]

Init ==
    /\ ticket = [t \in Tickets |-> AvailableRow]
    /\ orders = << >>
    /\ now = 0

(* A user reserves a free ticket for at most LockTTL from now. *)
Reserve(u, t, e) ==
    /\ ticket[t] = AvailableRow
    /\ e <= now + LockTTL
    /\ ticket' = SetRows({t}, LockedRow(u, e))
    /\ UNCHANGED <<orders, now>>

(* The holder buys a set of held tickets: all of them, or none. *)
Buy(u, S) ==
    /\ \A t \in S : HeldBy(t, u)
    /\ ticket' = SetRows(S, SoldRow)
    /\ orders' = Append(orders, [user |-> u, items |-> S])
    /\ UNCHANGED now

(* A holder gives a ticket back before its reservation ends, or after. *)
Cancel(u, t) ==
    /\ HeldBy(t, u)
    /\ ticket' = SetRows({t}, AvailableRow)
    /\ UNCHANGED <<orders, now>>

(* Reservations whose time is over return to the pool together. *)
Expire(S) ==
    /\ \A t \in S : ticket[t].status = "locked" /\ ticket[t].until < now
    /\ ticket' = SetRows(S, AvailableRow)
    /\ UNCHANGED <<orders, now>>

Tick ==
    /\ now < MaxTime
    /\ now' = now + 1
    /\ UNCHANGED <<ticket, orders>>

Next ==
    \/ \E u \in Users, t \in Tickets, e \in 0 .. MaxTime + LockTTL : Reserve(u, t, e)
    \/ \E u \in Users, S \in (SUBSET Tickets) \ {{}} : Buy(u, S)
    \/ \E u \in Users, t \in Tickets : Cancel(u, t)
    \/ \E S \in SUBSET Tickets : Expire(S)
    \/ Tick

Spec == Init /\ [][Next]_vars
=============================================================================
