------------------------------ MODULE Purchase ------------------------------
(***************************************************************************)
(* The purchase path of the ticket service: the handlers lock_ticket,      *)
(* create_order and release_lock, and the job reap_expired_locks, running  *)
(* concurrently against the tickets and orders tables of one PostgreSQL    *)
(* database at READ COMMITTED.                                             *)
(*                                                                         *)
(* Handlers yield at every await, so a step of this module is what happens *)
(* between two awaits, or one visit of a row by a SQL statement.  A        *)
(* transaction's writes are flushed by its commit, so `ticket' and         *)
(* `orders' hold committed data only; what a transaction owns before it    *)
(* commits is the row locks in `rowLock'.  A rollback (an HTTPException    *)
(* leaving get_db, a database error, a deadlock victim, a crash) changes   *)
(* nothing but the row locks.                                              *)
(***************************************************************************)
EXTENDS Integers, Sequences, FiniteSets

CONSTANTS
    Users,       \* authenticated buyers
    Tickets,     \* tickets of the table, numbered in the order of ticket_id
    UnknownIds,  \* ticket ids a client may name that are in no row
    TierOf,      \* tier of each ticket
    Requests,    \* request handlers the server can be running at once
    Reaper,      \* the APScheduler job
    None,        \* NULL; no holder
    LockTTL,     \* LOCK_TTL_MINUTES, in ticks
    MaxTime,     \* bound of the clock
    MaxFailures  \* bound of the crashes of the process and the failures of the job

ASSUME TicketsAssumption == Tickets \subseteq Nat /\ UnknownIds \cap Tickets = {}
ASSUME NoneAssumption == None \notin Users \cup Requests \cup {Reaper} \cup Nat
ASSUME ReaperAssumption == Reaper \notin Requests
ASSUME RequestsAssumption == IsFiniteSet(Requests)
ASSUME BoundsAssumption == LockTTL \in Nat /\ MaxTime \in Nat /\ MaxFailures \in Nat

VARIABLES
    ticket,      \* committed row of each ticket
    rowLock,     \* the transaction that holds each row FOR UPDATE, or None
    orders,      \* committed orders with their items, in commit order
    req,         \* the handlers
    reap,        \* the reaper job
    now,         \* the clock _now() reads
    failures     \* crashes, and failures of the job, so far

vars == <<ticket, rowLock, orders, req, reap, now, failures>>

-----------------------------------------------------------------------------
(* Rows, handlers and row locks *)

Tiers == {TierOf[t] : t \in Tickets}
Procs == Requests \cup {Reaper}
Rows == [status : {"available", "locked", "sold"}, by : Users \cup {None}, until : Nat \cup {None}]

AvailableRow == [status |-> "available", by |-> None, until |-> None]
LockedRow(u, e) == [status |-> "locked", by |-> u, until |-> e]
SoldRow == [status |-> "sold", by |-> None, until |-> None]

Expired_OneTickLate(row, at) == row.until # None /\ row.until + 1 < at

(* SQL and _is_lock_expired agree: a NULL locked_until has not expired. *)
Expired(row, at) == row.until # None /\ row.until < at

(* The UPDATE statement's WHERE clause. *)
Reapable(row, at) == row.status = "locked" /\ Expired(row, at)

(* A user's reservation that lock_ticket takes for live. *)
LiveLock(t, u) ==
    /\ ticket[t].status = "locked" /\ ticket[t].by = u
    /\ ticket[t].until # None /\ ticket[t].until > now

(* Where a handler's transaction may hold row locks, and everywhere else.    *)
GrabPCs == {"lock_grab", "lock_stamp", "lock_commit"}
HoldingPCs == GrabPCs \cup {"order_rows", "order_buy", "release_row"}
PCs == {"idle", "lock_check", "lock_scan"} \cup HoldingPCs

(* A handler: where it is, who calls it, the tier or the ticket ids it was   *)
(* given, the rows its statement still looks at, the values it has read of   *)
(* the rows it has locked, and the locked_until it is about to write.        *)
Handlers == [pc : PCs, user : Users \cup {None}, tier : Tiers \cup {None},
             rows : SUBSET (Tickets \cup UnknownIds),
             seen : [Tickets -> Rows \cup {None}], until : Nat \cup {None}]
IdleReq == [pc |-> "idle", user |-> None, tier |-> None, rows |-> {},
            seen |-> [t \in Tickets |-> None], until |-> None]

(* The reaper: the time it has read, the rows its UPDATE has yet to visit    *)
(* and the one it is at.                                                     *)
Reapers == [pc : {"idle", "update", "sweep"}, at : Nat,
            todo : SUBSET Tickets, row : Tickets \cup {None}]
IdleReap == [pc |-> "idle", at |-> 0, todo |-> {}, row |-> None]

Held(p) == {t \in Tickets : rowLock[t] = p}
Free(t) == rowLock[t] = None

(* rowLock when p's transaction ends. *)
Unlocked(p) == [t \in Tickets |-> IF rowLock[t] = p THEN None ELSE rowLock[t]]

(* ticket when a transaction that wrote `row' to the rows S commits. *)
Written(S, row) == [t \in Tickets |-> IF t \in S THEN row ELSE ticket[t]]

(* ORDER BY ticket_id ... FOR UPDATE: the rows not yet locked, and the one   *)
(* the statement is at (a set of one row or none).                           *)
Unvisited(r) == (req[r].rows \cap Tickets) \ Held(r)
Least_NoOrderBy(S) == S
Least(S) == {t \in S : \A x \in S : t <= x}
RowOf(r) == IF req[r].pc \in {"order_rows", "release_row"} THEN Least(Unvisited(r)) ELSE {}

Goto(r, pc) == req' = [req EXCEPT ![r].pc = pc]

(* The handler returns or raises and its session is closed. *)
End(r) ==
    /\ rowLock' = Unlocked(r)
    /\ req' = [req EXCEPT ![r] = IdleReq]

Rollback(r) == End(r) /\ UNCHANGED <<ticket, orders, reap, now, failures>>
-----------------------------------------------------------------------------
(* POST /tickets/lock *)

(* A tier that is not in the table is answered 404 and leaves no trace. *)
StartLock(r, u, k) ==
    /\ req[r].pc = "idle"
    /\ req' = [req EXCEPT ![r] = [IdleReq EXCEPT !.pc = "lock_check", !.user = u, !.tier = k]]
    /\ UNCHANGED <<ticket, rowLock, orders, reap, now, failures>>

HasLiveLock_Never(r) == FALSE

HasLiveLock(r) == \E t \in Tickets : TierOf[t] = req[r].tier /\ LiveLock(t, req[r].user)

(* The plain SELECT of step 2 takes no lock on what it reads. *)
CheckExisting(r) ==
    /\ req[r].pc = "lock_check"
    /\ ~HasLiveLock(r)
    /\ Goto(r, "lock_scan")
    /\ UNCHANGED <<ticket, rowLock, orders, reap, now, failures>>

RejectSecondLock(r) ==
    /\ req[r].pc = "lock_check"
    /\ HasLiveLock(r)
    /\ Rollback(r)

(* The snapshot of SELECT ... FOR UPDATE SKIP LOCKED LIMIT 1. *)
ScanAvailable(r) ==
    /\ req[r].pc = "lock_scan"
    /\ req' = [req EXCEPT ![r].pc = "lock_grab",
                          ![r].rows = {t \in Tickets : /\ TierOf[t] = req[r].tier
                                                       /\ ticket[t].status = "available"}]
    /\ UNCHANGED <<ticket, rowLock, orders, reap, now, failures>>

(* The statement visits the rows of its snapshot in any order, skips those   *)
(* that are locked, and rechecks the newest version of a row it has locked.  *)
(* A row whose recheck fails stays locked until the transaction ends.        *)
VisitRow(r, t, pc, rows) ==
    /\ req[r].pc = "lock_grab" /\ t \in req[r].rows
    /\ Free(t)
    /\ rowLock' = [rowLock EXCEPT ![t] = r]
    /\ req' = [req EXCEPT ![r].pc = pc, ![r].rows = rows, ![r].seen[t] = ticket[t]]
    /\ UNCHANGED <<ticket, orders, reap, now, failures>>

GrabTicket(r, t) == ticket[t].status = "available" /\ VisitRow(r, t, "lock_stamp", {t})

DropTicket(r, t) ==
    ticket[t].status # "available" /\ VisitRow(r, t, "lock_grab", req[r].rows \ {t})

SkipTicket(r, t) ==
    /\ req[r].pc = "lock_grab" /\ t \in req[r].rows
    /\ ~Free(t)
    /\ req' = [req EXCEPT ![r].rows = @ \ {t}]
    /\ UNCHANGED <<ticket, rowLock, orders, reap, now, failures>>

RejectSoldOut(r) ==
    /\ req[r].pc = "lock_grab"
    /\ req[r].rows = {}
    /\ Rollback(r)

(* locked_until is computed before the await of the commit. *)
StampLock(r) ==
    /\ req[r].pc = "lock_stamp"
    /\ req' = [req EXCEPT ![r].pc = "lock_commit", ![r].until = now + LockTTL]
    /\ UNCHANGED <<ticket, rowLock, orders, reap, now, failures>>

CommitLock(r) ==
    /\ req[r].pc = "lock_commit"
    /\ ticket' = Written(req[r].rows, LockedRow(req[r].user, req[r].until))
    /\ End(r)
    /\ UNCHANGED <<orders, reap, now, failures>>

-----------------------------------------------------------------------------
(* POST /orders *)

(* Duplicate ids are answered 422 and leave no trace: ids is a set. *)
StartOrder(r, u, ids) ==
    /\ req[r].pc = "idle"
    /\ req' = [req EXCEPT ![r] = [IdleReq EXCEPT !.pc = "order_rows", !.user = u, !.rows = ids]]
    /\ UNCHANGED <<ticket, rowLock, orders, reap, now, failures>>

(* FOR UPDATE waits for a row another transaction holds and then reads its   *)
(* newest version.  create_order visits its rows in id order, release_lock   *)
(* has one row.                                                              *)
LockRow_NoForUpdate(r) ==
    \E t \in RowOf(r) :
       /\ rowLock' = [rowLock EXCEPT ![t] = r]
       /\ req' = [req EXCEPT ![r].seen[t] = ticket[t]]
       /\ UNCHANGED <<ticket, orders, reap, now, failures>>

LockRow(r) ==
    \E t \in RowOf(r) :
       /\ Free(t)
       /\ rowLock' = [rowLock EXCEPT ![t] = r]
       /\ req' = [req EXCEPT ![r].seen[t] = ticket[t]]
       /\ UNCHANGED <<ticket, orders, reap, now, failures>>

(* Steps 3 and 4, on the values the SELECT returned. *)
Purchasable_AnyOwner(r) ==
    \A t \in req[r].rows :
       /\ t \in Tickets
       /\ req[r].seen[t].status = "locked"
       /\ ~Expired(req[r].seen[t], now)

Purchasable(r) ==
    \A t \in req[r].rows :
       /\ t \in Tickets
       /\ req[r].seen[t].status = "locked"
       /\ req[r].seen[t].by = req[r].user
       /\ ~Expired(req[r].seen[t], now)

ValidateOrder_EndsTransaction(r) ==
    /\ req[r].pc = "order_rows"
    /\ Unvisited(r) = {}
    /\ Purchasable(r)
    /\ rowLock' = Unlocked(r)
    /\ Goto(r, "order_buy")
    /\ UNCHANGED <<ticket, orders, reap, now, failures>>

ValidateOrder(r) ==
    /\ req[r].pc = "order_rows"
    /\ Unvisited(r) = {}
    /\ Purchasable(r)
    /\ Goto(r, "order_buy")
    /\ UNCHANGED <<ticket, rowLock, orders, reap, now, failures>>

RejectOrder_KeepsSession(r) ==
    /\ req[r].pc = "order_rows"
    /\ Unvisited(r) = {}
    /\ ~Purchasable(r)
    /\ req' = [req EXCEPT ![r] = IdleReq]
    /\ UNCHANGED <<ticket, rowLock, orders, reap, now, failures>>

RejectOrder(r) ==
    /\ req[r].pc = "order_rows"
    /\ Unvisited(r) = {}
    /\ ~Purchasable(r)
    /\ Rollback(r)

(* Prices are read and the order is flushed before the commit; nobody sees   *)
(* them.  The commit publishes the order, its items and the SOLD tickets.    *)
CommitOrder_KeepsHolder(r) ==
    /\ req[r].pc = "order_buy"
    /\ orders' = Append(orders, [user |-> req[r].user, items |-> req[r].rows])
    /\ ticket' = Written(req[r].rows, [SoldRow EXCEPT !.by = req[r].user])
    /\ End(r)
    /\ UNCHANGED <<reap, now, failures>>

CommitOrder(r) ==
    /\ req[r].pc = "order_buy"
    /\ orders' = Append(orders, [user |-> req[r].user, items |-> req[r].rows])
    /\ ticket' = Written(req[r].rows, SoldRow)
    /\ End(r)
    /\ UNCHANGED <<reap, now, failures>>

-----------------------------------------------------------------------------
(* DELETE /tickets/{ticket_id}/lock *)

StartRelease(r, u, t) ==
    /\ req[r].pc = "idle"
    /\ req' = [req EXCEPT ![r] = [IdleReq EXCEPT !.pc = "release_row", !.user = u, !.rows = {t}]]
    /\ UNCHANGED <<ticket, rowLock, orders, reap, now, failures>>

OwnsSeen_Unchecked(r) == TRUE

OwnsSeen(r) ==
    \A t \in req[r].rows : /\ req[r].seen[t].status = "locked"
                           /\ req[r].seen[t].by = req[r].user

CommitRelease(r) ==
    /\ req[r].pc = "release_row"
    /\ Unvisited(r) = {}
    /\ OwnsSeen(r)
    /\ ticket' = Written(req[r].rows, AvailableRow)
    /\ End(r)
    /\ UNCHANGED <<orders, reap, now, failures>>

RejectRelease(r) ==
    /\ req[r].pc = "release_row"
    /\ Unvisited(r) = {}
    /\ ~OwnsSeen(r)
    /\ Rollback(r)

-----------------------------------------------------------------------------
(* reap_expired_locks, every minute *)

(* The clock is read before a session is opened. *)
ReapStart ==
    /\ reap.pc = "idle"
    /\ reap' = [reap EXCEPT !.pc = "update", !.at = now]
    /\ UNCHANGED <<ticket, rowLock, orders, req, now, failures>>

(* The row an UPDATE that still has the rows S to visit is at: heap order,   *)
(* which is any order.                                                       *)
FirstOf(S) == IF S = {} THEN {None} ELSE S

(* The UPDATE statement's snapshot. *)
ReapScan ==
    /\ reap.pc = "update"
    /\ LET S == {t \in Tickets : Reapable(ticket[t], reap.at)}
       IN \E x \in FirstOf(S) :
             reap' = [reap EXCEPT !.pc = "sweep", !.todo = S, !.row = x]
    /\ UNCHANGED <<ticket, rowLock, orders, req, now, failures>>

(* It waits for the row it is at and locks it. *)
ReapRow ==
    /\ reap.pc = "sweep" /\ reap.todo # {}
    /\ Free(reap.row)
    /\ rowLock' = [rowLock EXCEPT ![reap.row] = Reaper]
    /\ \E x \in FirstOf(reap.todo \ {reap.row}) :
          reap' = [reap EXCEPT !.todo = @ \ {reap.row}, !.row = x]
    /\ UNCHANGED <<ticket, orders, req, now, failures>>

(* It rechecks the newest version of a row it has locked: these it writes,   *)
(* the others stay locked as they are.                                       *)
Matched_NoRecheck == Held(Reaper)
Matched == {t \in Held(Reaper) : Reapable(ticket[t], reap.at)}

(* The bound of what the process and the job survive. *)
CountFailure == failures < MaxFailures /\ failures' = failures + 1

EndReap_KeepsSession == reap' = IdleReap /\ UNCHANGED rowLock

EndReap == rowLock' = Unlocked(Reaper) /\ reap' = IdleReap

ReapCommit_Rollback ==
    /\ reap.pc = "sweep" /\ reap.todo = {}
    /\ EndReap
    /\ UNCHANGED <<ticket, orders, req, now, failures>>

ReapCommit ==
    /\ reap.pc = "sweep" /\ reap.todo = {}
    /\ ticket' = Written(Matched, AvailableRow)
    /\ EndReap
    /\ UNCHANGED <<orders, req, now, failures>>

ReapFail ==
    /\ reap.pc # "idle"
    /\ CountFailure
    /\ EndReap
    /\ UNCHANGED <<ticket, orders, req, now>>

-----------------------------------------------------------------------------
(* PostgreSQL's deadlock detector, failures, time *)

RowAt(p) == IF p # Reaper THEN RowOf(p)
            ELSE IF reap.todo # {} THEN {reap.row} ELSE {}

(* A transaction waits for the holder of the one row it is at, so a set that *)
(* waits for exactly itself is made of cycles.                               *)
WaitCycle(S) == S # {} /\ {rowLock[t] : t \in UNION {RowAt(p) : p \in S}} = S

InWaitCycle(p) == \E S \in SUBSET Procs : p \in S /\ WaitCycle(S)

DeadlockVictim(r) == InWaitCycle(r) /\ Rollback(r)

ReaperVictim ==
    /\ InWaitCycle(Reaper)
    /\ CountFailure
    /\ EndReap
    /\ UNCHANGED <<ticket, orders, req, now>>

(* A statement fails, the pool times out, the connection is lost. *)
FailRequest(r) == req[r].pc # "idle" /\ Rollback(r)

(* The process dies; the database rolls back its open transactions. *)
Crash ==
    /\ CountFailure
    /\ rowLock' = [t \in Tickets |-> None]
    /\ req' = [r \in Requests |-> IdleReq]
    /\ reap' = IdleReap
    /\ UNCHANGED <<ticket, orders, now>>

Tick ==
    /\ now < MaxTime
    /\ now' = now + 1
    /\ UNCHANGED <<ticket, rowLock, orders, req, reap, failures>>

-----------------------------------------------------------------------------
Init ==
    /\ ticket = [t \in Tickets |-> AvailableRow]
    /\ rowLock = [t \in Tickets |-> None]
    /\ orders = << >>
    /\ req = [r \in Requests |-> IdleReq]
    /\ reap = IdleReap
    /\ now = 0
    /\ failures = 0

Payloads == (SUBSET (Tickets \cup UnknownIds)) \ {{}}

LockTicket(r) ==
    \/ \E u \in Users, k \in Tiers : StartLock(r, u, k)
    \/ CheckExisting(r) \/ RejectSecondLock(r) \/ ScanAvailable(r)
    \/ \E t \in Tickets : GrabTicket(r, t) \/ DropTicket(r, t) \/ SkipTicket(r, t)
    \/ RejectSoldOut(r) \/ StampLock(r) \/ CommitLock(r)

CreateOrder(r) ==
    \/ \E u \in Users, ids \in Payloads : StartOrder(r, u, ids)
    \/ LockRow(r) \/ ValidateOrder(r) \/ RejectOrder(r) \/ CommitOrder(r)

ReleaseLock(r) ==
    \/ \E u \in Users, t \in Tickets : StartRelease(r, u, t)
    \/ CommitRelease(r) \/ RejectRelease(r)

ReapExpiredLocks == ReapStart \/ ReapScan \/ ReapRow \/ ReapCommit

Next ==
    \/ \E r \in Requests : \/ LockTicket(r) \/ CreateOrder(r) \/ ReleaseLock(r)
                           \/ FailRequest(r) \/ DeadlockVictim(r)
    \/ ReapExpiredLocks \/ ReapFail \/ ReaperVictim
    \/ Crash \/ Tick

Spec == Init /\ [][Next]_vars

(* A handler that can run does run, and the job runs every minute.  Clients  *)
(* need not call, nothing need fail, and PostgreSQL queues the transactions  *)
(* waiting for a row, so a row freed again and again is granted in the end.  *)
HandlerStep(r) ==
    \/ CheckExisting(r) \/ RejectSecondLock(r) \/ ScanAvailable(r)
    \/ \E t \in Tickets : GrabTicket(r, t) \/ DropTicket(r, t) \/ SkipTicket(r, t)
    \/ RejectSoldOut(r) \/ StampLock(r) \/ CommitLock(r)
    \/ ValidateOrder(r) \/ RejectOrder(r) \/ CommitOrder(r)
    \/ CommitRelease(r) \/ RejectRelease(r)

DetectDeadlock == ReaperVictim \/ \E r \in Requests : DeadlockVictim(r)

Fairness ==
    /\ \A r \in Requests : WF_vars(HandlerStep(r)) /\ SF_vars(LockRow(r))
    /\ WF_vars(ReapStart) /\ WF_vars(ReapScan) /\ SF_vars(ReapRow) /\ WF_vars(ReapCommit)
    /\ WF_vars(DetectDeadlock)

FairSpec == Spec /\ Fairness
-----------------------------------------------------------------------------
(* Properties *)

(* Every variable has its type; the status of a row and its two lock columns *)
(* agree (models.Ticket has no constraint that says so).                     *)
TypeOK ==
    /\ ticket \in [Tickets -> Rows]
    /\ \A t \in Tickets : /\ ticket[t].status = "locked" <=> ticket[t].by # None
                          /\ ticket[t].status = "locked" <=> ticket[t].until # None
    /\ rowLock \in [Tickets -> Procs \cup {None}]
    /\ orders \in Seq([user : Users, items : SUBSET Tickets])
    /\ req \in [Requests -> Handlers]
    /\ reap \in Reapers
    /\ now \in 0 .. MaxTime /\ failures \in Nat

(* A row lock belongs to a running transaction, whose view of the row it     *)
(* protects: what a handler read of a row it holds is what the row still is. *)
(* Only lock_ticket holds rows that it will not write or refuse.             *)
RowLocksOwned ==
    \A t \in Tickets :
       /\ \A r \in Requests : rowLock[t] = r =>
             /\ req[r].pc \in HoldingPCs
             /\ req[r].pc \notin GrabPCs => t \in req[r].rows
             /\ req[r].seen[t] = ticket[t]
       /\ rowLock[t] = Reaper => reap.pc = "sweep"

(* No double booking: no ticket is an item of two committed orders, although *)
(* order_items has no unique constraint on ticket_id.                        *)
NoDoubleSale ==
    \A i, j \in DOMAIN orders : i # j => orders[i].items \cap orders[j].items = {}

(* The tickets table and the orders agree: exactly the tickets of committed  *)
(* orders are sold, whatever else failed, was rolled back or was released.   *)
SoldIffOrdered ==
    \A t \in Tickets :
       ticket[t].status = "sold" <=> \E i \in DOMAIN orders : t \in orders[i].items

(* What create_order validated still holds while it awaits prices and the    *)
(* flush: each of its tickets is reserved by its caller until it commits,    *)
(* even when the reservation expires meanwhile and the reaper wakes up.      *)
ValidationHolds ==
    \A r \in Requests : req[r].pc = "order_buy" =>
       \A t \in req[r].rows : t \in Tickets /\ ticket[t].status = "locked"
                                           /\ ticket[t].by = req[r].user

(* A reservation that is not over is taken from its holder by nobody: it     *)
(* changes only by a handler running for that very user.                     *)
LiveLocksAreSafe ==
    [][\A t \in Tickets :
          (ticket[t].status = "locked" /\ ticket'[t] # ticket[t] /\ now <= ticket[t].until)
          => \E r \in Requests : rowLock[t] = r /\ req[r].user = ticket[t].by]_vars

(* ORDER BY ticket_id: orders and releases alone never wait in a cycle, so   *)
(* every deadlock has the reaper's UPDATE, which has no order, in it.        *)
RequestsNeverDeadlock == \A S \in SUBSET Requests : ~WaitCycle(S)

(* "Mathematical deadlock prevention" (README.md:62).                        *)
NoDeadlock == \A S \in SUBSET Procs : ~WaitCycle(S)

(* "Verify a user CANNOT lock a second ticket in the same tier while holding *)
(* an active lock" (tests/test_bookings.py:127).                             *)
OneLiveLockPerTier ==
    \A u \in Users, t1, t2 \in Tickets :
       (LiveLock(t1, u) /\ LiveLock(t2, u) /\ TierOf[t1] = TierOf[t2]) => t1 = t2

(* Every request is answered, deadlocks and lock waits included.             *)
EveryRequestEnds == \A r \in Requests : req[r].pc # "idle" ~> req[r].pc = "idle"

(* An expired reservation does not keep its ticket: it is reaped, released   *)
(* or, if its order was validated in time, sold.                             *)
Orphaned(t) == Reapable(ticket[t], now)
ExpiredLocksReturn == \A t \in Tickets : Orphaned(t) ~> ~Orphaned(t)

(* A user's reservations in a tier that lock_ticket takes for live, and those *)
(* that create_order would still sell.  At locked_until = now a reservation  *)
(* is one and not the other.                                                 *)
LiveLocks(u, k) == {t \in Tickets : TierOf[t] = k /\ LiveLock(t, u)}
BuyableLocks(u, k) ==
    {t \in Tickets : /\ TierOf[t] = k
                     /\ ticket[t].status = "locked" /\ ticket[t].by = u
                     /\ ~Expired(ticket[t], now)}

(* The handlers of a user's lock requests in a tier that passed the check for *)
(* an existing lock and have not committed.                                  *)
RacePCs == {"lock_scan"} \cup GrabPCs
Racing(r, u, k) == req[r].user = u /\ req[r].tier = k
Racers(u, k) == {r \in Requests : Racing(r, u, k) /\ req[r].pc \in RacePCs}

(* What the unlocked check for an existing lock does achieve: while a user   *)
(* has a live reservation in a tier no further request passes the check, so  *)
(* those there are and those still racing for one are never more than the    *)
(* handlers; one at a time if requests do not overlap.                       *)
LiveLocksBounded ==
    \A u \in Users, k \in Tiers :
       Cardinality(LiveLocks(u, k)) + Cardinality(Racers(u, k)) <= Cardinality(Requests)

(* The two comparisons with locked_until leave an instant at which a user    *)
(* holds purchasable tickets of two generations, and never of three.         *)
BuyableBounded ==
    \A u \in Users, k \in Tiers : Cardinality(BuyableLocks(u, k)) <= 2 * Cardinality(Requests)

(* The code implements the ledger of atomic operations: what is committed of *)
(* the tables is the ledger's state, whatever handlers and locks are doing.  *)
Ledger == INSTANCE TicketLedger WITH
    Users <- Users, Tickets <- Tickets, None <- None, LockTTL <- LockTTL, MaxTime <- MaxTime,
    ticket <- ticket, orders <- orders, now <- now
LedgerSpec == Ledger!Spec
==============================================================================
