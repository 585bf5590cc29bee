----------------------- MODULE PurchaseDeadlockProofs -----------------------
(***************************************************************************)
(* ORDER BY ticket_id prevents deadlocks among requests, for any number of *)
(* requests and tickets: RequestsNeverDeadlock.  In a cycle, look at the   *)
(* least row anybody waits for: who waits for it holds a row that somebody *)
(* else of the cycle waits for, and has locked it before, so it is less.   *)
(***************************************************************************)
EXTENDS PurchaseProofs, FiniteSetTheorems, WellFoundedInduction

(* What an order has locked is less than what it has yet to lock.            *)
Ordered(r) == req[r].pc = "order_rows" => \A x \in Held(r), y \in Unvisited(r) : x < y
LockedInOrder == \A r \in Requests : Ordered(r)

OrderInv == ControlInv /\ LockedInOrder

-----------------------------------------------------------------------------
(* A step that leaves an order's payload and its row locks alone.            *)
SameOrder(r) ==
    /\ req[r].pc = "order_rows" /\ req'[r].rows = req[r].rows
    /\ \A t \in Tickets : rowLock'[t] = r <=> rowLock[t] = r

LEMMA SameOrderKept ==
    ASSUME NEW r \in Requests, Ordered(r), SameOrder(r)
    PROVE  Ordered(r)'
BY DEF Ordered, SameOrder, Held, Unvisited

(* Before its first row is locked, an order holds none.                      *)
LEMMA StartOrderOrdered ==
    ASSUME ControlInv, NEW r \in Requests, NEW u \in Users, NEW ids \in Payloads,
           StartOrder(r, u, ids)
    PROVE  Ordered(r)'
<1>1. \A t \in Tickets : rowLock[t] # r
  BY DEF ControlInv, RowLocksOwned, HoldingPCs, GrabPCs, StartOrder
<1>2. UNCHANGED rowLock
  BY DEF StartOrder
<1> QED  BY <1>1, <1>2 DEF Ordered, Held

(* The row an order locks is the least of those it has yet to lock.          *)
LEMMA LockRowOrdered ==
    ASSUME ControlInv, NEW r \in Requests, Ordered(r), LockRow(r)
    PROVE  Ordered(r)'
<1>1. PICK t \in RowOf(r) : /\ rowLock' = [rowLock EXCEPT ![t] = r]
                            /\ req' = [req EXCEPT ![r].seen[t] = ticket[t]]
  BY DEF LockRow
<1>2. t \in Unvisited(r) /\ \A y \in Unvisited(r) : t <= y
  BY DEF RowOf, Least
<1>6. Unvisited(r) \subseteq Nat
  BY TicketsAssumption DEF Unvisited
<1>3. req'[r].pc = req[r].pc /\ req'[r].rows = req[r].rows
  BY <1>1 DEF ControlInv, TypeOK, Handlers
<1>4. Held(r)' = Held(r) \cup {t} /\ Unvisited(r)' = Unvisited(r) \ {t}
  BY <1>1, <1>2, <1>3 DEF ControlInv, TypeOK, Held, Unvisited
<1>5. ASSUME req[r].pc = "order_rows", NEW x \in Held(r)', NEW y \in Unvisited(r)' PROVE x < y
  <2>1. y \in Unvisited(r) /\ y # t /\ t <= y
    BY <1>2, <1>4
  <2>2. CASE x = t
    <3>1. t \in Nat /\ y \in Nat
      BY <1>2, <1>6, <2>1
    <3> QED  BY <2>1, <2>2, <3>1
  <2>3. CASE x \in Held(r)
    BY <2>1, <2>3, <1>5 DEF Ordered
  <2> QED  BY <2>2, <2>3, <1>4
<1> QED  BY <1>3, <1>5 DEF Ordered

(* What r's steps do to q: nothing but, perhaps, freeing rows.               *)
LEMMA OthersOrdered ==
    ASSUME ControlInv, NEW r \in Requests, NEW q \in Requests, q # r, Ordered(q),
           \/ LockTicket(r) \/ CreateOrder(r) \/ ReleaseLock(r)
           \/ FailRequest(r) \/ DeadlockVictim(r)
    PROVE  Ordered(q)'
<1> USE NoneAssumption DEF ControlInv, TypeOK
<1>1. req'[q] = req[q]
  BY DEF LockTicket, CreateOrder, ReleaseLock, FailRequest, DeadlockVictim, StartLock,
         CheckExisting, RejectSecondLock, ScanAvailable, GrabTicket, DropTicket, VisitRow,
         SkipTicket, RejectSoldOut, StampLock, CommitLock, StartOrder, LockRow, ValidateOrder, RejectOrder, CommitOrder,
         StartRelease, CommitRelease, RejectRelease, Rollback, End, Goto
<1>2. \A t \in Tickets : rowLock'[t] = q <=> rowLock[t] = q
  <2>1. \/ UNCHANGED rowLock
        \/ rowLock' = Unlocked(r)
        \/ \E t \in Tickets : Free(t) /\ rowLock' = [rowLock EXCEPT ![t] = r]
    <3>1. CASE LockTicket(r)
      BY <3>1 DEF LockTicket, StartLock, CheckExisting, RejectSecondLock, ScanAvailable,
         GrabTicket, DropTicket, VisitRow, SkipTicket, RejectSoldOut, StampLock, CommitLock, Rollback, End
    <3>2. CASE LockRow(r)
      BY <3>2 DEF LockRow, RowOf, Least, Unvisited
    <3>3. CASE CreateOrder(r) /\ ~LockRow(r)
      BY <3>3 DEF CreateOrder, StartOrder, ValidateOrder, RejectOrder, CommitOrder, Rollback, End
    <3>4. CASE ReleaseLock(r) \/ FailRequest(r) \/ DeadlockVictim(r)
      BY <3>4 DEF ReleaseLock, StartRelease, CommitRelease, RejectRelease, FailRequest,
                  DeadlockVictim, Rollback, End
    <3> QED  BY <3>1, <3>2, <3>3, <3>4
  <2>2. CASE UNCHANGED rowLock
    BY <2>2
  <2>3. CASE rowLock' = Unlocked(r)
    BY <2>3 DEF Unlocked
  <2>4. ASSUME NEW t \in Tickets, Free(t), rowLock' = [rowLock EXCEPT ![t] = r]
        PROVE  \A x \in Tickets : rowLock'[x] = q <=> rowLock[x] = q
    BY <2>4 DEF Free
  <2> QED  BY <2>1, <2>2, <2>3, <2>4
<1> QED  BY <1>1, <1>2 DEF Ordered, Held, Unvisited

(* A step of r itself ends its walk over the rows or is one of those above.  *)
LEMMA OwnOrdered ==
    ASSUME ControlInv, NEW r \in Requests, Ordered(r),
           \/ LockTicket(r) \/ CreateOrder(r) \/ ReleaseLock(r)
           \/ FailRequest(r) \/ DeadlockVictim(r)
    PROVE  Ordered(r)'
<1>1. CASE \E u \in Users, ids \in Payloads : StartOrder(r, u, ids)
  BY <1>1, StartOrderOrdered
<1>2. CASE LockRow(r)
  BY <1>2, LockRowOrdered
<1>3. ASSUME req'[r].pc # "order_rows" PROVE Ordered(r)'
  BY <1>3 DEF Ordered
<1>4. CASE End(r)
  <2>1. req'[r].pc # "order_rows"
    BY <1>4 DEF ControlInv, TypeOK, End, IdleReq
  <2> QED  BY <2>1, <1>3
<1>5. ASSUME NEW u \in Users, \/ \E k \in Tiers : StartLock(r, u, k)
                              \/ \E t \in Tickets : StartRelease(r, u, t)
      PROVE  Ordered(r)'
  <2>1. req'[r].pc # "order_rows"
    BY <1>5 DEF ControlInv, TypeOK, StartLock, StartRelease, IdleReq
  <2> QED  BY <2>1, <1>3
<1>6. CASE CheckExisting(r) \/ ValidateOrder(r)
  <2>1. req'[r].pc # "order_rows"
    BY <1>6 DEF ControlInv, TypeOK, Handlers, CheckExisting, ValidateOrder, Goto
  <2> QED  BY <2>1, <1>3
<1>7. CASE \/ ScanAvailable(r) \/ StampLock(r)
           \/ \E t \in Tickets : GrabTicket(r, t) \/ DropTicket(r, t) \/ SkipTicket(r, t)
  <2>1. CASE ScanAvailable(r) \/ StampLock(r)
    BY <2>1, <1>3 DEF ControlInv, TypeOK, Handlers, ScanAvailable, StampLock
  <2>2. ASSUME NEW t \in Tickets, GrabTicket(r, t) PROVE Ordered(r)'
    BY <2>2, <1>3 DEF ControlInv, TypeOK, Handlers, GrabTicket, VisitRow
  <2>3. ASSUME NEW t \in Tickets, DropTicket(r, t) \/ SkipTicket(r, t) PROVE Ordered(r)'
    BY <2>3, <1>3 DEF ControlInv, TypeOK, Handlers, DropTicket, VisitRow, SkipTicket
  <2> QED  BY <1>7, <2>1, <2>2, <2>3
<1>8. \/ End(r) \/ CheckExisting(r) \/ ValidateOrder(r) \/ ScanAvailable(r) \/ StampLock(r) \/ LockRow(r)
      \/ \E t \in Tickets : GrabTicket(r, t) \/ DropTicket(r, t) \/ SkipTicket(r, t)
      \/ \E u \in Users : \/ \E k \in Tiers : StartLock(r, u, k)
                          \/ \E ids \in Payloads : StartOrder(r, u, ids)
                          \/ \E t \in Tickets : StartRelease(r, u, t)
  BY DEF LockTicket, CreateOrder, ReleaseLock, FailRequest, DeadlockVictim, RejectSecondLock,
         RejectSoldOut, CommitLock, RejectOrder, CommitOrder, CommitRelease, RejectRelease, Rollback
<1>9. CASE \E u \in Users : \/ \E k \in Tiers : StartLock(r, u, k)
                            \/ \E ids \in Payloads : StartOrder(r, u, ids)
                            \/ \E t \in Tickets : StartRelease(r, u, t)
  <2>1. PICK u \in Users : \/ \E k \in Tiers : StartLock(r, u, k)
                           \/ \E ids \in Payloads : StartOrder(r, u, ids)
                           \/ \E t \in Tickets : StartRelease(r, u, t)
    BY <1>9
  <2> QED  BY <1>1, <1>5, <2>1
<1> QED  BY <1>2, <1>4, <1>6, <1>7, <1>8, <1>9

(* The reaper and the environment.                                           *)
LEMMA RestOrdered ==
    ASSUME ControlInv, NEW q \in Requests, Ordered(q),
           ReapExpiredLocks \/ ReapFail \/ ReaperVictim \/ Crash \/ Tick \/ UNCHANGED vars
    PROVE  Ordered(q)'
<1> USE NoneAssumption, ReaperAssumption DEF ControlInv, TypeOK
<1>1. CASE Crash
  BY <1>1 DEF Crash, Ordered, IdleReq
<1>2. CASE ~Crash
  <2>1. req' = req
    BY <1>2 DEF ReapExpiredLocks, ReapStart, ReapScan, ReapRow, ReapCommit, ReapFail,
                ReaperVictim, Tick, vars
  <2>2. \A t \in Tickets : rowLock'[t] = q <=> rowLock[t] = q
    <3>1. CASE ReapRow
      BY <3>1 DEF ReapRow, Free
    <3>2. CASE ReapCommit \/ ReapFail \/ ReaperVictim
      BY <3>2 DEF ReapCommit, ReapFail, ReaperVictim, EndReap, Unlocked
    <3>3. CASE ReapStart \/ ReapScan \/ Tick \/ UNCHANGED vars
      BY <3>3 DEF ReapStart, ReapScan, Tick, vars
    <3> QED  BY <1>2, <3>1, <3>2, <3>3 DEF ReapExpiredLocks
  <2> QED  BY <2>1, <2>2 DEF Ordered, Held, Unvisited
<1> QED  BY <1>1, <1>2

(* The order of the locks holds in every reachable state.                    *)
THEOREM LocksInOrder == Spec => []OrderInv
<1>1. Init => OrderInv
  BY InitControl DEF Init, OrderInv, LockedInOrder, Ordered, IdleReq
<1>2. OrderInv /\ [Next]_vars => OrderInv'
  <2> SUFFICES ASSUME OrderInv, [Next]_vars, NEW q \in Requests PROVE Ordered(q)'
    BY NextControl DEF OrderInv, LockedInOrder
  <2>1. ControlInv /\ Ordered(q)
    BY DEF OrderInv, LockedInOrder
  <2>2. CASE \E r \in Requests : \/ LockTicket(r) \/ CreateOrder(r) \/ ReleaseLock(r)
                                 \/ FailRequest(r) \/ DeadlockVictim(r)
    BY <2>1, <2>2, OwnOrdered, OthersOrdered
  <2>3. CASE ReapExpiredLocks \/ ReapFail \/ ReaperVictim \/ Crash \/ Tick \/ UNCHANGED vars
    BY <2>1, <2>3, RestOrdered
  <2> QED  BY <2>2, <2>3 DEF Next
<1> QED  BY <1>1, <1>2, PTL DEF Spec

-----------------------------------------------------------------------------
LEMMA LeastExists ==
    ASSUME NEW T, T \subseteq Nat, T # {}
    PROVE  \E t \in T : \A x \in T : t <= x
<1>1. PICK t \in T : \A x \in T : ~(<<x, t>> \in OpToRel(<, Nat))
  BY NatLessThanWellFounded, WFMin
<1>2. \A x \in T : ~(x < t)
  BY <1>1 DEF OpToRel
<1> QED  BY <1>2

(* Orders and releases alone never wait for each other in a cycle, however   *)
(* many there are and whatever ids they name: each deadlock has the reaper's *)
(* UPDATE in it.                                                             *)
THEOREM OrdersNeverDeadlock == Spec => []RequestsNeverDeadlock
<1>1. OrderInv => RequestsNeverDeadlock
  <2> SUFFICES ASSUME OrderInv, NEW S \in SUBSET Requests, WaitCycle(S) PROVE FALSE
    BY DEF RequestsNeverDeadlock
  <2> DEFINE T == UNION {RowAt(p) : p \in S}
  <2>1. S # {} /\ {rowLock[t] : t \in T} = S
    BY DEF WaitCycle
  <2>2. \A p \in S : RowAt(p) = RowOf(p) /\ RowOf(p) \subseteq Tickets
    BY ReaperAssumption DEF RowAt, RowOf, Least, Unvisited
  <2>3. T \subseteq Tickets /\ T # {}
    BY <2>1, <2>2
  <2>4. PICK t \in T : \A x \in T : t <= x
    BY <2>3, LeastExists, TicketsAssumption
  <2>5. PICK p \in S : t \in RowOf(p)
    BY <2>2
  <2>6. PICK x \in T : rowLock[x] = p
    BY <2>1
  <2>7. x \in Held(p) /\ t \in Unvisited(p) /\ t <= x /\ x \in Nat /\ t \in Nat
    BY <2>3, <2>4, <2>5, <2>6, TicketsAssumption DEF Held, RowOf, Least
  <2>8. CASE req[p].pc = "order_rows"
    BY <2>7, <2>8 DEF OrderInv, LockedInOrder, Ordered
  <2>9. CASE req[p].pc = "release_row"
    <3>1. x \in req[p].rows /\ t \in req[p].rows /\ x # t
      BY <2>7, <2>9 DEF OrderInv, ControlInv, RowLocksOwned, GrabPCs, Held, Unvisited
    <3> QED  BY <2>9, <3>1 DEF OrderInv, ControlInv, HandlersReady, HandlerReady
  <2> QED  BY <2>5, <2>8, <2>9 DEF RowOf
<1> QED  BY <1>1, LocksInOrder, PTL DEF OrderInv

-----------------------------------------------------------------------------
(* Somebody moves *)

(* A transaction waits for a row that another holds.                         *)
Waiting(p) == \E t \in RowAt(p) : ~Free(t)

(* Whenever a request waits, some transaction with a row lock waits for      *)
(* nobody, or the reaper is in a cycle, which the deadlock detector finds.   *)
NoStandstill ==
    \A r \in Requests : Waiting(r) =>
       \/ \E p \in Procs : Held(p) # {} /\ ~Waiting(p)
       \/ \E S \in SUBSET Procs : Reaper \in S /\ WaitCycle(S)

(* The holders of the rows that the transactions S are at.                   *)
HoldersFor(S) == {rowLock[t] : t \in UNION {RowAt(p) : p \in S}}

(* A transaction is at one row at most, one of the table.                    *)
LEMMA RowsAt ==
    ASSUME ControlInv, NEW p \in Procs
    PROVE  /\ RowAt(p) \subseteq Tickets
           /\ \A s, t \in RowAt(p) : s = t
<1>1. CASE p \in Requests
  <2>1. RowAt(p) = RowOf(p) /\ RowOf(p) \subseteq Least(Unvisited(p)) /\ Unvisited(p) \subseteq Tickets
    BY <1>1, ReaperAssumption DEF RowAt, RowOf, Unvisited
  <2>2. \A s, t \in Least(Unvisited(p)) : s <= t /\ t <= s /\ s \in Nat /\ t \in Nat
    BY <2>1, TicketsAssumption DEF Least
  <2>3. \A s, t \in Nat : s <= t /\ t <= s => s = t
    OBVIOUS
  <2> QED  BY <2>1, <2>2, <2>3 DEF Least
<1>2. CASE p = Reaper
  <2>1. reap.todo # {} => reap.row \in Tickets
    BY DEF ControlInv, ReaperReady, TypeOK, Reapers
  <2> QED  BY <1>2, <2>1 DEF RowAt
<1> QED  BY <1>1, <1>2 DEF Procs

(* Where every holder waits, some wait for exactly themselves: the smallest  *)
(* set that waits for nobody outside it.                                     *)
LEMMA WaitersCycle ==
    ASSUME ControlInv, NEW B \in SUBSET Procs, IsFiniteSet(B), B # {},
           \A p \in B : RowAt(p) # {}, HoldersFor(B) \subseteq B
    PROVE  \E S \in SUBSET B : WaitCycle(S)
<1> DEFINE Closed == {S \in SUBSET B : S # {} /\ HoldersFor(S) \subseteq S}
<1>1. IsWellFoundedOn(StrictSubsetOrdering(B), SUBSET B)
  <2>1. FiniteSubsetsOf(B) = SUBSET B
    BY FS_FiniteSubsetsOfFinite
  <2>2. IsWellFoundedOn(StrictSubsetOrdering(B), FiniteSubsetsOf(B))
    BY FS_StrictSubsetOrderingWellFounded
  <2> QED  BY <2>1, <2>2
<1>2. B \in Closed /\ Closed \subseteq SUBSET B
  OBVIOUS
<1> HIDE DEF Closed
<1>3. PICK S \in Closed : \A R \in Closed : ~(<<R, S>> \in StrictSubsetOrdering(B))
  BY <1>1, <1>2, WFMin
<1> DEFINE H == HoldersFor(S)
<1>4. S \in SUBSET B /\ S # {} /\ H \subseteq S
  BY <1>3 DEF Closed
<1>5. H # {}
  <2>1. PICK p \in S : TRUE
    BY <1>4
  <2>2. PICK t \in RowAt(p) : TRUE
    BY <1>4, <2>1
  <2> QED  BY <2>1, <2>2 DEF HoldersFor
<1>6. HoldersFor(H) \subseteq H
  BY <1>4 DEF HoldersFor
<1>7. H \in Closed
  BY <1>4, <1>5, <1>6 DEF Closed
<1>8. H = S
  <2>1. ~(<<H, S>> \in StrictSubsetOrdering(B))
    BY <1>3, <1>7
  <2> HIDE DEF H
  <2> QED  BY <1>4, <2>1 DEF StrictSubsetOrdering
<1> QED  BY <1>4, <1>8 DEF WaitCycle, HoldersFor

(* Requests block each other for a while only, however many there are.       *)
THEOREM SomebodyMoves == Spec => []NoStandstill
<1>1. ControlInv /\ RequestsNeverDeadlock => NoStandstill
  <2> SUFFICES ASSUME ControlInv, RequestsNeverDeadlock, NEW r \in Requests, Waiting(r),
                      \A p \in Procs : Held(p) # {} => Waiting(p)
               PROVE  \E S \in SUBSET Procs : Reaper \in S /\ WaitCycle(S)
    BY DEF NoStandstill
  <2> DEFINE B == {p \in Procs : Held(p) # {}}
  <2>1. ASSUME NEW p \in Procs, Waiting(p), NEW t \in RowAt(p) PROVE rowLock[t] \in B
    <3>1. t \in Tickets /\ rowLock[t] # None
      BY <2>1, RowsAt DEF Waiting, Free
    <3>2. rowLock[t] \in Procs
      BY <3>1 DEF ControlInv, TypeOK
    <3> QED  BY <3>1, <3>2 DEF Held
  <2>2. IsFiniteSet(B)
    <3>1. IsFiniteSet(Procs)
      BY RequestsAssumption, FS_AddElement DEF Procs
    <3> QED  BY <3>1, FS_Subset
  <2>3. B # {}
    BY <2>1 DEF Waiting, Procs
  <2>4. \A p \in B : RowAt(p) # {} /\ Waiting(p)
    BY DEF Waiting
  <2>5. HoldersFor(B) \subseteq B
    BY <2>1, <2>4 DEF HoldersFor
  <2> HIDE DEF B
  <2>6. B \in SUBSET Procs
    BY DEF B
  <2>7. PICK S \in SUBSET B : WaitCycle(S)
    BY <2>2, <2>3, <2>4, <2>5, <2>6, WaitersCycle
  <2>8. ~(S \subseteq Requests)
    BY <2>7 DEF RequestsNeverDeadlock
  <2> QED  BY <2>6, <2>7, <2>8 DEF Procs
<1> QED  BY <1>1, ControlInvariant, OrdersNeverDeadlock, PTL
=============================================================================
