--------------------------- MODULE PurchaseProofs ---------------------------
(***************************************************************************)
(* Proofs about Purchase, for every number of users, tickets, tiers,       *)
(* handlers and clock ticks.                                               *)
(***************************************************************************)
EXTENDS Purchase, TLAPS

(* What each program point of a handler guarantees of its local state and of *)
(* the row locks it has collected.                                           *)
HandlerReady(r) ==
    /\ req[r].pc # "idle" => req[r].user \in Users
    /\ req[r].pc = "lock_grab" => req[r].rows \subseteq Tickets
    /\ req[r].pc \in {"lock_stamp", "lock_commit"} =>
          \E t \in Tickets : /\ req[r].rows = {t} /\ rowLock[t] = r
                             /\ req[r].seen[t].status = "available"
    /\ req[r].pc = "lock_commit" => req[r].until \in Nat /\ req[r].until <= now + LockTTL
    /\ req[r].pc \in {"order_rows", "order_buy"} => req[r].rows # {}
    /\ req[r].pc = "release_row" => \E t \in Tickets : req[r].rows = {t}
    /\ req[r].pc = "order_buy" =>
          \A t \in req[r].rows : /\ t \in Tickets /\ rowLock[t] = r
                                 /\ req[r].seen[t].status = "locked"
                                 /\ req[r].seen[t].by = req[r].user

HandlersReady == \A r \in Requests : HandlerReady(r)

(* The reaper is at a row it has yet to visit, with a clock that is not ahead. *)
ReaperReady ==
    /\ reap.todo # {} => reap.row \in reap.todo
    /\ reap.at <= now

(* The inductive invariant of the control: everything but the orders.        *)
ControlInv == TypeOK /\ RowLocksOwned /\ HandlersReady /\ ReaperReady

-----------------------------------------------------------------------------
(* A handler that ends, however it ends, gives up its row locks and nothing  *)
(* else.                                                                     *)
LEMMA IdleReqType == IdleReq \in Handlers
BY DEF IdleReq, Handlers, PCs

LEMMA IdleReapType == IdleReap \in Reapers
BY DEF IdleReap, Reapers

LEMMA InitControl == Init => ControlInv
<1> SUFFICES ASSUME Init PROVE ControlInv
  OBVIOUS
<1> USE NoneAssumption, ReaperAssumption DEF Init
<1>1. TypeOK
  <2>1. ticket \in [Tickets -> Rows]
    BY DEF AvailableRow, Rows
  <2>2. \A t \in Tickets : /\ ticket[t].status = "locked" <=> ticket[t].by # None
                           /\ ticket[t].status = "locked" <=> ticket[t].until # None
    BY DEF AvailableRow
  <2>3. orders \in Seq([user : Users, items : SUBSET Tickets])
    OBVIOUS
  <2> QED  BY <2>1, <2>2, <2>3, IdleReqType, IdleReapType, BoundsAssumption DEF TypeOK, Procs
<1>2. RowLocksOwned
  BY DEF RowLocksOwned
<1>3. HandlersReady
  BY DEF HandlersReady, HandlerReady, IdleReq
<1>4. ReaperReady
  BY DEF ReaperReady, IdleReap
<1> QED  BY <1>1, <1>2, <1>3, <1>4 DEF ControlInv

LEMMA RollbackControl ==
    ASSUME ControlInv, NEW r \in Requests, Rollback(r)
    PROVE  ControlInv'
<1> USE NoneAssumption, ReaperAssumption DEF ControlInv, Rollback, End
<1>1. /\ rowLock' = Unlocked(r) /\ req' = [req EXCEPT ![r] = IdleReq]
      /\ UNCHANGED <<ticket, orders, reap, now, failures>>
  OBVIOUS
<1>2. \A t \in Tickets : rowLock'[t] # r /\ (rowLock'[t] # None => rowLock'[t] = rowLock[t])
  BY <1>1 DEF Unlocked
<1>3. req'[r] = IdleReq /\ \A q \in Requests \ {r} : req'[q] = req[q]
  BY <1>1 DEF TypeOK
<1>4. TypeOK'
  BY <1>1, IdleReqType DEF TypeOK, Unlocked
<1>5. RowLocksOwned'
  BY <1>1, <1>2, <1>3 DEF RowLocksOwned, Reapable, Expired
<1>6. HandlersReady'
  <2> SUFFICES ASSUME NEW q \in Requests
               PROVE  HandlerReady(q)'
    BY DEF HandlersReady
  <2>1. CASE q = r
    BY <2>1, <1>3 DEF HandlerReady, IdleReq
  <2>2. CASE q # r
    BY <2>2, <1>1, <1>3 DEF HandlersReady, HandlerReady, Unlocked
  <2> QED  BY <2>1, <2>2
<1>7. ReaperReady'
  BY <1>1 DEF ReaperReady
<1> QED  BY <1>4, <1>5, <1>6, <1>7

(* A step of one handler that touches no row and no row lock.                *)
LEMMA LocalControl ==
    ASSUME ControlInv, NEW r \in Requests, NEW h \in Handlers,
           req' = [req EXCEPT ![r] = h],
           UNCHANGED <<ticket, rowLock, orders, reap, now, failures>>,
           HandlerReady(r)',
           \A t \in Tickets : rowLock[t] = r =>
               /\ h.pc \in HoldingPCs
               /\ h.pc \notin GrabPCs => t \in h.rows
               /\ h.seen = req[r].seen
    PROVE  ControlInv'
<1> USE DEF ControlInv
<1>1. req'[r] = h /\ \A q \in Requests \ {r} : req'[q] = req[q]
  BY DEF TypeOK
<1>2. TypeOK'
  BY DEF TypeOK
<1>3. RowLocksOwned'
  BY <1>1 DEF RowLocksOwned, Reapable, Expired
<1>4. HandlersReady'
  BY <1>1 DEF HandlersReady, HandlerReady
<1>5. ReaperReady'
  BY DEF ReaperReady
<1> QED  BY <1>2, <1>3, <1>4, <1>5

LEMMA StartControl ==
    ASSUME ControlInv, NEW r \in Requests, NEW u \in Users,
           \/ \E k \in Tiers : StartLock(r, u, k)
           \/ \E ids \in Payloads : StartOrder(r, u, ids)
           \/ \E t \in Tickets : StartRelease(r, u, t)
    PROVE  ControlInv'
<1>1. \A t \in Tickets : rowLock[t] # r
  BY DEF ControlInv, RowLocksOwned, HoldingPCs, GrabPCs, StartLock, StartOrder, StartRelease
<1>2. ASSUME NEW k \in Tiers, StartLock(r, u, k) PROVE ControlInv'
  <2> DEFINE h == [IdleReq EXCEPT !.pc = "lock_check", !.user = u, !.tier = k]
  <2>1. h \in Handlers
    BY IdleReqType DEF Handlers, PCs
  <2>2. req' = [req EXCEPT ![r] = h]
    BY <1>2 DEF StartLock
  <2>3. HandlerReady(r)'
    BY <2>2 DEF ControlInv, TypeOK, HandlerReady, IdleReq
  <2> HIDE DEF h
  <2> QED  BY <1>1, <1>2, <2>1, <2>2, <2>3, LocalControl DEF StartLock
<1>3. ASSUME NEW ids \in Payloads, StartOrder(r, u, ids) PROVE ControlInv'
  <2> DEFINE h == [IdleReq EXCEPT !.pc = "order_rows", !.user = u, !.rows = ids]
  <2>1. h \in Handlers
    BY IdleReqType DEF Handlers, PCs, HoldingPCs, GrabPCs, Payloads
  <2>2. req' = [req EXCEPT ![r] = h]
    BY <1>3 DEF StartOrder
  <2>4. h.pc = "order_rows" /\ h.user = u /\ h.rows = ids /\ ids # {}
    BY DEF IdleReq, Payloads
  <2>5. req'[r] = h
    BY <2>2 DEF ControlInv, TypeOK
  <2> HIDE DEF h
  <2>3. HandlerReady(r)'
    BY <2>4, <2>5 DEF HandlerReady
  <2> QED  BY <1>1, <1>3, <2>1, <2>2, <2>3, LocalControl DEF StartOrder
<1>4. ASSUME NEW t \in Tickets, StartRelease(r, u, t) PROVE ControlInv'
  <2> DEFINE h == [IdleReq EXCEPT !.pc = "release_row", !.user = u, !.rows = {t}]
  <2>1. h \in Handlers
    BY IdleReqType DEF Handlers, PCs, HoldingPCs, GrabPCs
  <2>2. req' = [req EXCEPT ![r] = h]
    BY <1>4 DEF StartRelease
  <2>3. HandlerReady(r)'
    BY <2>2 DEF ControlInv, TypeOK, HandlerReady, IdleReq
  <2> HIDE DEF h
  <2> QED  BY <1>1, <1>4, <2>1, <2>2, <2>3, LocalControl DEF StartRelease
<1> QED  BY <1>2, <1>3, <1>4

LEMMA LockLocalControl ==
    ASSUME ControlInv, NEW r \in Requests,
           \/ CheckExisting(r) \/ ScanAvailable(r) \/ StampLock(r)
           \/ \E t \in Tickets : SkipTicket(r, t)
    PROVE  ControlInv'
<1> USE DEF ControlInv
<1>0. req[r] \in Handlers
  BY DEF TypeOK
<1>1. CASE CheckExisting(r)
  <2> DEFINE h == [req[r] EXCEPT !.pc = "lock_scan"]
  <2>1. h \in Handlers
    BY <1>0 DEF Handlers, PCs
  <2>2. req' = [req EXCEPT ![r] = h]
    BY <1>1 DEF CheckExisting, Goto
  <2>3. \A t \in Tickets : rowLock[t] # r
    BY <1>1 DEF RowLocksOwned, HoldingPCs, GrabPCs, CheckExisting
  <2>4. HandlerReady(r)'
    BY <1>1, <2>2 DEF TypeOK, HandlersReady, HandlerReady, CheckExisting
  <2> HIDE DEF h
  <2> QED  BY <1>1, <2>1, <2>2, <2>3, <2>4, LocalControl DEF CheckExisting
<1>2. CASE ScanAvailable(r)
  <2> DEFINE S == {t \in Tickets : TierOf[t] = req[r].tier /\ ticket[t].status = "available"}
             h == [req[r] EXCEPT !.pc = "lock_grab", !.rows = S]
  <2>1. h \in Handlers
    <3>1. S \in SUBSET (Tickets \cup UnknownIds)
      OBVIOUS
    <3> HIDE DEF S
    <3> QED  BY <1>0, <3>1 DEF Handlers, PCs, HoldingPCs, GrabPCs
  <2>2. req' = [req EXCEPT ![r] = h]
    BY <1>2 DEF ScanAvailable, TypeOK, Handlers
  <2>3. \A t \in Tickets : rowLock[t] # r
    BY <1>2 DEF RowLocksOwned, HoldingPCs, GrabPCs, ScanAvailable
  <2>5. h.pc = "lock_grab" /\ h.rows \subseteq Tickets /\ h.user = req[r].user
    BY DEF TypeOK, Handlers
  <2>6. req'[r] = h
    BY <2>2 DEF TypeOK
  <2> HIDE DEF h
  <2>4. HandlerReady(r)'
    BY <1>2, <2>5, <2>6 DEF HandlersReady, HandlerReady, ScanAvailable
  <2> QED  BY <1>2, <2>1, <2>2, <2>3, <2>4, LocalControl DEF ScanAvailable
<1>3. CASE StampLock(r)
  <2> DEFINE h == [req[r] EXCEPT !.pc = "lock_commit", !.until = now + LockTTL]
  <2>1. now + LockTTL \in Nat
    BY BoundsAssumption DEF TypeOK
  <2>2. h \in Handlers
    BY <1>0, <2>1 DEF Handlers, PCs, HoldingPCs, GrabPCs
  <2>3. req' = [req EXCEPT ![r] = h] /\ req'[r] = h
    BY <1>3 DEF StampLock, TypeOK, Handlers
  <2>4. /\ h.pc = "lock_commit" /\ h.rows = req[r].rows /\ h.seen = req[r].seen
        /\ h.user = req[r].user /\ h.until = now + LockTTL
    BY DEF TypeOK, Handlers
  <2> HIDE DEF h
  <2>6. PICK t \in Tickets : req[r].rows = {t} /\ rowLock[t] = r /\ req[r].seen[t].status = "available"
    BY <1>3 DEF StampLock, HandlersReady, HandlerReady
  <2>7. req[r].user \in Users
    BY <1>3 DEF StampLock, HandlersReady, HandlerReady
  <2>8. rowLock' = rowLock /\ now' = now /\ now + LockTTL <= now + LockTTL
    BY <1>3, <2>1 DEF StampLock
  <2>9. HandlerReady(r)'
    BY <2>1, <2>3, <2>4, <2>6, <2>7, <2>8 DEF HandlerReady
  <2> QED  BY <1>3, <2>2, <2>3, <2>4, <2>9, LocalControl DEF StampLock, HoldingPCs, GrabPCs
<1>4. ASSUME NEW t \in Tickets, SkipTicket(r, t) PROVE ControlInv'
  <2> DEFINE h == [req[r] EXCEPT !.rows = @ \ {t}]
  <2>0. req[r].rows \ {t} \subseteq Tickets \cup UnknownIds
    BY DEF TypeOK, Handlers
  <2>1. h \in Handlers
    BY <2>0 DEF TypeOK, Handlers
  <2>2. req' = [req EXCEPT ![r] = h]
    BY <1>4 DEF SkipTicket
  <2>3. h.pc = "lock_grab" /\ h.seen = req[r].seen
    BY <1>4 DEF TypeOK, Handlers, SkipTicket
  <2>4. HandlerReady(r)'
    BY <1>4, <2>2 DEF TypeOK, Handlers, HandlersReady, HandlerReady, SkipTicket
  <2> HIDE DEF h
  <2> QED  BY <1>4, <2>1, <2>2, <2>3, <2>4, LocalControl DEF SkipTicket, HoldingPCs, GrabPCs
<1> QED  BY <1>1, <1>2, <1>3, <1>4

LEMMA ValidateControl ==
    ASSUME ControlInv, NEW r \in Requests, ValidateOrder(r)
    PROVE  ControlInv'
<1> USE DEF ControlInv, ValidateOrder
<1> DEFINE h == [req[r] EXCEPT !.pc = "order_buy"]
<1>1. h \in Handlers
  BY DEF TypeOK, Handlers, PCs, HoldingPCs, GrabPCs
<1>2. req' = [req EXCEPT ![r] = h]
  BY DEF Goto
<1>3. \A t \in Tickets : rowLock[t] = r => t \in req[r].rows
  BY DEF RowLocksOwned, GrabPCs
<1>4. HandlerReady(r)'
  BY <1>2 DEF TypeOK, Handlers, HandlersReady, HandlerReady, Purchasable, Unvisited, Held
<1>5. h.pc = "order_buy" /\ h.rows = req[r].rows /\ h.seen = req[r].seen
  BY DEF TypeOK, Handlers
<1> HIDE DEF h
<1> QED  BY <1>1, <1>2, <1>3, <1>4, <1>5, LocalControl DEF HoldingPCs

(* A handler takes a free row and reads it.                                  *)
LEMMA TakeRowControl ==
    ASSUME ControlInv, NEW r \in Requests, NEW t \in Tickets, NEW h \in Handlers,
           Free(t),
           rowLock' = [rowLock EXCEPT ![t] = r],
           req' = [req EXCEPT ![r] = h],
           UNCHANGED <<ticket, orders, reap, now, failures>>,
           h.pc \in HoldingPCs, h.pc \notin GrabPCs => t \in h.rows,
           h.seen = [req[r].seen EXCEPT ![t] = ticket[t]],
           \A x \in Tickets : rowLock[x] = r => (h.pc \notin GrabPCs => x \in h.rows),
           HandlerReady(r)'
    PROVE  ControlInv'
<1> USE NoneAssumption, ReaperAssumption DEF ControlInv
<1>1. req'[r] = h /\ \A q \in Requests \ {r} : req'[q] = req[q]
  BY DEF TypeOK
<1>2. rowLock'[t] = r /\ \A x \in Tickets \ {t} : rowLock'[x] = rowLock[x]
  BY DEF TypeOK
<1>3. rowLock[t] = None
  BY DEF Free
<1>4. \A x \in Tickets \ {t} : h.seen[x] = req[r].seen[x]
  BY DEF TypeOK, Handlers
<1>5. h.seen[t] = ticket[t]
  BY DEF TypeOK, Handlers
<1>6. TypeOK'
  BY DEF TypeOK, Procs
<1>7. RowLocksOwned'
  <2> SUFFICES ASSUME NEW x \in Tickets
               PROVE  /\ \A q \in Requests : rowLock'[x] = q =>
                             /\ req'[q].pc \in HoldingPCs
                             /\ req'[q].pc \notin GrabPCs => x \in req'[q].rows
                             /\ req'[q].seen[x] = ticket[x]
                      /\ rowLock'[x] = Reaper => reap.pc = "sweep"
    BY DEF RowLocksOwned
  <2>1. CASE x = t
    <3>1. req'[r].pc = h.pc /\ req'[r].rows = h.rows /\ req'[r].seen = h.seen
      BY <1>1
    <3>2. rowLock'[x] = r /\ r # Reaper
      BY <2>1, <1>2
    <3> QED  BY <2>1, <3>1, <3>2, <1>5
  <2>2. CASE x # t
    <3>1. rowLock'[x] = rowLock[x] /\ h.seen[x] = req[r].seen[x]
      BY <2>2, <1>2, <1>4
    <3>2. /\ \A q \in Requests : rowLock[x] = q =>
                /\ req[q].pc \in HoldingPCs
                /\ req[q].pc \notin GrabPCs => x \in req[q].rows
                /\ req[q].seen[x] = ticket[x]
          /\ rowLock[x] = Reaper => reap.pc = "sweep"
      BY DEF RowLocksOwned
    <3>3. rowLock[x] = r => (h.pc \notin GrabPCs => x \in h.rows) /\ h.pc \in HoldingPCs
      OBVIOUS
    <3> HIDE DEF ControlInv
    <3> QED  BY <1>1, <3>1, <3>2, <3>3
  <2> QED  BY <2>1, <2>2
<1>8. HandlersReady'
  <2> SUFFICES ASSUME NEW q \in Requests, q # r PROVE HandlerReady(q)'
    BY DEF HandlersReady
  <2>1. HandlerReady(q) /\ req'[q] = req[q]
    BY <1>1 DEF HandlersReady
  <2>2. \A x \in Tickets : rowLock[x] = q => rowLock'[x] = q
    BY <1>2, <1>3
  <2> QED  BY <2>1, <2>2 DEF HandlerReady
<1>9. ReaperReady'
  BY DEF ReaperReady
<1> QED  BY <1>6, <1>7, <1>8, <1>9

LEMMA GrabControl ==
    ASSUME ControlInv, NEW r \in Requests, NEW t \in Tickets, GrabTicket(r, t)
    PROVE  ControlInv'
<1> USE DEF ControlInv, GrabTicket, VisitRow
<1> DEFINE h == [req[r] EXCEPT !.pc = "lock_stamp", !.rows = {t}, !.seen[t] = ticket[t]]
<1>1. h \in Handlers
  BY DEF TypeOK, Handlers, PCs, HoldingPCs, GrabPCs
<1>2. req' = [req EXCEPT ![r] = h] /\ req'[r] = h
  BY DEF TypeOK, Handlers
<1>3. /\ h.pc = "lock_stamp" /\ h.rows = {t} /\ h.user = req[r].user
      /\ h.seen = [req[r].seen EXCEPT ![t] = ticket[t]]
  BY DEF TypeOK, Handlers
<1>4. h.pc \in HoldingPCs /\ h.pc \in GrabPCs
  BY <1>3 DEF HoldingPCs, GrabPCs
<1>5. h.seen[t].status = "available"
  BY <1>3 DEF TypeOK, Handlers
<1>6. rowLock'[t] = r
  BY DEF TypeOK
<1>7. req[r].user \in Users
  BY DEF HandlersReady, HandlerReady
<1> HIDE DEF h
<1>8. HandlerReady(r)'
  BY <1>2, <1>3, <1>5, <1>6, <1>7 DEF HandlerReady
<1> QED  BY <1>1, <1>2, <1>3, <1>4, <1>8, TakeRowControl

LEMMA DropControl ==
    ASSUME ControlInv, NEW r \in Requests, NEW t \in Tickets, DropTicket(r, t)
    PROVE  ControlInv'
<1> USE DEF ControlInv, DropTicket, VisitRow
<1> DEFINE S == req[r].rows \ {t}
           h == [req[r] EXCEPT !.pc = "lock_grab", !.rows = S, !.seen[t] = ticket[t]]
<1>1. req[r].user \in Users /\ S \subseteq Tickets
  BY DEF HandlersReady, HandlerReady
<1> HIDE DEF S
<1>2. h \in Handlers
  BY <1>1 DEF TypeOK, Handlers, PCs, HoldingPCs, GrabPCs
<1>3. req' = [req EXCEPT ![r] = h] /\ req'[r] = h
  BY DEF TypeOK, Handlers, S
<1>4. /\ h.pc = "lock_grab" /\ h.rows = S /\ h.user = req[r].user
      /\ h.seen = [req[r].seen EXCEPT ![t] = ticket[t]]
  BY DEF TypeOK, Handlers
<1>5. h.pc \in HoldingPCs /\ h.pc \in GrabPCs
  BY <1>4 DEF HoldingPCs, GrabPCs
<1> HIDE DEF h
<1>6. HandlerReady(r)'
  BY <1>1, <1>3, <1>4 DEF HandlerReady
<1> QED  BY <1>2, <1>3, <1>4, <1>5, <1>6, TakeRowControl

LEMMA LockRowControl ==
    ASSUME ControlInv, NEW r \in Requests, LockRow(r)
    PROVE  ControlInv'
<1> USE DEF ControlInv
<1>1. PICK t \in RowOf(r) :
         /\ Free(t)
         /\ rowLock' = [rowLock EXCEPT ![t] = r]
         /\ req' = [req EXCEPT ![r].seen[t] = ticket[t]]
         /\ UNCHANGED <<ticket, orders, reap, now, failures>>
  BY DEF LockRow
<1>2. /\ req[r].pc \in {"order_rows", "release_row"}
      /\ t \in Tickets /\ t \in req[r].rows
  BY DEF RowOf, Least, Unvisited
<1> DEFINE h == [req[r] EXCEPT !.seen[t] = ticket[t]]
<1>3. h \in Handlers
  BY <1>2 DEF TypeOK, Handlers
<1>4. req' = [req EXCEPT ![r] = h] /\ req'[r] = h
  BY <1>1 DEF TypeOK, Handlers
<1>5. /\ h.pc = req[r].pc /\ h.rows = req[r].rows /\ h.user = req[r].user
      /\ h.seen = [req[r].seen EXCEPT ![t] = ticket[t]]
  BY DEF TypeOK, Handlers
<1>6. \A x \in Tickets : rowLock[x] = r => x \in req[r].rows
  BY <1>2 DEF RowLocksOwned, GrabPCs
<1> HIDE DEF h
<1>7. HandlerReady(r)'
  BY <1>2, <1>4, <1>5 DEF HandlersReady, HandlerReady
<1> QED  BY <1>1, <1>2, <1>3, <1>4, <1>5, <1>6, <1>7, TakeRowControl DEF HoldingPCs

(* A handler commits: the rows it writes are rows it holds.                  *)
LEMMA CommitControl ==
    ASSUME ControlInv, NEW r \in Requests, NEW row \in Rows,
           row.status = "locked" <=> row.by # None,
           row.status = "locked" <=> row.until # None,
           \A t \in req[r].rows : t \in Tickets /\ rowLock[t] = r,
           ticket' = Written(req[r].rows, row),
           End(r),
           orders' \in Seq([user : Users, items : SUBSET Tickets]),
           UNCHANGED <<reap, now, failures>>
    PROVE  ControlInv'
<1> USE NoneAssumption, ReaperAssumption DEF ControlInv, End
<1>1. \A t \in Tickets : /\ rowLock'[t] # r
                         /\ rowLock'[t] # None => rowLock'[t] = rowLock[t]
                         /\ rowLock[t] # r => rowLock'[t] = rowLock[t]
  BY DEF Unlocked
<1>2. req'[r] = IdleReq /\ \A q \in Requests \ {r} : req'[q] = req[q]
  BY DEF TypeOK
<1>3. \A t \in Tickets : rowLock[t] # r => ticket'[t] = ticket[t]
  BY DEF Written
<1>4. TypeOK'
  <2>1. ticket' \in [Tickets -> Rows]
    BY DEF Written, TypeOK
  <2>2. \A t \in Tickets : /\ ticket'[t].status = "locked" <=> ticket'[t].by # None
                           /\ ticket'[t].status = "locked" <=> ticket'[t].until # None
    BY DEF Written, TypeOK
  <2>3. rowLock' \in [Tickets -> Procs \cup {None}]
    BY DEF Unlocked, TypeOK
  <2>4. req' \in [Requests -> Handlers]
    BY IdleReqType DEF TypeOK
  <2> QED  BY <2>1, <2>2, <2>3, <2>4 DEF TypeOK
<1>5. RowLocksOwned'
  BY <1>1, <1>2, <1>3 DEF RowLocksOwned, Reapable, Expired
<1>6. HandlersReady'
  <2> SUFFICES ASSUME NEW q \in Requests PROVE HandlerReady(q)'
    BY DEF HandlersReady
  <2>1. CASE q = r
    BY <2>1, <1>2 DEF HandlerReady, IdleReq
  <2>2. CASE q # r
    <3>1. HandlerReady(q) /\ req'[q] = req[q]
      BY <2>2, <1>2 DEF HandlersReady
    <3>2. \A x \in Tickets : rowLock[x] = q => rowLock'[x] = q
      BY <2>2, <1>1
    <3> QED  BY <3>1, <3>2 DEF HandlerReady
  <2> QED  BY <2>1, <2>2
<1>7. ReaperReady'
  BY DEF ReaperReady
<1> QED  BY <1>4, <1>5, <1>6, <1>7

(* What a handler about to commit knows.                                     *)
LEMMA CommitLockFacts ==
    ASSUME ControlInv, NEW r \in Requests, CommitLock(r)
    PROVE  /\ \E t \in Tickets : /\ req[r].rows = {t} /\ rowLock[t] = r
                                 /\ ticket[t].status = "available"
           /\ req[r].user \in Users
           /\ req[r].until \in Nat /\ req[r].until <= now + LockTTL
BY DEF ControlInv, CommitLock, HandlersReady, HandlerReady, RowLocksOwned

LEMMA CommitOrderFacts ==
    ASSUME ControlInv, NEW r \in Requests, req[r].pc = "order_buy"
    PROVE  /\ req[r].user \in Users /\ req[r].rows # {}
           /\ \A t \in req[r].rows : /\ t \in Tickets /\ rowLock[t] = r
                                     /\ ticket[t].status = "locked"
                                     /\ ticket[t].by = req[r].user
BY DEF ControlInv, HandlersReady, HandlerReady, RowLocksOwned

LEMMA CommitReleaseFacts ==
    ASSUME ControlInv, NEW r \in Requests, CommitRelease(r)
    PROVE  /\ req[r].user \in Users
           /\ \E t \in Tickets : /\ req[r].rows = {t} /\ rowLock[t] = r
                                 /\ ticket[t].status = "locked"
                                 /\ ticket[t].by = req[r].user
<1> USE DEF ControlInv, CommitRelease
<1>1. PICK t \in Tickets : req[r].rows = {t}
  BY DEF HandlersReady, HandlerReady
<1>2. rowLock[t] = r
  BY <1>1 DEF Unvisited, Held
<1>3. req[r].seen[t] = ticket[t]
  BY <1>2 DEF RowLocksOwned
<1> QED  BY <1>1, <1>2, <1>3 DEF OwnsSeen, HandlersReady, HandlerReady

LEMMA CommitsControl ==
    ASSUME ControlInv, NEW r \in Requests,
           CommitLock(r) \/ CommitOrder(r) \/ CommitRelease(r)
    PROVE  ControlInv'
<1> USE NoneAssumption
<1>1. CASE CommitLock(r)
  <2> DEFINE row == LockedRow(req[r].user, req[r].until)
  <2>1. /\ row \in Rows
        /\ row.status = "locked" <=> row.by # None
        /\ row.status = "locked" <=> row.until # None
    BY <1>1, CommitLockFacts DEF LockedRow, Rows
  <2>2. \A t \in req[r].rows : t \in Tickets /\ rowLock[t] = r
    BY <1>1, CommitLockFacts
  <2>3. orders' \in Seq([user : Users, items : SUBSET Tickets])
    BY <1>1 DEF CommitLock, ControlInv, TypeOK
  <2> HIDE DEF row
  <2>4. ticket' = Written(req[r].rows, row) /\ End(r) /\ UNCHANGED <<reap, now, failures>>
    BY <1>1 DEF CommitLock, row
  <2> QED  BY <2>1, <2>2, <2>3, <2>4, CommitControl
<1>2. CASE CommitOrder(r)
  <2>1. /\ SoldRow \in Rows
        /\ SoldRow.status = "locked" <=> SoldRow.by # None
        /\ SoldRow.status = "locked" <=> SoldRow.until # None
    BY DEF SoldRow, Rows
  <2>2. \A t \in req[r].rows : t \in Tickets /\ rowLock[t] = r
    BY <1>2, CommitOrderFacts DEF CommitOrder
  <2>3. orders' \in Seq([user : Users, items : SUBSET Tickets])
    <3>1. [user |-> req[r].user, items |-> req[r].rows] \in [user : Users, items : SUBSET Tickets]
      BY <1>2, <2>2, CommitOrderFacts DEF CommitOrder
    <3> QED  BY <1>2, <3>1 DEF CommitOrder, ControlInv, TypeOK
  <2> QED  BY <1>2, <2>1, <2>2, <2>3, CommitControl DEF CommitOrder
<1>3. CASE CommitRelease(r)
  <2>1. /\ AvailableRow \in Rows
        /\ AvailableRow.status = "locked" <=> AvailableRow.by # None
        /\ AvailableRow.status = "locked" <=> AvailableRow.until # None
    BY DEF AvailableRow, Rows
  <2>2. \A t \in req[r].rows : t \in Tickets /\ rowLock[t] = r
    BY <1>3, CommitReleaseFacts
  <2>3. orders' \in Seq([user : Users, items : SUBSET Tickets])
    BY <1>3 DEF CommitRelease, ControlInv, TypeOK
  <2> QED  BY <1>3, <2>1, <2>2, <2>3, CommitControl DEF CommitRelease
<1> QED  BY <1>1, <1>2, <1>3

(* A step of the reaper that writes no row; it may take the free row t.      *)
LEMMA ReaperControl ==
    ASSUME ControlInv, NEW g \in Reapers,
           reap' = g, g.at <= now, g.todo # {} => g.row \in g.todo,
           rowLock' \in [Tickets -> Procs \cup {None}],
           \A t \in Tickets :
              \/ rowLock'[t] = rowLock[t] /\ rowLock[t] # Reaper
              \/ rowLock[t] = Reaper /\ rowLock'[t] = None
              \/ /\ rowLock[t] \in {None, Reaper} /\ rowLock'[t] = Reaper
                 /\ g.pc = "sweep",
           UNCHANGED <<ticket, orders, req, now>>,
           failures' \in Nat
    PROVE  ControlInv'
<1> USE NoneAssumption, ReaperAssumption DEF ControlInv
<1>1. \A t \in Tickets, r \in Requests : rowLock'[t] = r <=> rowLock[t] = r
  OBVIOUS
<1>2. TypeOK'
  BY DEF TypeOK
<1>3. RowLocksOwned'
  <2>1. \A t \in Tickets : \A r \in Requests : rowLock'[t] = r =>
           /\ req[r].pc \in HoldingPCs
           /\ req[r].pc \notin GrabPCs => t \in req[r].rows
           /\ req[r].seen[t] = ticket[t]
    BY <1>1 DEF RowLocksOwned
  <2>2. \A t \in Tickets : rowLock'[t] = Reaper => g.pc = "sweep"
    OBVIOUS
  <2> QED  BY <2>1, <2>2 DEF RowLocksOwned
<1>4. HandlersReady'
  BY <1>1 DEF HandlersReady, HandlerReady
<1>5. ReaperReady'
  BY DEF ReaperReady
<1> QED  BY <1>2, <1>3, <1>4, <1>5

LEMMA ReapStartControl ==
    ASSUME ControlInv, ReapStart PROVE ControlInv'
<1> USE NoneAssumption DEF ControlInv, ReapStart
<1> DEFINE g == [reap EXCEPT !.pc = "update", !.at = now]
<1>. now \in Nat
  BY BoundsAssumption DEF TypeOK
<1>0. g \in Reapers /\ g.at = now /\ g.todo = reap.todo /\ g.row = reap.row
  BY DEF TypeOK, Reapers
<1>1. now <= now /\ (reap.todo # {} => reap.row \in reap.todo)
  BY DEF TypeOK, ReaperReady
<1>2. \A t \in Tickets : rowLock[t] # Reaper
  BY DEF RowLocksOwned
<1>3. rowLock \in [Tickets -> Procs \cup {None}] /\ failures \in Nat
  BY DEF TypeOK
<1> HIDE DEF g
<1>4. reap' = g
  BY DEF g
<1> QED  BY <1>0, <1>1, <1>2, <1>3, <1>4, ReaperControl

LEMMA ReapScanControl ==
    ASSUME ControlInv, ReapScan PROVE ControlInv'
<1> USE NoneAssumption DEF ControlInv
<1> DEFINE S == {t \in Tickets : Reapable(ticket[t], reap.at)}
<1>1. PICK x \in FirstOf(S) : reap' = [reap EXCEPT !.pc = "sweep", !.todo = S, !.row = x]
  BY DEF ReapScan
<1> DEFINE g == [reap EXCEPT !.pc = "sweep", !.todo = S, !.row = x]
<1>2. S \subseteq Tickets /\ x \in Tickets \cup {None} /\ (S # {} => x \in S)
  BY DEF FirstOf
<1> HIDE DEF S
<1>3. g \in Reapers /\ g.at <= now /\ (g.todo # {} => g.row \in g.todo)
  BY <1>2 DEF TypeOK, Reapers, ReaperReady
<1>4. \A t \in Tickets : rowLock[t] # Reaper
  BY DEF RowLocksOwned, ReapScan
<1>5. rowLock \in [Tickets -> Procs \cup {None}] /\ failures \in Nat
  BY DEF TypeOK
<1>6. UNCHANGED <<ticket, rowLock, orders, req, now, failures>>
  BY DEF ReapScan
<1> HIDE DEF g
<1>7. reap' = g
  BY <1>1 DEF g
<1> QED  BY <1>3, <1>4, <1>5, <1>6, <1>7, ReaperControl

LEMMA ReapRowControl ==
    ASSUME ControlInv, ReapRow PROVE ControlInv'
<1> USE NoneAssumption, ReaperAssumption DEF ControlInv
<1> DEFINE S == reap.todo \ {reap.row}
<1>1. PICK x \in FirstOf(S) : reap' = [reap EXCEPT !.todo = S, !.row = x]
  BY DEF ReapRow, TypeOK, Reapers
<1> DEFINE g == [reap EXCEPT !.todo = S, !.row = x]
<1>2. reap.row \in reap.todo /\ reap.todo \subseteq Tickets
  BY DEF ReapRow, ReaperReady, TypeOK, Reapers
<1>3. S \subseteq Tickets /\ x \in Tickets \cup {None} /\ (S # {} => x \in S)
  BY <1>2 DEF FirstOf
<1> HIDE DEF S
<1>4. g \in Reapers /\ g.at = reap.at /\ g.pc = "sweep" /\ (g.todo # {} => g.row \in g.todo)
  BY <1>3 DEF TypeOK, Reapers, ReapRow
<1>5. g.at <= now
  BY <1>4 DEF ReaperReady
<1>6. rowLock' \in [Tickets -> Procs \cup {None}]
  BY DEF ReapRow, TypeOK, Procs
<1>8. ASSUME NEW t \in Tickets
      PROVE  \/ rowLock'[t] = rowLock[t] /\ rowLock[t] # Reaper
             \/ rowLock[t] \in {None, Reaper} /\ rowLock'[t] = Reaper
  <2>1. CASE t = reap.row
    BY <2>1 DEF ReapRow, TypeOK, Free
  <2>2. CASE t # reap.row
    BY <2>2 DEF ReapRow, TypeOK
  <2> QED  BY <2>1, <2>2
<1>9. UNCHANGED <<ticket, orders, req, now, failures>> /\ failures \in Nat
  BY DEF ReapRow, TypeOK
<1> HIDE DEF g
<1>10. reap' = g
  BY <1>1 DEF g
<1> QED  BY <1>4, <1>5, <1>6, <1>8, <1>9, <1>10, ReaperControl

(* The reaper ends without writing: it failed, or it was a deadlock's victim. *)
LEMMA EndReapControl ==
    ASSUME ControlInv, ReapFail \/ ReaperVictim PROVE ControlInv'
<1> USE NoneAssumption, ReaperAssumption DEF ControlInv
<1>1. EndReap /\ UNCHANGED <<ticket, orders, req, now>> /\ failures' = failures + 1
  BY DEF ReapFail, ReaperVictim, CountFailure
<1>2. IdleReap.at <= now /\ IdleReap.todo = {}
  BY DEF TypeOK, IdleReap
<1>3. rowLock' \in [Tickets -> Procs \cup {None}]
  BY <1>1 DEF EndReap, Unlocked, TypeOK
<1>4. \A t \in Tickets : \/ rowLock'[t] = rowLock[t] /\ rowLock[t] # Reaper
                         \/ rowLock[t] = Reaper /\ rowLock'[t] = None
  BY <1>1 DEF EndReap, Unlocked
<1>5. failures' \in Nat
  BY <1>1 DEF TypeOK
<1> QED  BY <1>1, <1>2, <1>3, <1>4, <1>5, IdleReapType, ReaperControl DEF EndReap

LEMMA ReapCommitControl ==
    ASSUME ControlInv, ReapCommit PROVE ControlInv'
<1> USE NoneAssumption, ReaperAssumption DEF ControlInv, ReapCommit, EndReap
<1>1. \A t \in Tickets : /\ rowLock'[t] # Reaper
                         /\ \A r \in Requests : rowLock'[t] = r <=> rowLock[t] = r
                         /\ rowLock[t] # Reaper => ticket'[t] = ticket[t]
  BY DEF Unlocked, Written, Matched, Held
<1>2. TypeOK'
  <2>1. ticket' \in [Tickets -> Rows]
    BY DEF Written, TypeOK, AvailableRow, Rows
  <2>2. \A t \in Tickets : /\ ticket'[t].status = "locked" <=> ticket'[t].by # None
                           /\ ticket'[t].status = "locked" <=> ticket'[t].until # None
    BY DEF Written, TypeOK, AvailableRow
  <2>3. rowLock' \in [Tickets -> Procs \cup {None}]
    BY DEF Unlocked, TypeOK
  <2> QED  BY <2>1, <2>2, <2>3, IdleReapType DEF TypeOK
<1>3. RowLocksOwned'
  BY <1>1 DEF RowLocksOwned
<1>4. HandlersReady'
  BY <1>1 DEF HandlersReady, HandlerReady
<1>5. ReaperReady'
  BY DEF ReaperReady, IdleReap, TypeOK
<1> QED  BY <1>2, <1>3, <1>4, <1>5

LEMMA EnvironmentControl ==
    ASSUME ControlInv, Crash \/ Tick PROVE ControlInv'
<1> USE NoneAssumption, ReaperAssumption DEF ControlInv
<1>1. CASE Crash
  <2> USE <1>1 DEF Crash
  <2>1. TypeOK'
    BY IdleReqType, IdleReapType DEF TypeOK, CountFailure
  <2>2. RowLocksOwned'
    BY DEF RowLocksOwned
  <2>3. HandlersReady'
    BY DEF HandlersReady, HandlerReady, IdleReq
  <2>4. ReaperReady'
    BY DEF ReaperReady, IdleReap, TypeOK
  <2> QED  BY <2>1, <2>2, <2>3, <2>4
<1>2. CASE Tick
  <2> USE <1>2 DEF Tick
  <2>0. now \in Nat /\ now' = now + 1 /\ now' \in 0 .. MaxTime
    BY BoundsAssumption DEF TypeOK
  <2>1. TypeOK'
    <3> HIDE <1>2 DEF Tick
    <3>1. UNCHANGED <<ticket, rowLock, orders, req, reap, failures>>
      BY <1>2 DEF Tick
    <3> QED  BY <2>0, <3>1 DEF TypeOK
  <2>2. RowLocksOwned'
    BY DEF RowLocksOwned, Reapable, Expired
  <2>3. HandlersReady'
    <3> SUFFICES ASSUME NEW q \in Requests PROVE HandlerReady(q)'
      BY DEF HandlersReady
    <3>1. HandlerReady(q)
      BY DEF HandlersReady
    <3>2. req[q].pc = "lock_commit" => req[q].until \in Nat /\ req[q].until <= now' + LockTTL
      BY <2>0, <3>1, BoundsAssumption DEF HandlerReady
    <3> QED  BY <3>1, <3>2 DEF HandlerReady
  <2>4. ReaperReady'
    BY <2>0 DEF ReaperReady, TypeOK, Reapers
  <2> QED  BY <2>1, <2>2, <2>3, <2>4
<1> QED  BY <1>1, <1>2

LEMMA StutterControl ==
    ASSUME ControlInv, UNCHANGED vars PROVE ControlInv'
BY DEF vars, ControlInv, TypeOK, RowLocksOwned, Reapable, Expired, HandlersReady, HandlerReady, ReaperReady

LEMMA NextControl == ControlInv /\ [Next]_vars => ControlInv'
<1> SUFFICES ASSUME ControlInv, [Next]_vars PROVE ControlInv'
  OBVIOUS
<1>1. ASSUME NEW r \in Requests, LockTicket(r) PROVE ControlInv'
  <2>1. CASE RejectSecondLock(r) \/ RejectSoldOut(r)
    BY <2>1, RollbackControl DEF RejectSecondLock, RejectSoldOut
  <2> QED  BY <1>1, <2>1, StartControl, LockLocalControl, GrabControl, DropControl, CommitsControl
           DEF LockTicket
<1>2. ASSUME NEW r \in Requests, CreateOrder(r) PROVE ControlInv'
  <2>1. CASE RejectOrder(r)
    BY <2>1, RollbackControl DEF RejectOrder
  <2> QED  BY <1>2, <2>1, StartControl, LockRowControl, ValidateControl, CommitsControl
           DEF CreateOrder
<1>3. ASSUME NEW r \in Requests, ReleaseLock(r) PROVE ControlInv'
  <2>1. CASE RejectRelease(r)
    BY <2>1, RollbackControl DEF RejectRelease
  <2> QED  BY <1>3, <2>1, StartControl, CommitsControl DEF ReleaseLock
<1>4. ASSUME NEW r \in Requests, FailRequest(r) \/ DeadlockVictim(r) PROVE ControlInv'
  BY <1>4, RollbackControl DEF FailRequest, DeadlockVictim
<1>5. CASE ReapExpiredLocks
  BY <1>5, ReapStartControl, ReapScanControl, ReapRowControl, ReapCommitControl
     DEF ReapExpiredLocks
<1> QED  BY <1>1, <1>2, <1>3, <1>4, <1>5, EndReapControl, EnvironmentControl, StutterControl
         DEF Next

(* The invariant of the control holds in every reachable state.              *)
THEOREM ControlInvariant == Spec => []ControlInv
BY InitControl, NextControl, PTL DEF Spec

(* Every row has its type, status and lock columns agree, and so on, in any  *)
(* deployment: the handlers, the job, failures and crashes keep TypeOK.      *)
THEOREM TypeCorrect == Spec => []TypeOK
BY ControlInvariant, PTL DEF ControlInv

(* What a transaction read of a row it holds is what the row is; no row lock *)
(* is leaked by a handler that returned, raised, failed or crashed.          *)
THEOREM LocksAreOwned == Spec => []RowLocksOwned
BY ControlInvariant, PTL DEF ControlInv

(* The validation of create_order stays true until its commit.               *)
THEOREM ValidationLasts == Spec => []ValidationHolds
<1>1. ControlInv => ValidationHolds
  BY CommitOrderFacts DEF ValidationHolds
<1> QED  BY <1>1, ControlInvariant, PTL
-----------------------------------------------------------------------------
(* No double booking *)

SalesInv == ControlInv /\ SoldIffOrdered /\ NoDoubleSale

(* The rows that stay unsold and the orders that stay the same.              *)
LEMMA NoSaleStep ==
    ASSUME SalesInv, UNCHANGED orders,
           \A t \in Tickets : ticket'[t].status = "sold" <=> ticket[t].status = "sold"
    PROVE  SoldIffOrdered' /\ NoDoubleSale'
BY DEF SalesInv, SoldIffOrdered, NoDoubleSale

LEMMA SaleStep ==
    ASSUME SalesInv, NEW r \in Requests, CommitOrder(r)
    PROVE  SoldIffOrdered' /\ NoDoubleSale'
<1> DEFINE n == Len(orders) + 1
           o == [user |-> req[r].user, items |-> req[r].rows]
<1>1. \A t \in req[r].rows : t \in Tickets /\ ticket[t].status = "locked"
  BY CommitOrderFacts DEF SalesInv, CommitOrder
<1>2. orders \in Seq([user : Users, items : SUBSET Tickets])
  BY DEF SalesInv, ControlInv, TypeOK
<1>3. o \in [user : Users, items : SUBSET Tickets]
  BY <1>1, CommitOrderFacts DEF SalesInv, CommitOrder
<1>4. /\ DOMAIN orders = 1 .. Len(orders) /\ Len(orders) \in Nat
      /\ DOMAIN orders' = 1 .. n
      /\ orders'[n] = o /\ \A i \in 1 .. Len(orders) : orders'[i] = orders[i]
  BY <1>2, <1>3 DEF CommitOrder
<1>5. \A t \in req[r].rows : \A i \in 1 .. Len(orders) : t \notin orders[i].items
  BY <1>1, <1>4 DEF SalesInv, SoldIffOrdered
<1>6. SoldIffOrdered'
  <2> SUFFICES ASSUME NEW t \in Tickets
               PROVE  ticket'[t].status = "sold" <=> \E i \in DOMAIN orders' : t \in orders'[i].items
    BY DEF SoldIffOrdered
  <2>1. CASE t \in req[r].rows
    <3>1. ticket'[t].status = "sold"
      BY <2>1 DEF CommitOrder, Written, SoldRow
    <3>2. n \in DOMAIN orders' /\ t \in orders'[n].items
      BY <2>1, <1>4
    <3> QED  BY <3>1, <3>2
  <2>2. CASE t \notin req[r].rows
    <3>1. ticket'[t] = ticket[t]
      BY <2>2 DEF CommitOrder, Written
    <3>2. (\E i \in DOMAIN orders' : t \in orders'[i].items)
             <=> \E i \in DOMAIN orders : t \in orders[i].items
      BY <2>2, <1>4
    <3> QED  BY <3>1, <3>2 DEF SalesInv, SoldIffOrdered
  <2> QED  BY <2>1, <2>2
<1>7. NoDoubleSale'
  <2> SUFFICES ASSUME NEW i \in 1 .. n, NEW j \in 1 .. n, i # j
               PROVE  orders'[i].items \cap orders'[j].items = {}
    BY <1>4 DEF NoDoubleSale
  <2>1. CASE i # n /\ j # n
    BY <2>1, <1>4 DEF SalesInv, NoDoubleSale
  <2>2. CASE i = n
    BY <2>2, <1>4, <1>5
  <2>3. CASE j = n
    BY <2>3, <1>4, <1>5
  <2> QED  BY <2>1, <2>2, <2>3
<1> QED  BY <1>6, <1>7

LEMMA NextSales == SalesInv /\ [Next]_vars => SalesInv'
<1> SUFFICES ASSUME SalesInv, [Next]_vars PROVE SalesInv'
  OBVIOUS
<1>1. ControlInv /\ ControlInv'
  BY NextControl DEF SalesInv
<1>2. ASSUME UNCHANGED <<ticket, orders>> PROVE SalesInv'
  BY <1>1, <1>2, NoSaleStep DEF SalesInv
<1>3. ASSUME NEW r \in Requests, CommitLock(r) PROVE SalesInv'
  <2>1. PICK t \in Tickets : req[r].rows = {t} /\ ticket[t].status = "available"
    BY <1>1, <1>3, CommitLockFacts
  <2>2. \A x \in Tickets : ticket'[x].status = "sold" <=> ticket[x].status = "sold"
    BY <1>3, <2>1 DEF CommitLock, Written, LockedRow
  <2> QED  BY <1>1, <1>3, <2>2, NoSaleStep DEF CommitLock, SalesInv
<1>4. ASSUME NEW r \in Requests, CommitRelease(r) PROVE SalesInv'
  <2>1. PICK t \in Tickets : req[r].rows = {t} /\ ticket[t].status = "locked"
    BY <1>1, <1>4, CommitReleaseFacts
  <2>2. \A x \in Tickets : ticket'[x].status = "sold" <=> ticket[x].status = "sold"
    BY <1>4, <2>1 DEF CommitRelease, Written, AvailableRow
  <2> QED  BY <1>1, <1>4, <2>2, NoSaleStep DEF CommitRelease, SalesInv
<1>5. ASSUME NEW r \in Requests, CommitOrder(r) PROVE SalesInv'
  BY <1>1, <1>5, SaleStep DEF SalesInv
<1>6. ASSUME ReapCommit PROVE SalesInv'
  <2>1. \A x \in Matched : ticket[x].status = "locked"
    BY DEF Matched, Reapable
  <2>2. \A x \in Tickets : ticket'[x].status = "sold" <=> ticket[x].status = "sold"
    BY <1>6, <2>1 DEF ReapCommit, Written, AvailableRow
  <2> QED  BY <1>1, <1>6, <2>2, NoSaleStep DEF ReapCommit, SalesInv
<1>7. ASSUME NEW r \in Requests, LockTicket(r), ~CommitLock(r) PROVE UNCHANGED <<ticket, orders>>
  BY <1>7 DEF LockTicket, StartLock, CheckExisting, RejectSecondLock, ScanAvailable, GrabTicket,
              DropTicket, VisitRow, SkipTicket, RejectSoldOut, StampLock, Rollback
<1>8. ASSUME NEW r \in Requests, CreateOrder(r), ~CommitOrder(r) PROVE UNCHANGED <<ticket, orders>>
  BY <1>8 DEF CreateOrder, StartOrder, LockRow, ValidateOrder, RejectOrder, Rollback
<1>9. ASSUME NEW r \in Requests, ReleaseLock(r), ~CommitRelease(r) PROVE UNCHANGED <<ticket, orders>>
  BY <1>9 DEF ReleaseLock, StartRelease, RejectRelease, Rollback
<1>10. ASSUME NEW r \in Requests, FailRequest(r) \/ DeadlockVictim(r)
       PROVE  UNCHANGED <<ticket, orders>>
  BY <1>10 DEF FailRequest, DeadlockVictim, Rollback
<1>11. ASSUME \/ ReapStart \/ ReapScan \/ ReapRow \/ ReapFail \/ ReaperVictim
              \/ Crash \/ Tick \/ UNCHANGED vars
       PROVE  UNCHANGED <<ticket, orders>>
  BY <1>11 DEF ReapStart, ReapScan, ReapRow, ReapFail, ReaperVictim, Crash, Tick, vars
<1> QED  BY <1>2, <1>3, <1>4, <1>5, <1>6, <1>7, <1>8, <1>9, <1>10, <1>11
         DEF Next, ReapExpiredLocks

LEMMA InitSales == Init => SalesInv
<1> SUFFICES ASSUME Init PROVE SoldIffOrdered /\ NoDoubleSale
  BY InitControl DEF SalesInv
<1>1. DOMAIN orders = {}
  BY DEF Init
<1> QED  BY <1>1 DEF Init, SoldIffOrdered, NoDoubleSale, AvailableRow

(* Orders and sold tickets agree, and no ticket is sold twice, in every      *)
(* reachable state.                                                          *)
THEOREM SalesInvariant == Spec => []SalesInv
BY InitSales, NextSales, PTL DEF Spec

(* No ticket is sold twice, for any number of buyers and handlers, without a *)
(* unique constraint on order_items.ticket_id.                               *)
THEOREM NeverSoldTwice == Spec => []NoDoubleSale
BY SalesInvariant, PTL DEF SalesInv

(* The sold tickets are exactly the items of the committed orders.           *)
THEOREM SoldMatchesOrders == Spec => []SoldIffOrdered
BY SalesInvariant, PTL DEF SalesInv
-----------------------------------------------------------------------------
(* The reservations are safe, and the service implements the ledger          *)

(* What each write of the tickets table is, and who makes it.                *)
LEMMA Writes ==
    ASSUME Next
    PROVE  \/ UNCHANGED <<ticket, orders, now>>
           \/ \E r \in Requests : CommitLock(r) \/ CommitOrder(r) \/ CommitRelease(r)
           \/ ReapCommit
           \/ Tick
<1>1. ASSUME NEW r \in Requests, LockTicket(r), ~CommitLock(r)
      PROVE  UNCHANGED <<ticket, orders, now>>
  BY <1>1 DEF LockTicket, StartLock, CheckExisting, RejectSecondLock, ScanAvailable, GrabTicket,
              DropTicket, VisitRow, SkipTicket, RejectSoldOut, StampLock, Rollback
<1>2. ASSUME NEW r \in Requests, CreateOrder(r), ~CommitOrder(r)
      PROVE  UNCHANGED <<ticket, orders, now>>
  BY <1>2 DEF CreateOrder, StartOrder, LockRow, ValidateOrder, RejectOrder, Rollback
<1>3. ASSUME NEW r \in Requests, ReleaseLock(r), ~CommitRelease(r)
      PROVE  UNCHANGED <<ticket, orders, now>>
  BY <1>3 DEF ReleaseLock, StartRelease, RejectRelease, Rollback
<1>4. ASSUME NEW r \in Requests, FailRequest(r) \/ DeadlockVictim(r)
      PROVE  UNCHANGED <<ticket, orders, now>>
  BY <1>4 DEF FailRequest, DeadlockVictim, Rollback
<1>5. ASSUME ReapStart \/ ReapScan \/ ReapRow \/ ReapFail \/ ReaperVictim \/ Crash
      PROVE  UNCHANGED <<ticket, orders, now>>
  BY <1>5 DEF ReapStart, ReapScan, ReapRow, ReapFail, ReaperVictim, Crash
<1> QED  BY <1>1, <1>2, <1>3, <1>4, <1>5 DEF Next, ReapExpiredLocks

(* A handler that commits writes only rows it holds, for the row's holder    *)
(* if it has one; the reaper writes only rows that are over.                 *)
LEMMA LiveLockStep ==
    ASSUME ControlInv, [Next]_vars, NEW t \in Tickets,
           ticket[t].status = "locked", ticket'[t] # ticket[t], now <= ticket[t].until
    PROVE  \E r \in Requests : rowLock[t] = r /\ req[r].user = ticket[t].by
<1>1. CASE \E r \in Requests : CommitLock(r)
  <2>1. PICK r \in Requests : CommitLock(r)
    BY <1>1
  <2>2. PICK x \in Tickets : req[r].rows = {x} /\ ticket[x].status = "available"
    BY <2>1, CommitLockFacts
  <2> QED  BY <2>1, <2>2 DEF CommitLock, Written
<1>2. CASE \E r \in Requests : CommitOrder(r)
  <2>1. PICK r \in Requests : CommitOrder(r)
    BY <1>2
  <2>2. t \in req[r].rows
    BY <2>1 DEF CommitOrder, Written
  <2> QED  BY <2>1, <2>2, CommitOrderFacts DEF CommitOrder
<1>3. CASE \E r \in Requests : CommitRelease(r)
  <2>1. PICK r \in Requests : CommitRelease(r)
    BY <1>3
  <2>2. t \in req[r].rows
    BY <2>1 DEF CommitRelease, Written
  <2> QED  BY <2>1, <2>2, CommitReleaseFacts
<1>4. CASE ReapCommit
  <2>1. Reapable(ticket[t], reap.at)
    BY <1>4 DEF ReapCommit, Written, Matched
  <2>2. ticket[t].until \in Nat /\ ticket[t].until < reap.at
    BY <2>1, NoneAssumption DEF ControlInv, Reapable, Expired, TypeOK, Rows
  <2>3. reap.at <= now /\ reap.at \in Nat /\ now \in Nat
    BY DEF ControlInv, ReaperReady, TypeOK, Reapers
  <2> QED  BY <2>2, <2>3
<1>5. CASE UNCHANGED ticket
  BY <1>5
<1> QED  BY <1>1, <1>2, <1>3, <1>4, <1>5, Writes DEF vars, Tick

(* Nobody takes a reservation that is not over from its holder.              *)
THEOREM LiveLocksSafe == Spec => LiveLocksAreSafe
<1>1. ControlInv /\ [Next]_vars =>
         [\A t \in Tickets :
            (ticket[t].status = "locked" /\ ticket'[t] # ticket[t] /\ now <= ticket[t].until)
            => \E r \in Requests : rowLock[t] = r /\ req[r].user = ticket[t].by]_vars
  BY LiveLockStep
<1> QED  BY <1>1, ControlInvariant, PTL DEF Spec, LiveLocksAreSafe

LEMMA RowsAreThree ==
    ASSUME ControlInv, NEW t \in Tickets, ticket[t].status = "available"
    PROVE  ticket[t] = AvailableRow
BY DEF ControlInv, TypeOK, Rows, AvailableRow

LEMMA LedgerInit == Init => Ledger!Init
BY DEF Init, Ledger!Init, AvailableRow, Ledger!AvailableRow

LEMMA LedgerStep == ControlInv /\ [Next]_vars => [Ledger!Next]_(Ledger!vars)
<1> SUFFICES ASSUME ControlInv, [Next]_vars, ~UNCHANGED <<ticket, orders, now>>
             PROVE  Ledger!Next
  BY DEF Ledger!vars
<1> USE DEF Written, Ledger!SetRows
<1>1. ASSUME NEW r \in Requests, CommitLock(r) PROVE Ledger!Next
  <2>1. PICK t \in Tickets : req[r].rows = {t} /\ ticket[t].status = "available"
    BY <1>1, CommitLockFacts
  <2> DEFINE u == req[r].user
             e == req[r].until
  <2>2. u \in Users /\ e \in Nat /\ e <= now + LockTTL
    BY <1>1, CommitLockFacts
  <2>3. e \in 0 .. MaxTime + LockTTL
    BY <2>2, BoundsAssumption DEF ControlInv, TypeOK
  <2>4. Ledger!Reserve(u, t, e)
    BY <1>1, <2>1, <2>2, RowsAreThree
       DEF CommitLock, Ledger!Reserve, LockedRow, Ledger!LockedRow, AvailableRow, Ledger!AvailableRow
  <2> QED  BY <2>2, <2>3, <2>4 DEF Ledger!Next
<1>2. ASSUME NEW r \in Requests, CommitOrder(r) PROVE Ledger!Next
  <2>1. /\ req[r].user \in Users
        /\ req[r].rows \in (SUBSET Tickets) \ {{}}
        /\ \A t \in req[r].rows : ticket[t].status = "locked" /\ ticket[t].by = req[r].user
    BY <1>2, CommitOrderFacts DEF CommitOrder
  <2>2. Ledger!Buy(req[r].user, req[r].rows)
    BY <1>2, <2>1 DEF CommitOrder, Ledger!Buy, Ledger!HeldBy, SoldRow, Ledger!SoldRow
  <2> QED  BY <2>1, <2>2 DEF Ledger!Next
<1>3. ASSUME NEW r \in Requests, CommitRelease(r) PROVE Ledger!Next
  <2>1. PICK t \in Tickets : /\ req[r].rows = {t}
                            /\ ticket[t].status = "locked" /\ ticket[t].by = req[r].user
    BY <1>3, CommitReleaseFacts
  <2>2. req[r].user \in Users
    BY <1>3, CommitReleaseFacts
  <2>3. Ledger!Cancel(req[r].user, t)
    BY <1>3, <2>1 DEF CommitRelease, Ledger!Cancel, Ledger!HeldBy, AvailableRow, Ledger!AvailableRow
  <2> QED  BY <2>2, <2>3 DEF Ledger!Next
<1>4. ASSUME ReapCommit PROVE Ledger!Next
  <2> DEFINE S == Matched
  <2>1. \A t \in S : ticket[t].status = "locked" /\ ticket[t].until < reap.at /\ ticket[t].until \in Nat
    BY NoneAssumption DEF Matched, Held, ControlInv, Reapable, Expired, TypeOK, Rows
  <2>2. reap.at <= now /\ reap.at \in Nat /\ now \in Nat
    BY DEF ControlInv, ReaperReady, TypeOK, Reapers
  <2>3. \A t \in S : ticket[t].status = "locked" /\ ticket[t].until < now
    BY <2>1, <2>2
  <2>4. S \in SUBSET Tickets
    BY DEF Matched, Held
  <2> HIDE DEF S
  <2>5. Ledger!Expire(S)
    BY <1>4, <2>3 DEF ReapCommit, Ledger!Expire, AvailableRow, Ledger!AvailableRow, S
  <2> QED  BY <2>4, <2>5 DEF Ledger!Next
<1>5. ASSUME Tick PROVE Ledger!Next
  BY <1>5 DEF Tick, Ledger!Tick, Ledger!Next
<1> QED  BY <1>1, <1>2, <1>3, <1>4, <1>5, Writes DEF vars

(* The service implements the ledger: what its concurrent transactions do to *)
(* tickets and orders is what atomic reservations, purchases, cancellations  *)
(* and expirations would have done, one after the other.                     *)
THEOREM ImplementsLedger == Spec => LedgerSpec
BY LedgerInit, LedgerStep, ControlInvariant, PTL DEF Spec, LedgerSpec, Ledger!Spec

-----------------------------------------------------------------------------
(* What the ledger promises *)

(* Sales are final: a sold ticket and a committed order never change again;  *)
(* and a ticket is sold to nobody but its holder, by the order that names it.*)
SoldToHolder(t) ==
    /\ ticket[t].status = "locked"
    /\ \E i \in (DOMAIN orders') \ DOMAIN orders :
          t \in orders'[i].items /\ orders'[i].user = ticket[t].by

FinalStep ==
    /\ \A i \in DOMAIN orders : i \in DOMAIN orders' /\ orders'[i] = orders[i]
    /\ \A t \in Tickets : IF ticket[t].status = "sold" THEN ticket'[t] = ticket[t]
                           ELSE ticket'[t].status = "sold" => SoldToHolder(t)

SalesAreFinal == [][FinalStep]_vars

(* Every step of the ledger is such a step, whoever implements it.           *)
LEMMA LedgerFinal == ControlInv /\ [Ledger!Next]_(Ledger!vars) => FinalStep
<1> SUFFICES ASSUME ControlInv, [Ledger!Next]_(Ledger!vars) PROVE FinalStep
  OBVIOUS
<1> USE DEF FinalStep, Ledger!SetRows
<1>0. ticket \in [Tickets -> Rows] /\ orders \in Seq([user : Users, items : SUBSET Tickets])
  BY DEF ControlInv, TypeOK
<1>1. CASE UNCHANGED Ledger!vars
  BY <1>0, <1>1 DEF Ledger!vars
<1>2. ASSUME NEW u \in Users, NEW t \in Tickets, NEW e \in 0 .. MaxTime + LockTTL, Ledger!Reserve(u, t, e)
      PROVE  FinalStep
  BY <1>0, <1>2 DEF Ledger!Reserve, Ledger!LockedRow, Ledger!AvailableRow
<1>3. ASSUME NEW u \in Users, NEW S \in (SUBSET Tickets) \ {{}}, Ledger!Buy(u, S) PROVE FinalStep
  <2> DEFINE n == Len(orders) + 1
             o == [user |-> u, items |-> S]
  <2>1. orders' = Append(orders, o) /\ n \in DOMAIN orders' /\ n \notin DOMAIN orders
    BY <1>0, <1>3 DEF Ledger!Buy
  <2>2. orders'[n] = o /\ \A i \in DOMAIN orders : i \in DOMAIN orders' /\ orders'[i] = orders[i]
    BY <1>0, <2>1
  <2>3. \A t \in S : ticket[t].status = "locked" /\ ticket[t].by = u
    BY <1>3 DEF Ledger!Buy, Ledger!HeldBy
  <2>4. \A t \in Tickets \ S : ticket'[t] = ticket[t]
    BY <1>3 DEF Ledger!Buy
  <2> QED  BY <2>1, <2>2, <2>3, <2>4 DEF SoldToHolder
<1>4. ASSUME NEW u \in Users, NEW t \in Tickets, Ledger!Cancel(u, t) PROVE FinalStep
  BY <1>0, <1>4 DEF Ledger!Cancel, Ledger!HeldBy, Ledger!AvailableRow
<1>5. ASSUME NEW S \in SUBSET Tickets, Ledger!Expire(S) PROVE FinalStep
  BY <1>0, <1>5 DEF Ledger!Expire, Ledger!AvailableRow
<1>6. CASE Ledger!Tick
  BY <1>0, <1>6 DEF Ledger!Tick
<1> QED  BY <1>1, <1>2, <1>3, <1>4, <1>5, <1>6 DEF Ledger!Next

(* No failure, deadlock or late reaper undoes a sale or sells a ticket past  *)
(* its holder: the service inherits it from the ledger.                      *)
THEOREM SalesNeverUndone == Spec => SalesAreFinal
BY LedgerStep, LedgerFinal, ControlInvariant, PTL DEF Spec, SalesAreFinal
=============================================================================
