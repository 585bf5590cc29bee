------------------------ MODULE PurchaseLimitsProofs ------------------------
(***************************************************************************)
(* How many reservations of one tier a user can hold, for every number of  *)
(* users, tickets, tiers and clock ticks, and any finite number of         *)
(* handlers.                                                               *)
(***************************************************************************)
EXTENDS PurchaseProofs, FiniteSetTheorems

(* A user's reservations that are at the instant which is their              *)
(* locked_until, and the handlers about to commit such a one.                *)
EdgeLocks(u, k) ==
    {t \in Tickets : /\ TierOf[t] = k /\ ticket[t].status = "locked" /\ ticket[t].by = u
                     /\ ticket[t].until = now}
EdgeRacers(u, k) ==
    {r \in Requests : /\ Racing(r, u, k)
                      /\ req[r].pc = "lock_commit" /\ req[r].until = now}

(* S reservations and R handlers that will each add one at most. *)
Counted(S, R) == IsFiniteSet(S) /\ Cardinality(S) + Cardinality(R) <= Cardinality(Requests)

(* The rows a lock request looks at are of its tier. *)
TierKept ==
    \A r \in Requests : req[r].pc \in GrabPCs =>
       \A t \in req[r].rows : TierOf[t] = req[r].tier

LiveCounted == \A u \in Users, k \in Tiers : Counted(LiveLocks(u, k), Racers(u, k))
EdgeCounted == \A u \in Users, k \in Tiers : Counted(EdgeLocks(u, k), EdgeRacers(u, k))

LimitInv == ControlInv /\ TierKept /\ LiveCounted

-----------------------------------------------------------------------------
(* Counting *)

LEMMA HandlersFinite ==
    ASSUME NEW R \in SUBSET Requests
    PROVE  IsFiniteSet(R) /\ Cardinality(R) \in Nat /\ Cardinality(R) <= Cardinality(Requests)
BY RequestsAssumption, FS_Subset, FS_CardinalityType

LEMMA NoneCounted == ASSUME NEW R \in SUBSET Requests PROVE Counted({}, R)
<1>1. IsFiniteSet({}) /\ Cardinality({}) = 0
  BY FS_EmptySet
<1> QED  BY <1>1, HandlersFinite DEF Counted

LEMMA FewerCounted ==
    ASSUME NEW S, NEW R \in SUBSET Requests, NEW S2 \in SUBSET S, NEW R2 \in SUBSET R, Counted(S, R)
    PROVE  Counted(S2, R2)
<1>1. IsFiniteSet(S2) /\ Cardinality(S2) \in Nat /\ Cardinality(S) \in Nat /\ Cardinality(S2) <= Cardinality(S)
  BY FS_Subset, FS_CardinalityType DEF Counted
<1>2. Cardinality(R2) \in Nat /\ Cardinality(R) \in Nat /\ Cardinality(R2) <= Cardinality(R)
  BY HandlersFinite, FS_Subset
<1>3. Cardinality(Requests) \in Nat
  BY HandlersFinite
<1> QED  BY <1>1, <1>2, <1>3 DEF Counted

(* A handler turns into a reservation. *)
LEMMA CommitCounted ==
    ASSUME NEW S, NEW R \in SUBSET Requests, NEW t, NEW r \in R,
           NEW S2 \in SUBSET (S \cup {t}), NEW R2 \in SUBSET (R \ {r}), Counted(S, R)
    PROVE  Counted(S2, R2)
<1>1. IsFiniteSet(S) /\ Cardinality(S) \in Nat
  BY FS_CardinalityType DEF Counted
<1>2. /\ IsFiniteSet(S \cup {t})
      /\ Cardinality(S \cup {t}) = IF t \in S THEN Cardinality(S) ELSE Cardinality(S) + 1
  BY <1>1, FS_AddElement, Zenon
<1>3. Cardinality(S \cup {t}) \in Nat /\ Cardinality(S \cup {t}) <= Cardinality(S) + 1
  BY <1>1, <1>2
<1>4. IsFiniteSet(R) /\ Cardinality(R) \in Nat
  BY HandlersFinite
<1>5. /\ IsFiniteSet(R \ {r})
      /\ Cardinality(R \ {r}) = IF r \in R THEN Cardinality(R) - 1 ELSE Cardinality(R)
  BY <1>4, FS_RemoveElement, Zenon
<1>6. Cardinality(R \ {r}) = Cardinality(R) - 1
  BY <1>5
<1>7. Counted(S \cup {t}, R \ {r})
  BY <1>1, <1>2, <1>3, <1>4, <1>6, HandlersFinite DEF Counted
<1> QED  BY <1>7, FewerCounted

-----------------------------------------------------------------------------
(* What a step does to handlers and to reservations                          *)

LEMMA OthersKept ==
    ASSUME ControlInv, NEW r \in Requests, NEW q \in Requests, q # r,
           \/ LockTicket(r) \/ CreateOrder(r) \/ ReleaseLock(r)
           \/ FailRequest(r) \/ DeadlockVictim(r)
    PROVE  req'[q] = req[q]
BY NoneAssumption
   DEF ControlInv, TypeOK, LockTicket, CreateOrder, ReleaseLock, FailRequest, DeadlockVictim, StartLock,
       CheckExisting, RejectSecondLock, ScanAvailable, GrabTicket, DropTicket, VisitRow, SkipTicket,
       RejectSoldOut, StampLock, CommitLock, StartOrder, LockRow, ValidateOrder, RejectOrder, CommitOrder,
       StartRelease, CommitRelease, RejectRelease, Rollback, End, Goto

(* The steps of lock_ticket that leave it between its check and its commit.  *)
RaceStep(q) ==
    \/ CheckExisting(q) \/ ScanAvailable(q) \/ StampLock(q)
    \/ \E t \in Tickets : GrabTicket(q, t) \/ DropTicket(q, t) \/ SkipTicket(q, t)

LEMMA OwnSteps ==
    ASSUME ControlInv, NEW q \in Requests,
           \/ LockTicket(q) \/ CreateOrder(q) \/ ReleaseLock(q)
           \/ FailRequest(q) \/ DeadlockVictim(q)
    PROVE  RaceStep(q) \/ req'[q].pc \notin RacePCs
<1> USE DEF ControlInv, TypeOK, RacePCs, GrabPCs
<1>1. CASE End(q)
  BY <1>1 DEF End, IdleReq
<1>2. CASE ValidateOrder(q)
  BY <1>2 DEF ValidateOrder, Goto, Handlers
<1>3. CASE LockRow(q)
  BY <1>3 DEF LockRow, RowOf, Handlers
<1>4. ASSUME NEW u \in Users,
             \/ \E k \in Tiers : StartLock(q, u, k)
             \/ \E ids \in Payloads : StartOrder(q, u, ids)
             \/ \E t \in Tickets : StartRelease(q, u, t)
      PROVE  req'[q].pc \notin RacePCs
  <2>1. ASSUME NEW k \in Tiers, StartLock(q, u, k) PROVE req'[q].pc = "lock_check"
    BY <2>1 DEF StartLock, IdleReq
  <2>2. ASSUME NEW ids \in Payloads, StartOrder(q, u, ids) PROVE req'[q].pc = "order_rows"
    BY <2>2 DEF StartOrder, IdleReq
  <2>3. ASSUME NEW t \in Tickets, StartRelease(q, u, t) PROVE req'[q].pc = "release_row"
    BY <2>3 DEF StartRelease, IdleReq
  <2> QED
    BY <1>4, <2>1, <2>2, <2>3
<1>5. CASE FailRequest(q) \/ DeadlockVictim(q)
  BY <1>1, <1>5 DEF FailRequest, DeadlockVictim, Rollback
<1>6. CASE LockTicket(q)
  <2>1. CASE RejectSecondLock(q) \/ RejectSoldOut(q) \/ CommitLock(q)
    BY <1>1, <2>1 DEF RejectSecondLock, RejectSoldOut, CommitLock, Rollback
  <2> QED
    BY <1>4, <1>6, <2>1 DEF LockTicket, RaceStep
<1>7. CASE CreateOrder(q)
  BY <1>1, <1>2, <1>3, <1>4, <1>7 DEF CreateOrder, RejectOrder, CommitOrder, Rollback
<1>8. CASE ReleaseLock(q)
  BY <1>1, <1>3, <1>4, <1>8 DEF ReleaseLock, CommitRelease, RejectRelease, Rollback
<1> QED
  BY <1>5, <1>6, <1>7, <1>8

LEMMA HandlerSteps ==
    ASSUME ControlInv, [Next]_vars, NEW q \in Requests
    PROVE  req'[q] = req[q] \/ RaceStep(q) \/ req'[q].pc \notin RacePCs
<1>1. CASE \/ ReapStart \/ ReapScan \/ ReapRow \/ ReapCommit \/ ReapFail \/ ReaperVictim
           \/ Tick \/ UNCHANGED vars
  BY <1>1 DEF ReapStart, ReapScan, ReapRow, ReapCommit, ReapFail, ReaperVictim, Tick, vars
<1>2. CASE Crash
  BY <1>2 DEF Crash, IdleReq, RacePCs, GrabPCs
<1>3. ASSUME NEW r \in Requests,
             \/ LockTicket(r) \/ CreateOrder(r) \/ ReleaseLock(r)
             \/ FailRequest(r) \/ DeadlockVictim(r)
      PROVE  req'[q] = req[q] \/ RaceStep(q) \/ req'[q].pc \notin RacePCs
  BY <1>3, OthersKept, OwnSteps
<1> QED  BY <1>1, <1>2, <1>3 DEF Next, ReapExpiredLocks

LEMMA RaceStepKeeps ==
    ASSUME ControlInv, NEW q \in Requests, RaceStep(q)
    PROVE  /\ req'[q].user = req[q].user /\ req'[q].tier = req[q].tier
           /\ UNCHANGED <<ticket, now>>
           /\ CheckExisting(q) \/ req[q].pc \in RacePCs
           /\ req'[q].pc = "lock_commit" => req'[q].until = now + LockTTL
<1> USE DEF ControlInv, TypeOK, RacePCs, GrabPCs, Handlers
<1>1. CASE CheckExisting(q)
  BY <1>1 DEF CheckExisting, Goto
<1>2. CASE ScanAvailable(q)
  BY <1>2 DEF ScanAvailable
<1>3. CASE StampLock(q)
  BY <1>3 DEF StampLock
<1>4. ASSUME NEW t \in Tickets, GrabTicket(q, t)
      PROVE  /\ req'[q].user = req[q].user /\ req'[q].tier = req[q].tier
             /\ UNCHANGED <<ticket, now>> /\ req[q].pc = "lock_grab" /\ req'[q].pc = "lock_stamp"
  BY <1>4 DEF GrabTicket, VisitRow
<1>5. ASSUME NEW t \in Tickets, DropTicket(q, t) \/ SkipTicket(q, t)
      PROVE  /\ req'[q].user = req[q].user /\ req'[q].tier = req[q].tier
             /\ UNCHANGED <<ticket, now>> /\ req[q].pc = "lock_grab" /\ req'[q].pc = "lock_grab"
  BY <1>5 DEF DropTicket, VisitRow, SkipTicket
<1> QED  BY <1>1, <1>2, <1>3, <1>4, <1>5 DEF RaceStep

LEMMA TierStep == ControlInv /\ TierKept /\ [Next]_vars => TierKept'
<1> SUFFICES ASSUME ControlInv, TierKept, [Next]_vars,
                    NEW q \in Requests, req'[q].pc \in GrabPCs,
                    NEW t \in req'[q].rows
             PROVE  TierOf[t] = req'[q].tier
  BY DEF TierKept
<1> USE DEF ControlInv, TypeOK, Handlers, GrabPCs
<1>1. CASE req'[q] = req[q]
  BY <1>1 DEF TierKept
<1>2. CASE ScanAvailable(q)
  BY <1>2 DEF ScanAvailable
<1>3. ASSUME NEW x \in Tickets, GrabTicket(q, x) PROVE TierOf[t] = req'[q].tier
  BY <1>3 DEF GrabTicket, VisitRow, TierKept
<1>4. ASSUME NEW x \in Tickets, DropTicket(q, x) \/ SkipTicket(q, x) PROVE TierOf[t] = req'[q].tier
  BY <1>4 DEF DropTicket, VisitRow, SkipTicket, TierKept
<1>5. CASE StampLock(q)
  BY <1>5 DEF StampLock, TierKept
<1>6. CASE CheckExisting(q)
  BY <1>6 DEF CheckExisting, Goto
<1> QED  BY <1>1, <1>2, <1>3, <1>4, <1>5, <1>6, HandlerSteps DEF RaceStep, RacePCs, GrabPCs

(* A handler starts to race by passing the check, and that is the only step  *)
(* it takes; its locked_until is stamped ahead of the clock.                 *)
LEMMA RacerStep ==
    ASSUME ControlInv, [Next]_vars, NEW u \in Users, NEW k \in Tiers, NEW q \in Requests
    PROVE  /\ q \in Racers(u, k)' => q \in Racers(u, k) \/ (CheckExisting(q) /\ Racing(q, u, k))
           /\ q \in EdgeRacers(u, k)' /\ UNCHANGED now /\ LockTTL > 0 => q \in EdgeRacers(u, k)
<1> USE DEF Racers, EdgeRacers, Racing, RacePCs, GrabPCs
<1>1. now \in Nat /\ LockTTL \in Nat
  BY BoundsAssumption DEF ControlInv, TypeOK
<1>2. CASE req'[q] = req[q]
  BY <1>2
<1>3. CASE req'[q].pc \notin RacePCs
  BY <1>3
<1>4. CASE RaceStep(q)
  BY <1>1, <1>4, RaceStepKeeps
<1> QED  BY <1>2, <1>3, <1>4, HandlerSteps

(* A row becomes a reservation by the commit of a lock, and by nothing else. *)
LEMMA LockedStep ==
    ASSUME ControlInv, [Next]_vars, NEW t \in Tickets, ticket'[t].status = "locked"
    PROVE  \/ ticket'[t] = ticket[t]
           \/ \E r \in Requests :
                 /\ CommitLock(r) /\ t \in req[r].rows
                 /\ ticket'[t] = LockedRow(req[r].user, req[r].until) /\ UNCHANGED now
<1>1. CASE UNCHANGED ticket
  BY <1>1
<1>2. ASSUME NEW r \in Requests, CommitLock(r)
      PROVE  \/ ticket'[t] = ticket[t]
             \/ /\ CommitLock(r) /\ t \in req[r].rows
                /\ ticket'[t] = LockedRow(req[r].user, req[r].until) /\ UNCHANGED now
  BY <1>2 DEF CommitLock, Written
<1>3. ASSUME NEW r \in Requests, CommitOrder(r) \/ CommitRelease(r) PROVE ticket'[t] = ticket[t]
  BY <1>3 DEF CommitOrder, CommitRelease, Written, SoldRow, AvailableRow
<1>4. CASE ReapCommit
  BY <1>4 DEF ReapCommit, Written, AvailableRow
<1> QED  BY <1>1, <1>2, <1>3, <1>4, Writes DEF vars, Tick

LEMMA ClockStep ==
    ASSUME ControlInv, [Next]_vars
    PROVE  /\ now \in Nat
           /\ now' = now \/ (now' = now + 1 /\ UNCHANGED <<ticket, req>>)
<1>1. now \in Nat
  BY BoundsAssumption DEF ControlInv, TypeOK
<1>2. ASSUME NEW r \in Requests, CommitLock(r) \/ CommitOrder(r) \/ CommitRelease(r)
      PROVE  now' = now
  BY <1>2 DEF CommitLock, CommitOrder, CommitRelease
<1> QED  BY <1>1, <1>2, Writes DEF vars, Tick, ReapCommit

(* The user of a committing lock is one that races in the tier of the row.   *)
LEMMA CommitsRacing ==
    ASSUME ControlInv, TierKept, NEW u \in Users, NEW k \in Tiers,
           NEW r \in Requests, CommitLock(r), NEW t \in req[r].rows, TierOf[t] = k,
           LockedRow(req[r].user, req[r].until).by = u
    PROVE  r \in Racers(u, k) /\ req[r].rows = {t}
<1>1. req[r].rows = {t}
  BY CommitLockFacts
<1> QED  BY <1>1 DEF Racers, Racing, RacePCs, GrabPCs, TierKept, CommitLock, LockedRow

LEMMA CommitIdles ==
    ASSUME ControlInv, NEW r \in Requests, CommitLock(r)
    PROVE  \A u \in Users, k \in Tiers : r \notin Racers(u, k)' /\ r \notin EdgeRacers(u, k)'
BY DEF ControlInv, TypeOK, CommitLock, End, IdleReq, Racers, EdgeRacers, RacePCs, GrabPCs

LEMMA LiveStep ==
    ASSUME LimitInv, [Next]_vars, NEW u \in Users, NEW k \in Tiers
    PROVE  Counted(LiveLocks(u, k), Racers(u, k))'
<1> DEFINE L == LiveLocks(u, k)  R == Racers(u, k)
<1>1. R \in SUBSET Requests /\ R' \in SUBSET Requests /\ Counted(L, R)
  BY DEF LimitInv, LiveCounted, Racers
<1>2. ControlInv /\ TierKept
  BY DEF LimitInv
<1>3. ASSUME NEW t \in L', ticket'[t] = ticket[t] PROVE t \in L
  <2>1. ticket[t].until \in Nat /\ now \in Nat /\ now <= now' /\ now' \in Nat
    BY <1>2, <1>3, ClockStep, NoneAssumption DEF LiveLocks, LiveLock, ControlInv, TypeOK, Rows
  <2> QED  BY <1>3, <2>1 DEF LiveLocks, LiveLock
<1>4. ASSUME NEW t \in L', ticket'[t] # ticket[t]
      PROVE  \E r \in R : CommitLock(r) /\ req[r].rows = {t}
  <2>1. t \in Tickets /\ TierOf[t] = k /\ ticket'[t].status = "locked" /\ ticket'[t].by = u
    BY DEF LiveLocks, LiveLock
  <2>2. PICK r \in Requests : /\ CommitLock(r) /\ t \in req[r].rows
                              /\ ticket'[t] = LockedRow(req[r].user, req[r].until)
    BY <1>2, <1>4, <2>1, LockedStep
  <2> QED  BY <1>2, <2>1, <2>2, CommitsRacing
<1>5. ASSUME NEW q \in R', q \notin R PROVE CheckExisting(q) /\ Racing(q, u, k)
  BY <1>1, <1>2, <1>5, RacerStep
<1>6. CASE \E q \in Requests : CheckExisting(q) /\ Racing(q, u, k)
  <2>1. UNCHANGED <<ticket, now>> /\ L = {}
    BY <1>6 DEF CheckExisting, HasLiveLock, Racing, LiveLocks
  <2>2. L' = {}
    BY <2>1 DEF LiveLocks, LiveLock
  <2> QED  BY <1>1, <2>2, NoneCounted DEF Counted
<1>7. CASE /\ ~\E q \in Requests : CheckExisting(q) /\ Racing(q, u, k)
           /\ \E r \in R : CommitLock(r)
  <2>1. PICK r \in R : CommitLock(r)
    BY <1>7
  <2>2. PICK x \in Tickets : req[r].rows = {x}
    BY <1>1, <1>2, <2>1, CommitLockFacts
  <2>3. \A t \in L' : t \in L \/ t = x
    <3> SUFFICES ASSUME NEW t \in L', ticket'[t] # ticket[t] PROVE t = x
      BY <1>3
    <3>1. t \in req[r].rows
      BY <1>1, <2>1 DEF CommitLock, Written, LiveLocks
    <3> QED  BY <3>1, <2>2
  <2>4. R' \subseteq R \ {r}
    BY <1>1, <1>2, <1>5, <1>7, <2>1, CommitIdles
  <2> HIDE DEF L, R
  <2>5. Counted(L', R')
    BY <1>1, <2>3, <2>4, CommitCounted
  <2> QED  BY <2>5 DEF Counted, L, R
<1>8. CASE /\ ~\E q \in Requests : CheckExisting(q) /\ Racing(q, u, k)
           /\ ~\E r \in R : CommitLock(r)
  <2>1. L' \subseteq L /\ R' \subseteq R
    BY <1>1, <1>3, <1>4, <1>5, <1>8
  <2> HIDE DEF L, R
  <2>2. Counted(L', R')
    BY <1>1, <2>1, FewerCounted
  <2> QED  BY <2>2 DEF Counted, L, R
<1> QED  BY <1>6, <1>7, <1>8

LEMMA NextLimit == LimitInv /\ [Next]_vars => LimitInv'
<1> SUFFICES ASSUME LimitInv, [Next]_vars PROVE LimitInv'
  OBVIOUS
<1>1. ControlInv' /\ TierKept'
  BY NextControl, TierStep DEF LimitInv
<1>2. LiveCounted'
  BY LiveStep DEF LiveCounted, Tiers
<1> QED  BY <1>1, <1>2 DEF LimitInv

LEMMA InitLimit == Init => LimitInv /\ EdgeCounted
<1> SUFFICES ASSUME Init PROVE LimitInv /\ EdgeCounted
  OBVIOUS
<1>1. TierKept
  BY DEF Init, IdleReq, TierKept
<1>2. ASSUME NEW u \in Users, NEW k \in Tiers
      PROVE  Counted(LiveLocks(u, k), Racers(u, k)) /\ Counted(EdgeLocks(u, k), EdgeRacers(u, k))
  <2>1. LiveLocks(u, k) = {} /\ EdgeLocks(u, k) = {}
    BY DEF Init, LiveLocks, LiveLock, EdgeLocks, AvailableRow
  <2>2. Racers(u, k) \in SUBSET Requests /\ EdgeRacers(u, k) \in SUBSET Requests
    BY DEF Racers, EdgeRacers
  <2> QED  BY <2>1, <2>2, NoneCounted
<1> QED  BY <1>1, <1>2, InitControl DEF LimitInv, LiveCounted, EdgeCounted

(* The check of an existing lock that lock_ticket makes without a row lock   *)
(* admits a user to no more live reservations in a tier than there are       *)
(* handlers to race through it, those that still race included.              *)
THEOREM LiveLocksLimited == Spec => []LiveLocksBounded
<1>1. LimitInv => LiveLocksBounded
  <2> SUFFICES ASSUME LimitInv, NEW u \in Users, NEW k \in Tiers
               PROVE  Cardinality(LiveLocks(u, k)) + Cardinality(Racers(u, k)) <= Cardinality(Requests)
    BY DEF LiveLocksBounded
  <2> QED  BY DEF LimitInv, LiveCounted, Counted
<1> QED  BY <1>1, InitLimit, NextLimit, PTL DEF Spec

(* Where requests do not overlap, the check is enough: a user has one live   *)
(* reservation in a tier, as the tests say.                                  *)
THEOREM OneLockBySingleHandler ==
    ASSUME Cardinality(Requests) = 1
    PROVE  Spec => []OneLiveLockPerTier
<1>1. LimitInv /\ LiveLocksBounded => OneLiveLockPerTier
  <2> SUFFICES ASSUME LimitInv, LiveLocksBounded, NEW u \in Users, NEW t1 \in Tickets, NEW t2 \in Tickets,
                      LiveLock(t1, u), LiveLock(t2, u), TierOf[t1] = TierOf[t2], t1 # t2
               PROVE  FALSE
    BY DEF OneLiveLockPerTier
  <2> DEFINE k == TierOf[t1]
  <2>1. k \in Tiers /\ {t1, t2} \subseteq LiveLocks(u, k)
    BY DEF Tiers, LiveLocks
  <2>2. IsFiniteSet(LiveLocks(u, k)) /\ Cardinality(LiveLocks(u, k)) <= 1
    <3>1. /\ IsFiniteSet(LiveLocks(u, k))
          /\ Cardinality(LiveLocks(u, k)) + Cardinality(Racers(u, k)) <= 1
      BY <2>1 DEF LimitInv, LiveCounted, Counted, LiveLocksBounded
    <3>2. Racers(u, k) \in SUBSET Requests
      BY DEF Racers
    <3>3. Cardinality(Racers(u, k)) \in Nat /\ Cardinality(LiveLocks(u, k)) \in Nat
      BY <3>1, <3>2, HandlersFinite, FS_CardinalityType
    <3> QED  BY <3>1, <3>3
  <2>3. Cardinality({t1, t2}) <= Cardinality(LiveLocks(u, k)) /\ Cardinality(LiveLocks(u, k)) \in Nat
    BY <2>1, <2>2, FS_Subset, FS_CardinalityType
  <2>4. Cardinality({t1, t2}) = 2
    <3>1. IsFiniteSet({t1}) /\ Cardinality({t1}) = 1
      BY FS_Singleton
    <3>2. Cardinality({t1} \cup {t2}) = Cardinality({t1}) + 1
      BY <3>1, FS_AddElement
    <3>3. {t1} \cup {t2} = {t1, t2}
      OBVIOUS
    <3> QED  BY <3>1, <3>2, <3>3
  <2> QED  BY <2>2, <2>3, <2>4
<1>2. Spec => []LimitInv
  BY InitLimit, NextLimit, PTL DEF Spec
<1> QED  BY <1>1, <1>2, LiveLocksLimited, PTL

-----------------------------------------------------------------------------
(* The instant at which a reservation is neither live nor expired            *)

LEMMA EdgeStep ==
    ASSUME LockTTL > 0, LimitInv, EdgeCounted, [Next]_vars, NEW u \in Users, NEW k \in Tiers
    PROVE  Counted(EdgeLocks(u, k), EdgeRacers(u, k))'
<1> DEFINE E == EdgeLocks(u, k)  F == EdgeRacers(u, k)  L == LiveLocks(u, k)  R == Racers(u, k)
<1>1. /\ F \in SUBSET Requests /\ F' \in SUBSET Requests /\ R \in SUBSET Requests
      /\ Counted(E, F) /\ Counted(L, R)
  BY DEF LimitInv, LiveCounted, EdgeCounted, Racers, EdgeRacers
<1>2. ControlInv /\ TierKept
  BY DEF LimitInv
<1>3. CASE now' = now + 1 /\ UNCHANGED <<ticket, req>>
  <2>1. now \in Nat
    BY <1>2, ClockStep
  <2>2. E' \subseteq L
    BY <1>3, <2>1, NoneAssumption DEF EdgeLocks, LiveLocks, LiveLock
  <2>3. F' \subseteq R
    BY <1>3 DEF EdgeRacers, Racers, Racing, RacePCs, GrabPCs
  <2> HIDE DEF E, F, L, R
  <2>4. Counted(E', F')
    BY <1>1, <2>2, <2>3, FewerCounted
  <2> QED  BY <2>4 DEF Counted, E, F
<1>4. ASSUME UNCHANGED now, NEW t \in E', ticket'[t] = ticket[t] PROVE t \in E
  BY <1>4 DEF EdgeLocks
<1>5. ASSUME UNCHANGED now, NEW t \in E', ticket'[t] # ticket[t]
      PROVE  \E r \in F : CommitLock(r) /\ req[r].rows = {t}
  <2>1. t \in Tickets /\ TierOf[t] = k /\ ticket'[t].status = "locked" /\ ticket'[t].by = u
        /\ ticket'[t].until = now
    BY <1>5 DEF EdgeLocks
  <2>2. PICK r \in Requests : /\ CommitLock(r) /\ t \in req[r].rows
                              /\ ticket'[t] = LockedRow(req[r].user, req[r].until)
    BY <1>2, <1>5, <2>1, LockedStep
  <2>3. r \in R /\ req[r].rows = {t}
    BY <1>2, <2>1, <2>2, CommitsRacing
  <2>4. req[r].until = now
    BY <2>1, <2>2 DEF LockedRow
  <2>5. r \in F
    BY <2>2, <2>3, <2>4 DEF EdgeRacers, Racers, CommitLock
  <2> QED  BY <2>2, <2>3, <2>5
<1>6. ASSUME UNCHANGED now, NEW q \in F' PROVE q \in F
  BY <1>1, <1>2, <1>6, RacerStep
<1>7. CASE UNCHANGED now /\ \E r \in F : CommitLock(r)
  <2>1. PICK r \in F : CommitLock(r)
    BY <1>7
  <2>2. PICK x \in Tickets : req[r].rows = {x}
    BY <1>1, <1>2, <2>1, CommitLockFacts
  <2>3. \A t \in E' : t \in E \/ t = x
    <3> SUFFICES ASSUME NEW t \in E', ticket'[t] # ticket[t] PROVE t = x
      BY <1>4, <1>7
    <3>1. t \in req[r].rows
      BY <1>1, <2>1 DEF CommitLock, Written, EdgeLocks
    <3> QED  BY <3>1, <2>2
  <2>4. F' \subseteq F \ {r}
    BY <1>1, <1>2, <1>6, <1>7, <2>1, CommitIdles
  <2> HIDE DEF E, F
  <2>5. Counted(E', F')
    BY <1>1, <2>3, <2>4, CommitCounted
  <2> QED  BY <2>5 DEF Counted, E, F
<1>8. CASE UNCHANGED now /\ ~\E r \in F : CommitLock(r)
  <2>1. E' \subseteq E /\ F' \subseteq F
    BY <1>4, <1>5, <1>6, <1>8
  <2> HIDE DEF E, F
  <2>2. Counted(E', F')
    BY <1>1, <2>1, FewerCounted
  <2> QED  BY <2>2 DEF Counted, E, F
<1> QED  BY <1>2, <1>3, <1>7, <1>8, ClockStep

(* With a positive lock time, the reservations create_order would sell a     *)
(* user in a tier are of two generations at most, the live ones and those at *)
(* the instant of their locked_until.                                        *)
THEOREM BuyableLimited == ASSUME LockTTL > 0 PROVE Spec => []BuyableBounded
<1>1. LimitInv /\ EdgeCounted /\ [Next]_vars => EdgeCounted'
  BY EdgeStep DEF EdgeCounted, Tiers
<1>2. LimitInv /\ EdgeCounted => BuyableBounded
  <2> SUFFICES ASSUME LimitInv, EdgeCounted, NEW u \in Users, NEW k \in Tiers
               PROVE  Cardinality(BuyableLocks(u, k)) <= 2 * Cardinality(Requests)
    BY DEF BuyableBounded
  <2> DEFINE E == EdgeLocks(u, k)  L == LiveLocks(u, k)  B == BuyableLocks(u, k)
             N == Cardinality(Requests)
  <2>1. /\ Counted(L, Racers(u, k)) /\ Counted(E, EdgeRacers(u, k))
        /\ Racers(u, k) \in SUBSET Requests /\ EdgeRacers(u, k) \in SUBSET Requests
    BY DEF LimitInv, LiveCounted, EdgeCounted, Racers, EdgeRacers
  <2>2. B \subseteq L \cup E
    <3> SUFFICES ASSUME NEW t \in B PROVE t \in L \cup E
      OBVIOUS
    <3>1. /\ t \in Tickets /\ ticket[t].status = "locked" /\ ticket[t].by = u /\ TierOf[t] = k
          /\ ~Expired(ticket[t], now)
      BY DEF BuyableLocks
    <3>2. ticket[t].until \in Nat /\ ticket[t].until # None
      BY <3>1, NoneAssumption DEF LimitInv, ControlInv, TypeOK, Rows
    <3>3. now \in Nat
      BY BoundsAssumption DEF LimitInv, ControlInv, TypeOK
    <3>4. ticket[t].until > now \/ ticket[t].until = now
      BY <3>1, <3>2, <3>3 DEF Expired
    <3> QED  BY <3>1, <3>2, <3>4 DEF LiveLocks, LiveLock, EdgeLocks
  <2> HIDE DEF E, L, B
  <2>3. /\ IsFiniteSet(L) /\ IsFiniteSet(E)
        /\ Cardinality(L) \in Nat /\ Cardinality(E) \in Nat /\ N \in Nat
        /\ Cardinality(L) <= N /\ Cardinality(E) <= N
    BY <2>1, HandlersFinite, FS_CardinalityType DEF Counted
  <2>4. /\ IsFiniteSet(L \cup E) /\ IsFiniteSet(L \cap E)
        /\ Cardinality(L \cup E) = Cardinality(L) + Cardinality(E) - Cardinality(L \cap E)
    BY <2>3, FS_Union, FS_Intersection
  <2>5. Cardinality(L \cap E) \in Nat
    BY <2>4, FS_CardinalityType
  <2>6. Cardinality(B) <= Cardinality(L \cup E) /\ Cardinality(B) \in Nat
    BY <2>2, <2>4, FS_Subset, FS_CardinalityType
  <2>7. Cardinality(B) <= 2 * N
    BY <2>3, <2>4, <2>5, <2>6
  <2> QED  BY <2>7 DEF B
<1> QED  BY <1>1, <1>2, InitLimit, NextLimit, PTL DEF Spec
=============================================================================
