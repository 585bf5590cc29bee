--------------------------- MODULE CatalogProofs ----------------------------
(***************************************************************************)
(* Proofs about Catalog for every number of handlers, rows and names: how  *)
(* far requests that race through an unlocked check can overrun it.        *)
(***************************************************************************)
EXTENDS Catalog, FiniteSums

(* What each program point of a handler knows of its input and of the rows   *)
(* it has found; rows are never deleted, so it stays true.                   *)
HandlerReady(r) ==
    /\ req[r].pc \in {"venue_insert", "tier_sum", "tier_insert"} => req[r].size \in Sizes
    /\ req[r].pc = "venue_insert" => req[r].name \in Names
    /\ req[r].pc = "event_insert" => req[r].venue \in VenueIds /\ venue[req[r].venue] # None
    /\ req[r].pc \in {"tier_sum", "tier_insert", "stock_check", "stock_insert"} =>
          req[r].event \in EventIds /\ event[req[r].event] # None
    /\ req[r].pc \in {"stock_check", "stock_insert"} => req[r].tiers \subseteq TiersOf(req[r].event)

HandlersReady == \A r \in Requests : HandlerReady(r)

TypeInv == TypeOK /\ HandlersReady

(* The handlers that have passed a check and not had its effect.             *)
StockRacers(t) == {r \in Requests : req[r].pc = "stock_insert" /\ t \in req[r].tiers}
NameRacers(n) == {r \in Requests : req[r].pc = "venue_insert" /\ req[r].name = n}
VenuesNamed(n) == {v \in VenueIds : venue[v] # None /\ venue[v].name = n}

(* Effects that are there and effects still under way add up to no more than *)
(* one for each handler.                                                     *)
StockBounded ==
    \A t \in TierIds : batches[t] + Cardinality(StockRacers(t)) <= Cardinality(Requests)

VenuesBounded ==
    \A n \in Names : /\ IsFiniteSet(VenuesNamed(n))
                     /\ Cardinality(VenuesNamed(n)) + Cardinality(NameRacers(n))
                        <= Cardinality(Requests)

-----------------------------------------------------------------------------
(* Types *)

LEMMA InitType == Init => TypeInv
BY DEF Init, TypeInv, TypeOK, HandlersReady, HandlerReady, IdleReq, Handlers

(* A step of one handler that inserts nothing.                               *)
LEMMA LocalType ==
    ASSUME TypeInv, NEW r \in Requests, NEW h \in Handlers,
           req' = [req EXCEPT ![r] = h],
           UNCHANGED <<venue, event, tier, batches>>,
           HandlerReady(r)'
    PROVE  TypeInv'
<1>1. TypeOK'
  BY DEF TypeInv, TypeOK
<1>2. ASSUME NEW q \in Requests, q # r PROVE HandlerReady(q)'
  BY <1>2 DEF TypeInv, TypeOK, HandlersReady, HandlerReady, TiersOf
<1> QED  BY <1>1, <1>2 DEF TypeInv, HandlersReady

LEMMA EndType ==
    ASSUME TypeInv, NEW r \in Requests, End(r), UNCHANGED <<venue, event, tier, batches>>
    PROVE  TypeInv'
<1>1. IdleReq \in Handlers
  BY DEF IdleReq, Handlers
<1>2. HandlerReady(r)'
  BY DEF TypeInv, TypeOK, End, HandlerReady, IdleReq
<1> QED  BY <1>1, <1>2, LocalType DEF End

(* A handler whose guards have been read.                                    *)
LEMMA CheckType ==
    ASSUME TypeInv, NEW r \in Requests,
           \/ \E n \in Names, c \in Sizes : CheckVenue(r, n, c)
           \/ \E v \in VenueIds : FindVenue(r, v)
           \/ \E e \in EventIds, n \in Sizes : FindEvent(r, e, n)
           \/ \E e \in EventIds : ReadTiers(r, e)
    PROVE  TypeInv'
<1> USE DEF IdleReq
<1>1. ASSUME NEW n \in Names, NEW c \in Sizes, CheckVenue(r, n, c) PROVE TypeInv'
  <2> DEFINE h == [IdleReq EXCEPT !.pc = "venue_insert", !.name = n, !.size = c]
  <2>1. h \in Handlers
    BY DEF Handlers
  <2>2. req' = [req EXCEPT ![r] = h]
    BY <1>1 DEF CheckVenue
  <2>3. HandlerReady(r)'
    BY <2>2 DEF TypeInv, TypeOK, HandlerReady
  <2> HIDE DEF h
  <2> QED  BY <1>1, <2>1, <2>2, <2>3, LocalType DEF CheckVenue
<1>2. ASSUME NEW v \in VenueIds, FindVenue(r, v) PROVE TypeInv'
  <2> DEFINE h == [IdleReq EXCEPT !.pc = "event_insert", !.venue = v]
  <2>1. h \in Handlers
    BY DEF Handlers
  <2>2. req' = [req EXCEPT ![r] = h]
    BY <1>2 DEF FindVenue
  <2>4. h.pc = "event_insert" /\ h.venue = v
    OBVIOUS
  <2>5. req'[r] = h /\ venue'[v] # None
    BY <1>2, <2>2 DEF TypeInv, TypeOK, FindVenue
  <2> HIDE DEF h
  <2>3. HandlerReady(r)'
    BY <2>4, <2>5 DEF HandlerReady
  <2> QED  BY <1>2, <2>1, <2>2, <2>3, LocalType DEF FindVenue
<1>3. ASSUME NEW e \in EventIds, NEW n \in Sizes, FindEvent(r, e, n) PROVE TypeInv'
  <2> DEFINE h == [IdleReq EXCEPT !.pc = "tier_sum", !.event = e, !.size = n]
  <2>1. h \in Handlers
    BY DEF Handlers
  <2>2. req' = [req EXCEPT ![r] = h]
    BY <1>3 DEF FindEvent
  <2>4. h.pc = "tier_sum" /\ h.event = e /\ h.size = n
    OBVIOUS
  <2>5. req'[r] = h /\ event'[e] # None
    BY <1>3, <2>2 DEF TypeInv, TypeOK, FindEvent
  <2> HIDE DEF h
  <2>3. HandlerReady(r)'
    BY <2>4, <2>5 DEF HandlerReady
  <2> QED  BY <1>3, <2>1, <2>2, <2>3, LocalType DEF FindEvent
<1>4. ASSUME NEW e \in EventIds, ReadTiers(r, e) PROVE TypeInv'
  <2> DEFINE h == [IdleReq EXCEPT !.pc = "stock_check", !.event = e, !.tiers = TiersOf(e)]
  <2>1. h \in Handlers
    BY DEF Handlers, TiersOf
  <2>2. req' = [req EXCEPT ![r] = h]
    BY <1>4 DEF ReadTiers
  <2>4. h.pc = "stock_check" /\ h.event = e /\ h.tiers = TiersOf(e)
    OBVIOUS
  <2>5. req'[r] = h
    BY <2>2 DEF TypeInv, TypeOK
  <2> HIDE DEF h
  <2>6. TiersOf(e)' = TiersOf(e) /\ event'[e] # None
    BY <1>4 DEF ReadTiers, TiersOf
  <2>3. HandlerReady(r)'
    BY <2>4, <2>5, <2>6 DEF HandlerReady, TiersOf
  <2> QED  BY <1>4, <2>1, <2>2, <2>3, LocalType DEF ReadTiers
<1> QED  BY <1>1, <1>2, <1>3, <1>4

LEMMA PassType ==
    ASSUME TypeInv, NEW r \in Requests, SumAllocated(r) \/ CheckStock(r)
    PROVE  TypeInv'
<1> PICK pc \in {"tier_insert", "stock_insert"} :
       /\ Goto(r, pc) /\ UNCHANGED <<venue, event, tier, batches>>
       /\ req[r].pc = IF pc = "tier_insert" THEN "tier_sum" ELSE "stock_check"
  BY DEF SumAllocated, CheckStock
<1> DEFINE h == [req[r] EXCEPT !.pc = pc]
<1>1. h \in Handlers
  BY DEF TypeInv, TypeOK, Handlers
<1>2. req' = [req EXCEPT ![r] = h] /\ req'[r] = h
  BY DEF Goto, TypeInv, TypeOK
<1>3. /\ h.pc = pc /\ h.name = req[r].name /\ h.size = req[r].size /\ h.venue = req[r].venue
      /\ h.event = req[r].event /\ h.tiers = req[r].tiers
  BY DEF TypeInv, TypeOK, Handlers
<1> HIDE DEF h
<1>4. HandlerReady(r)'
  BY <1>2, <1>3 DEF TypeInv, HandlersReady, HandlerReady, TiersOf
<1> QED  BY <1>1, <1>2, <1>4, LocalType

LEMMA InsertType ==
    ASSUME TypeInv, NEW r \in Requests,
           \/ \E v \in VenueIds : InsertVenue(r, v)
           \/ \E e \in EventIds : InsertEvent(r, e)
           \/ \E t \in TierIds : InsertTier(r, t)
           \/ InsertTickets(r)
    PROVE  TypeInv'
<1> USE DEF TypeInv
<1>1. HandlerReady(r) /\ req \in [Requests -> Handlers]
  BY DEF HandlersReady, TypeOK
<1>2. IdleReq \in Handlers
  BY DEF IdleReq, Handlers
<1>3. req' \in [Requests -> Handlers] /\ req'[r] = IdleReq /\ \A q \in Requests \ {r} : req'[q] = req[q]
  BY <1>1, <1>2 DEF InsertVenue, InsertEvent, InsertTier, InsertTickets, End
<1>4. ASSUME NEW v \in VenueIds, InsertVenue(r, v) PROVE TypeInv'
  <2>1. venue[v] = None /\ venue' = [venue EXCEPT ![v] = [name |-> req[r].name, capacity |-> req[r].size]]
    BY <1>4 DEF InsertVenue, Fresh, TypeOK
  <2>2. [name |-> req[r].name, capacity |-> req[r].size] \in Venues
    BY <1>1, <1>4 DEF HandlerReady, InsertVenue, Venues
  <2>3. \A x \in VenueIds : venue[x] # None => venue'[x] # None
    BY <2>1 DEF TypeOK
  <2>4. UNCHANGED <<event, tier, batches>>
    BY <1>4 DEF InsertVenue
  <2>5. TypeOK'
    <3>1. venue' \in [VenueIds -> Venues \cup {None}]
      BY <2>1, <2>2 DEF TypeOK
    <3> HIDE <2>1
    <3> QED  BY <1>3, <2>3, <2>4, <3>1, IdsAssumption, NoneAssumption DEF TypeOK
  <2>6. ASSUME NEW q \in Requests PROVE HandlerReady(q)'
    BY <1>3, <2>3, <2>4 DEF HandlersReady, HandlerReady, IdleReq, TiersOf
  <2> QED  BY <2>5, <2>6 DEF HandlersReady
<1>5. ASSUME NEW e \in EventIds, InsertEvent(r, e) PROVE TypeInv'
  <2>1. event[e] = None /\ event' = [event EXCEPT ![e] = req[r].venue]
    BY <1>5 DEF InsertEvent, Fresh, TypeOK
  <2>2. req[r].venue \in VenueIds /\ venue[req[r].venue] # None
    BY <1>1, <1>5 DEF HandlerReady, InsertEvent
  <2>3. \A x \in EventIds : event[x] # None => event'[x] = event[x]
    BY <2>1 DEF TypeOK
  <2>4. UNCHANGED <<venue, tier, batches>>
    BY <1>5 DEF InsertEvent
  <2>5. TypeOK'
    <3>1. event' \in [EventIds -> VenueIds \cup {None}]
      BY <2>1, <2>2 DEF TypeOK
    <3>2. \A x \in EventIds : event'[x] # None => venue'[event'[x]] # None
      BY <2>1, <2>2, <2>4 DEF TypeOK
    <3>3. \A t \in TierIds : tier'[t] # None => event'[tier'[t].event] # None
      BY <2>3, <2>4 DEF TypeOK, TierRows
    <3> QED  BY <1>3, <2>4, <3>1, <3>2, <3>3 DEF TypeOK
  <2>6. ASSUME NEW q \in Requests PROVE HandlerReady(q)'
    BY <1>3, <2>3, <2>4 DEF HandlersReady, HandlerReady, IdleReq, TiersOf
  <2> QED  BY <2>5, <2>6 DEF HandlersReady
<1>6. ASSUME NEW t \in TierIds, InsertTier(r, t) PROVE TypeInv'
  <2> DEFINE row == [event |-> req[r].event, size |-> req[r].size]
  <2>1. tier[t] = None /\ tier' = [tier EXCEPT ![t] = row]
    BY <1>6 DEF InsertTier, Fresh, TypeOK
  <2>2. row \in TierRows /\ row.event = req[r].event /\ event[req[r].event] # None
    BY <1>1, <1>6 DEF HandlerReady, InsertTier, TierRows
  <2> HIDE DEF row
  <2>3. \A x \in TierIds : tier[x] # None => tier'[x] = tier[x]
    BY <2>1 DEF TypeOK
  <2>4. UNCHANGED <<venue, event, batches>>
    BY <1>6 DEF InsertTier
  <2>5. TypeOK'
    <3>1. tier' \in [TierIds -> TierRows \cup {None}]
      BY <2>1, <2>2 DEF TypeOK
    <3>2. \A x \in TierIds : tier'[x] # None => event'[tier'[x].event] # None
      BY <2>1, <2>2, <2>4 DEF TypeOK
    <3>3. \A x \in TierIds : batches'[x] > 0 => tier'[x] # None
      BY <2>3, <2>4 DEF TypeOK
    <3> QED  BY <1>3, <2>4, <3>1, <3>2, <3>3 DEF TypeOK
  <2>6. \A e \in EventIds : TiersOf(e) \subseteq TiersOf(e)'
    BY <2>3 DEF TiersOf
  <2>7. ASSUME NEW q \in Requests PROVE HandlerReady(q)'
    BY <1>3, <2>4, <2>6 DEF HandlersReady, HandlerReady, IdleReq
  <2> QED  BY <2>5, <2>7 DEF HandlersReady
<1>7. CASE InsertTickets(r)
  <2>1. req[r].tiers \subseteq TiersOf(req[r].event) /\ UNCHANGED <<venue, event, tier>>
    BY <1>1, <1>7 DEF HandlerReady, InsertTickets
  <2>2. batches' \in [TierIds -> Nat]
    BY <1>7 DEF InsertTickets, TypeOK
  <2>3. \A t \in TierIds : batches'[t] > 0 => tier[t] # None
    BY <1>7, <2>1 DEF InsertTickets, TypeOK, TiersOf
  <2>4. TypeOK'
    BY <1>3, <2>1, <2>2, <2>3 DEF TypeOK
  <2>5. ASSUME NEW q \in Requests PROVE HandlerReady(q)'
    BY <1>3, <2>1 DEF HandlersReady, HandlerReady, IdleReq, TiersOf
  <2> QED  BY <2>4, <2>5 DEF HandlersReady
<1> QED  BY <1>4, <1>5, <1>6, <1>7

LEMMA NextType == TypeInv /\ [Next]_vars => TypeInv'
<1> SUFFICES ASSUME TypeInv, [Next]_vars PROVE TypeInv'
  OBVIOUS
<1>1. CASE UNCHANGED vars
  BY <1>1 DEF vars, TypeInv, TypeOK, HandlersReady, HandlerReady, TiersOf
<1>2. ASSUME NEW r \in Requests, RejectTier(r) \/ RejectInventory(r) \/ FailRequest(r) PROVE TypeInv'
  BY <1>2, EndType DEF RejectTier, RejectInventory, FailRequest
<1> QED  BY <1>1, <1>2, CheckType, PassType, InsertType
         DEF Next, CreateVenue, CreateEvent, CreateTier, GenerateInventory

(* Rows refer to rows that exist, for any number of requests.                *)
THEOREM TypeCorrect == Spec => []TypeOK
<1>1. TypeInv => TypeOK
  BY DEF TypeInv
<1> QED  BY <1>1, InitType, NextType, PTL DEF Spec
-----------------------------------------------------------------------------
(* Racing requests *)

LEMMA RacersFinite ==
    ASSUME NEW S \in SUBSET Requests
    PROVE  IsFiniteSet(S) /\ Cardinality(S) \in Nat /\ Cardinality(S) <= Cardinality(Requests)
BY RequestsAssumption, FS_Subset, FS_CardinalityType

LEMMA FewerRacers ==
    ASSUME NEW S \in SUBSET Requests, NEW T \in SUBSET S
    PROVE  /\ Cardinality(T) <= Cardinality(S)
           /\ \A r \in S : r \notin T => Cardinality(T) + 1 <= Cardinality(S)
<1>1. IsFiniteSet(S) /\ IsFiniteSet(T) /\ Cardinality(S) \in Nat /\ Cardinality(T) \in Nat
  BY RacersFinite
<1>2. Cardinality(T) <= Cardinality(S) /\ (Cardinality(T) = Cardinality(S) => T = S)
  BY <1>1, FS_Subset
<1> QED  BY <1>1, <1>2

LEMMA OneMore ==
    ASSUME NEW S, IsFiniteSet(S), NEW x
    PROVE  /\ IsFiniteSet(S \cup {x}) /\ Cardinality(S \cup {x}) \in Nat
           /\ Cardinality(S \cup {x}) <= Cardinality(S) + 1
<1>1. Cardinality(S) \in Nat
  BY FS_CardinalityType
<1>2. /\ IsFiniteSet(S \cup {x})
      /\ Cardinality(S \cup {x}) = IF x \in S THEN Cardinality(S) ELSE Cardinality(S) + 1
  BY FS_AddElement, Zenon
<1> QED  BY <1>1, <1>2

(* A tier's tickets are generated at most once by each handler: a request    *)
(* that passes the check has found none of the event's tiers with tickets.   *)
LEMMA NextStock == TypeInv /\ StockBounded /\ [Next]_vars => StockBounded'
<1> SUFFICES ASSUME TypeInv, StockBounded, [Next]_vars, NEW t \in TierIds
             PROVE  batches'[t] + Cardinality(StockRacers(t)') <= Cardinality(Requests)
  BY DEF StockBounded
<1> USE DEF TypeInv
<1>1. /\ StockRacers(t) \in SUBSET Requests /\ StockRacers(t)' \in SUBSET Requests
      /\ batches[t] \in Nat /\ Cardinality(Requests) \in Nat
      /\ batches[t] + Cardinality(StockRacers(t)) <= Cardinality(Requests)
  BY RacersFinite DEF StockRacers, StockBounded, TypeOK
<1>2. Cardinality(StockRacers(t)) \in Nat /\ Cardinality(StockRacers(t)') \in Nat
  BY <1>1, RacersFinite
<1>3. ASSUME StockRacers(t)' \subseteq StockRacers(t), batches'[t] = batches[t]
      PROVE  batches'[t] + Cardinality(StockRacers(t)') <= Cardinality(Requests)
  BY <1>1, <1>2, <1>3, FewerRacers
<1>4. CASE UNCHANGED vars
  BY <1>3, <1>4 DEF vars, StockRacers
<1>5. ASSUME NEW r \in Requests, CheckStock(r)
      PROVE  batches'[t] + Cardinality(StockRacers(t)') <= Cardinality(Requests)
  <2>1. batches' = batches /\ req' = [req EXCEPT ![r].pc = "stock_insert"]
    BY <1>5 DEF CheckStock, Goto
  <2>2. CASE t \in req[r].tiers
    <3>1. t \in TiersOf(req[r].event)
      BY <1>5, <2>2 DEF CheckStock, HandlersReady, HandlerReady
    <3>2. batches[t] = 0
      BY <1>1, <1>5, <3>1 DEF CheckStock, HasStock
    <3> QED  BY <1>1, <2>1, <3>2, RacersFinite
  <2>3. CASE t \notin req[r].tiers
    <3>1. StockRacers(t)' \subseteq StockRacers(t)
      BY <2>1, <2>3 DEF StockRacers, TypeOK, Handlers
    <3> QED  BY <1>3, <2>1, <3>1
  <2> QED  BY <2>2, <2>3
<1>6. ASSUME NEW r \in Requests, InsertTickets(r)
      PROVE  batches'[t] + Cardinality(StockRacers(t)') <= Cardinality(Requests)
  <2>1. StockRacers(t)' = StockRacers(t) \ {r}
    BY <1>6 DEF InsertTickets, End, IdleReq, StockRacers, TypeOK
  <2>2. CASE t \in req[r].tiers
    <3>1. batches'[t] = batches[t] + 1
      BY <1>6, <2>2 DEF InsertTickets
    <3>2. r \in StockRacers(t)
      BY <1>6, <2>2 DEF InsertTickets, StockRacers
    <3>3. Cardinality(StockRacers(t)') + 1 <= Cardinality(StockRacers(t))
      BY <1>1, <2>1, <3>2, FewerRacers
    <3> QED  BY <1>1, <1>2, <3>1, <3>3
  <2>3. CASE t \notin req[r].tiers
    <3>1. batches'[t] = batches[t]
      BY <1>6, <2>3 DEF InsertTickets
    <3> QED  BY <1>3, <2>1, <3>1
  <2> QED  BY <2>2, <2>3
<1>7. ASSUME NEW r \in Requests, batches' = batches,
             req'[r].pc # "stock_insert", \A q \in Requests \ {r} : req'[q] = req[q]
      PROVE  batches'[t] + Cardinality(StockRacers(t)') <= Cardinality(Requests)
  BY <1>3, <1>7 DEF StockRacers
<1>8. ASSUME NEW r \in Requests, End(r), batches' = batches
      PROVE  batches'[t] + Cardinality(StockRacers(t)') <= Cardinality(Requests)
  BY <1>7, <1>8 DEF End, IdleReq, TypeOK
<1>9. ASSUME NEW r \in Requests,
             \/ \E v \in VenueIds : InsertVenue(r, v)
             \/ \E e \in EventIds : InsertEvent(r, e)
             \/ \E k \in TierIds : InsertTier(r, k)
             \/ RejectTier(r) \/ RejectInventory(r) \/ FailRequest(r)
      PROVE  batches'[t] + Cardinality(StockRacers(t)') <= Cardinality(Requests)
  BY <1>8, <1>9 DEF InsertVenue, InsertEvent, InsertTier, RejectTier, RejectInventory, FailRequest
<1>10. ASSUME NEW r \in Requests,
              \/ \E n \in Names, c \in Sizes : CheckVenue(r, n, c)
              \/ \E v \in VenueIds : FindVenue(r, v)
              \/ \E e \in EventIds, n \in Sizes : FindEvent(r, e, n)
              \/ \E e \in EventIds : ReadTiers(r, e)
       PROVE  batches'[t] + Cardinality(StockRacers(t)') <= Cardinality(Requests)
  <2>1. batches' = batches /\ \A q \in Requests \ {r} : req'[q] = req[q]
    BY <1>10 DEF CheckVenue, FindVenue, FindEvent, ReadTiers, TypeOK
  <2>2. req'[r].pc # "stock_insert"
    <3>1. ASSUME NEW n \in Names, NEW c \in Sizes, CheckVenue(r, n, c) PROVE req'[r].pc # "stock_insert"
      BY <3>1 DEF CheckVenue, IdleReq, TypeOK
    <3>2. ASSUME NEW v \in VenueIds, FindVenue(r, v) PROVE req'[r].pc # "stock_insert"
      BY <3>2 DEF FindVenue, IdleReq, TypeOK
    <3>3. ASSUME NEW e \in EventIds, NEW s \in Sizes, FindEvent(r, e, s) PROVE req'[r].pc # "stock_insert"
      BY <3>3 DEF FindEvent, IdleReq, TypeOK
    <3>4. ASSUME NEW e \in EventIds, ReadTiers(r, e) PROVE req'[r].pc # "stock_insert"
      BY <3>4 DEF ReadTiers, IdleReq, TypeOK
    <3> QED  BY <1>10, <3>1, <3>2, <3>3, <3>4
  <2> QED  BY <1>7, <2>1, <2>2
<1>11. ASSUME NEW r \in Requests, SumAllocated(r)
       PROVE  batches'[t] + Cardinality(StockRacers(t)') <= Cardinality(Requests)
  BY <1>7, <1>11 DEF SumAllocated, Goto, TypeOK, Handlers
<1> QED  BY <1>4, <1>5, <1>6, <1>9, <1>10, <1>11
         DEF Next, CreateVenue, CreateEvent, CreateTier, GenerateInventory

(* However generate_inventory requests overlap, fail and are repeated.       *)
THEOREM InventoryAtMostOncePerHandler == Spec => []InventoryBounded
<1>1. Init => StockBounded
  <2> SUFFICES ASSUME Init, NEW t \in TierIds
               PROVE  batches[t] + Cardinality(StockRacers(t)) <= Cardinality(Requests)
    BY DEF StockBounded
  <2>1. batches[t] = 0 /\ StockRacers(t) \in SUBSET Requests
    BY DEF Init, StockRacers
  <2> QED  BY <2>1, RacersFinite
<1>2. TypeInv /\ StockBounded => InventoryBounded
  <2> SUFFICES ASSUME TypeInv, StockBounded, NEW t \in TierIds
               PROVE  batches[t] <= Cardinality(Requests)
    BY DEF InventoryBounded
  <2>1. StockRacers(t) \in SUBSET Requests /\ Requests \in SUBSET Requests /\ batches[t] \in Nat
    BY DEF StockRacers, TypeInv, TypeOK
  <2> QED  BY <2>1, RacersFinite DEF StockBounded
<1> QED  BY <1>1, <1>2, InitType, NextType, NextStock, PTL DEF Spec

(* A name gets at most one venue from each handler.                          *)
LEMMA NextVenues == TypeInv /\ VenuesBounded /\ [Next]_vars => VenuesBounded'
<1> DEFINE Bounded(n) == /\ IsFiniteSet(VenuesNamed(n))
                         /\ Cardinality(VenuesNamed(n)) + Cardinality(NameRacers(n))
                            <= Cardinality(Requests)
<1> SUFFICES ASSUME TypeInv, VenuesBounded, [Next]_vars, NEW n \in Names
             PROVE  Bounded(n)'
  BY DEF VenuesBounded
<1> USE DEF TypeInv
<1>1. NameRacers(n) \in SUBSET Requests /\ NameRacers(n)' \in SUBSET Requests /\ Bounded(n)
  BY DEF NameRacers, VenuesBounded
<1>2. /\ Cardinality(NameRacers(n)) \in Nat /\ Cardinality(NameRacers(n)') \in Nat
      /\ Cardinality(VenuesNamed(n)) \in Nat /\ Cardinality(Requests) \in Nat
  <2>1. Requests \in SUBSET Requests
    OBVIOUS
  <2> QED  BY <1>1, <2>1, RacersFinite, FS_CardinalityType
<1>3. ASSUME NameRacers(n)' \subseteq NameRacers(n), VenuesNamed(n)' = VenuesNamed(n)
      PROVE  Bounded(n)'
  <2>1. Cardinality(NameRacers(n)') <= Cardinality(NameRacers(n))
    BY <1>1, <1>3, FewerRacers
  <2> QED  BY <1>1, <1>2, <1>3, <2>1
<1>4. CASE UNCHANGED vars
  BY <1>3, <1>4 DEF vars, NameRacers, VenuesNamed
<1>5. ASSUME NEW r \in Requests, NEW m \in Names, NEW c \in Sizes, CheckVenue(r, m, c)
      PROVE  Bounded(n)'
  <2>1. VenuesNamed(n)' = VenuesNamed(n) /\ req'[r].name = m /\ \A q \in Requests \ {r} : req'[q] = req[q]
    BY <1>5 DEF CheckVenue, VenuesNamed, TypeOK, IdleReq
  <2>2. CASE m = n
    <3>1. VenuesNamed(n)' = {}
      BY <1>5, <2>1, <2>2 DEF CheckVenue, NameTaken, VenuesNamed
    <3> QED  BY <1>1, <3>1, RacersFinite, FS_EmptySet
  <2>3. CASE m # n
    BY <1>3, <2>1, <2>3 DEF NameRacers
  <2> QED  BY <2>2, <2>3
<1>6. ASSUME NEW r \in Requests, NEW v \in VenueIds, InsertVenue(r, v)
      PROVE  Bounded(n)'
  <2>1. /\ venue[v] = None
        /\ venue' = [venue EXCEPT ![v] = [name |-> req[r].name, capacity |-> req[r].size]]
        /\ NameRacers(n)' = NameRacers(n) \ {r}
    BY <1>6 DEF InsertVenue, Fresh, End, IdleReq, NameRacers, TypeOK
  <2>2. CASE req[r].name = n
    <3>1. r \in NameRacers(n)
      BY <1>6, <2>2 DEF InsertVenue, NameRacers
    <3>2. Cardinality(NameRacers(n)') + 1 <= Cardinality(NameRacers(n))
      BY <1>1, <2>1, <3>1, FewerRacers
    <3>3. VenuesNamed(n)' = VenuesNamed(n) \/ VenuesNamed(n)' = VenuesNamed(n) \cup {v}
      BY <2>1 DEF VenuesNamed, TypeOK
    <3>4. CASE VenuesNamed(n)' = VenuesNamed(n)
      BY <1>1, <1>2, <3>2, <3>4
    <3>5. CASE VenuesNamed(n)' = VenuesNamed(n) \cup {v}
      <4> DEFINE W == VenuesNamed(n) \cup {v}
      <4>1. IsFiniteSet(VenuesNamed(n))
        BY <1>1
      <4>2. /\ IsFiniteSet(W) /\ Cardinality(W) \in Nat
            /\ Cardinality(W) <= Cardinality(VenuesNamed(n)) + 1
        BY <4>1, OneMore
      <4>4. VenuesNamed(n)' = W
        BY <3>5
      <4> HIDE DEF W
      <4> QED  BY <1>1, <1>2, <3>2, <4>2, <4>4
    <3> QED  BY <3>3, <3>4, <3>5
  <2>3. CASE req[r].name # n
    <3>1. VenuesNamed(n)' = VenuesNamed(n)
      BY <2>1, <2>3 DEF VenuesNamed, TypeOK
    <3> QED  BY <1>3, <2>1, <3>1
  <2> QED  BY <2>2, <2>3
<1>7. ASSUME NEW r \in Requests, venue' = venue,
             req'[r].pc # "venue_insert", \A q \in Requests \ {r} : req'[q] = req[q]
      PROVE  Bounded(n)'
  BY <1>3, <1>7 DEF NameRacers, VenuesNamed
<1>8. ASSUME NEW r \in Requests, End(r), venue' = venue PROVE Bounded(n)'
  BY <1>7, <1>8 DEF End, IdleReq, TypeOK
<1>9. ASSUME NEW r \in Requests,
             \/ \E e \in EventIds : InsertEvent(r, e)
             \/ \E k \in TierIds : InsertTier(r, k)
             \/ InsertTickets(r)
             \/ RejectTier(r) \/ RejectInventory(r) \/ FailRequest(r)
      PROVE  Bounded(n)'
  BY <1>8, <1>9 DEF InsertEvent, InsertTier, InsertTickets, RejectTier, RejectInventory, FailRequest
<1>10. ASSUME NEW r \in Requests,
              \/ \E v \in VenueIds : FindVenue(r, v)
              \/ \E e \in EventIds, s \in Sizes : FindEvent(r, e, s)
              \/ \E e \in EventIds : ReadTiers(r, e)
       PROVE  Bounded(n)'
  <2>1. venue' = venue /\ \A q \in Requests \ {r} : req'[q] = req[q]
    BY <1>10 DEF FindVenue, FindEvent, ReadTiers, TypeOK
  <2>2. req'[r].pc # "venue_insert"
    <3>1. ASSUME NEW v \in VenueIds, FindVenue(r, v) PROVE req'[r].pc # "venue_insert"
      BY <3>1 DEF FindVenue, IdleReq, TypeOK
    <3>2. ASSUME NEW e \in EventIds, NEW s \in Sizes, FindEvent(r, e, s) PROVE req'[r].pc # "venue_insert"
      BY <3>2 DEF FindEvent, IdleReq, TypeOK
    <3>3. ASSUME NEW e \in EventIds, ReadTiers(r, e) PROVE req'[r].pc # "venue_insert"
      BY <3>3 DEF ReadTiers, IdleReq, TypeOK
    <3> QED  BY <1>10, <3>1, <3>2, <3>3
  <2> QED  BY <1>7, <2>1, <2>2
<1>11. ASSUME NEW r \in Requests, SumAllocated(r) \/ CheckStock(r) PROVE Bounded(n)'
  BY <1>7, <1>11 DEF SumAllocated, CheckStock, Goto, TypeOK, Handlers
<1> QED  BY <1>4, <1>5, <1>6, <1>9, <1>10, <1>11
         DEF Next, CreateVenue, CreateEvent, CreateTier, GenerateInventory

LEMMA VenuesInvariant == Spec => [](TypeInv /\ VenuesBounded)
<1>1. Init => VenuesBounded
  <2> SUFFICES ASSUME Init, NEW n \in Names
               PROVE  /\ IsFiniteSet(VenuesNamed(n))
                      /\ Cardinality(VenuesNamed(n)) + Cardinality(NameRacers(n))
                         <= Cardinality(Requests)
    BY DEF VenuesBounded
  <2>1. VenuesNamed(n) = {} /\ NameRacers(n) \in SUBSET Requests
    BY DEF Init, VenuesNamed, NameRacers
  <2> QED  BY <2>1, RacersFinite, FS_EmptySet
<1> QED  BY <1>1, InitType, NextType, NextVenues, PTL DEF Spec

(* However create_venue requests for one name and city overlap.              *)
THEOREM VenueAtMostOncePerHandler == Spec => []NamesBounded
<1>1. VenuesBounded => NamesBounded
  <2> SUFFICES ASSUME VenuesBounded, NEW n \in Names
               PROVE  Cardinality(VenuesNamed(n)) <= Cardinality(Requests)
    BY DEF NamesBounded, VenuesNamed
  <2>1. /\ Cardinality(VenuesNamed(n)) \in Nat
        /\ Cardinality(VenuesNamed(n)) + Cardinality(NameRacers(n)) <= Cardinality(Requests)
    BY FS_CardinalityType DEF VenuesBounded
  <2>2. NameRacers(n) \in SUBSET Requests /\ Requests \in SUBSET Requests
    BY DEF NameRacers
  <2> QED  BY <2>1, <2>2, RacersFinite
<1> QED  BY <1>1, VenuesInvariant, PTL

-----------------------------------------------------------------------------
(* Late tiers *)

(* Tiers are numbered in the order of their rows, and what a handler read of *)
(* an event's tiers is every tier up to some moment.                         *)
NumberedInOrder == \A s, t \in TierIds : s < t /\ tier[t] # None => tier[s] # None

Precedes(s, t) == s < t /\ tier[s] # None /\ tier[s].event = tier[t].event
ReadInOrder ==
    \A r \in Requests : req[r].pc \in {"stock_check", "stock_insert"} =>
       \A t \in req[r].tiers, s \in TierIds : Precedes(s, t) => s \in req[r].tiers

OrderInv == TypeInv /\ NumberedInOrder /\ ReadInOrder /\ OlderFirst

LEMMA InitOrder == Init => OrderInv
BY InitType DEF Init, OrderInv, NumberedInOrder, ReadInOrder, OlderFirst, IdleReq

(* A new tier comes after all others and has no tickets yet.                 *)
LEMMA NewTierLast ==
    ASSUME OrderInv, NEW r \in Requests, NEW t \in TierIds, InsertTier(r, t)
    PROVE  /\ tier[t] = None /\ tier' = [tier EXCEPT ![t] = tier'[t]] /\ batches[t] = 0
           /\ \A x \in TierIds : tier[x] # None <=> x < t
<1> USE IdsAssumption DEF OrderInv, TypeInv, TypeOK, InsertTier, Fresh
<1>1. tier[t] = None /\ \A x \in TierIds : x < t => tier[x] # None
  OBVIOUS
<1>2. \A x \in TierIds : tier[x] # None => x < t
  <2> SUFFICES ASSUME NEW x \in TierIds, tier[x] # None PROVE x < t
    OBVIOUS
  <2>1. x \in Nat /\ t \in Nat /\ x # t
    BY <1>1
  <2>2. ~(t < x)
    BY <1>1 DEF NumberedInOrder
  <2> QED  BY <2>1, <2>2
<1> QED  BY <1>1, <1>2

LEMMA NextOrder == OrderInv /\ [Next]_vars => OrderInv'
<1> SUFFICES ASSUME OrderInv, [Next]_vars PROVE OrderInv'
  OBVIOUS
<1>0. TypeInv'
  BY NextType DEF OrderInv
<1> USE IdsAssumption DEF OrderInv
<1>1. ASSUME UNCHANGED <<tier, batches>>, ReadInOrder' PROVE OrderInv'
  BY <1>0, <1>1 DEF NumberedInOrder, OlderFirst
<1>2. CASE UNCHANGED vars
  BY <1>1, <1>2 DEF vars, ReadInOrder, Precedes
<1>3. ASSUME NEW r \in Requests, UNCHANGED <<tier, batches>>,
             \A q \in Requests \ {r} : req'[q] = req[q],
             \/ req'[r].pc \notin {"stock_check", "stock_insert"}
             \/ req'[r].tiers = req[r].tiers /\ req[r].pc = "stock_check"
             \/ \E e \in EventIds : req'[r].tiers = TiersOf(e)
      PROVE  OrderInv'
  <2>1. ReadInOrder'
    <3> SUFFICES ASSUME NEW q \in Requests, req'[q].pc \in {"stock_check", "stock_insert"},
                        NEW t \in req'[q].tiers, NEW s \in TierIds, Precedes(s, t)
                 PROVE  s \in req'[q].tiers
      BY <1>3 DEF ReadInOrder, Precedes
    <3>1. CASE q # r \/ (q = r /\ req'[r].tiers = req[r].tiers /\ req[r].pc = "stock_check")
      <4>1. req'[q].tiers = req[q].tiers /\ req[q].pc \in {"stock_check", "stock_insert"}
        BY <1>3, <3>1
      <4> QED  BY <4>1 DEF ReadInOrder
    <3>2. ASSUME NEW e \in EventIds, req'[q].tiers = TiersOf(e) PROVE s \in req'[q].tiers
      BY <3>2 DEF Precedes, TiersOf
    <3> QED  BY <1>3, <3>1, <3>2
  <2> QED  BY <1>1, <1>3, <2>1
<1>4. ASSUME NEW r \in Requests,
             \/ \E n \in Names, c \in Sizes : CheckVenue(r, n, c)
             \/ \E v \in VenueIds : InsertVenue(r, v) \/ FindVenue(r, v)
             \/ \E e \in EventIds : InsertEvent(r, e)
             \/ \E e \in EventIds, n \in Sizes : FindEvent(r, e, n)
             \/ SumAllocated(r) \/ RejectTier(r) \/ RejectInventory(r) \/ FailRequest(r)
      PROVE  OrderInv'
  <2>1. UNCHANGED <<tier, batches>> /\ \A q \in Requests \ {r} : req'[q] = req[q]
    BY <1>4 DEF TypeInv, TypeOK, CheckVenue, InsertVenue, FindVenue, InsertEvent, FindEvent, SumAllocated,
                RejectTier, RejectInventory, FailRequest, Goto, End
  <2>2. req'[r].pc \notin {"stock_check", "stock_insert"}
    <3> USE DEF TypeInv, TypeOK, IdleReq
    <3>1. ASSUME NEW n \in Names, NEW c \in Sizes, CheckVenue(r, n, c)
          PROVE  req'[r].pc \notin {"stock_check", "stock_insert"}
      BY <3>1 DEF CheckVenue
    <3>2. ASSUME NEW v \in VenueIds, FindVenue(r, v)
          PROVE  req'[r].pc \notin {"stock_check", "stock_insert"}
      BY <3>2 DEF FindVenue
    <3>3. ASSUME NEW e \in EventIds, NEW n \in Sizes, FindEvent(r, e, n)
          PROVE  req'[r].pc \notin {"stock_check", "stock_insert"}
      BY <3>3 DEF FindEvent
    <3>4. ASSUME End(r) PROVE req'[r].pc \notin {"stock_check", "stock_insert"}
      BY <3>4 DEF End
    <3>5. CASE SumAllocated(r)
      BY <3>5 DEF SumAllocated, Goto, Handlers
    <3> QED
      BY <1>4, <3>1, <3>2, <3>3, <3>4, <3>5
         DEF InsertVenue, InsertEvent, RejectTier, RejectInventory, FailRequest
  <2> QED  BY <1>3, <2>1, <2>2
<1>5. ASSUME NEW r \in Requests, NEW e \in EventIds, ReadTiers(r, e) PROVE OrderInv'
  <2>1. req'[r].tiers = TiersOf(e)
    BY <1>5 DEF TypeInv, TypeOK, ReadTiers, IdleReq
  <2> QED  BY <1>3, <1>5, <2>1 DEF TypeInv, TypeOK, ReadTiers
<1>6. ASSUME NEW r \in Requests, CheckStock(r) PROVE OrderInv'
  <2>1. req'[r].tiers = req[r].tiers
    BY <1>6 DEF TypeInv, TypeOK, Handlers, CheckStock, Goto
  <2> QED  BY <1>3, <1>6, <2>1 DEF TypeInv, TypeOK, CheckStock, Goto
<1>7. ASSUME NEW r \in Requests, NEW t \in TierIds, InsertTier(r, t) PROVE OrderInv'
  <2>1. /\ tier[t] = None /\ batches[t] = 0 /\ \A x \in TierIds : tier[x] # None <=> x < t
        /\ \A x \in TierIds \ {t} : tier'[x] = tier[x]
    BY <1>7, NewTierLast DEF TypeInv, TypeOK
  <2>2. \A x \in TierIds : tier'[x] # None => x <= t
    BY <2>1
  <2>3. UNCHANGED batches /\ req'[r].pc = "idle" /\ \A q \in Requests \ {r} : req'[q] = req[q]
    BY <1>7 DEF TypeInv, TypeOK, InsertTier, End, IdleReq
  <2>4. NumberedInOrder'
    BY <2>1, <2>2 DEF NumberedInOrder
  <2>5. ReadInOrder'
    <3> SUFFICES ASSUME NEW q \in Requests, req'[q].pc \in {"stock_check", "stock_insert"},
                        NEW y \in req'[q].tiers, NEW s \in TierIds, Precedes(s, y)'
                 PROVE  s \in req'[q].tiers
      BY DEF ReadInOrder
    <3>1. req'[q] = req[q]
      BY <2>3
    <3>2. y \in TierIds /\ tier[y] # None
      BY <3>1 DEF TypeInv, HandlersReady, HandlerReady, TiersOf
    <3>3. y # t /\ s # t /\ tier'[y] = tier[y] /\ tier'[s] = tier[s]
      BY <2>1, <3>2 DEF Precedes
    <3> QED  BY <3>1, <3>3 DEF ReadInOrder, Precedes
  <2>6. OlderFirst'
    <3> SUFFICES ASSUME NEW s \in TierIds, NEW y \in TierIds, s < y, tier'[s] # None, tier'[y] # None,
                        tier'[s].event = tier'[y].event
                 PROVE  batches[y] <= batches[s]
      BY <2>3 DEF OlderFirst
    <3>1. batches[s] \in Nat
      BY DEF TypeInv, TypeOK
    <3>2. CASE y = t
      BY <2>1, <3>1, <3>2
    <3>3. CASE y # t
      BY <2>1, <2>2, <3>3 DEF OlderFirst
    <3> QED  BY <3>2, <3>3
  <2> QED  BY <1>0, <2>4, <2>5, <2>6
<1>8. ASSUME NEW r \in Requests, InsertTickets(r) PROVE OrderInv'
  <2>1. UNCHANGED tier /\ req'[r].pc = "idle" /\ \A q \in Requests \ {r} : req'[q] = req[q]
    BY <1>8 DEF TypeInv, TypeOK, InsertTickets, End, IdleReq
  <2>2. \A x \in TierIds : /\ batches[x] \in Nat
                           /\ batches'[x] = IF x \in req[r].tiers THEN batches[x] + 1 ELSE batches[x]
    BY <1>8 DEF TypeInv, TypeOK, InsertTickets
  <2>3. NumberedInOrder' /\ ReadInOrder'
    BY <2>1 DEF NumberedInOrder, ReadInOrder, Precedes
  <2>4. OlderFirst'
    <3> SUFFICES ASSUME NEW s \in TierIds, NEW y \in TierIds, s < y, tier[s] # None, tier[y] # None,
                        tier[s].event = tier[y].event
                 PROVE  batches'[y] <= batches'[s]
      BY <2>1 DEF OlderFirst
    <3>1. batches[y] <= batches[s] /\ (y \in req[r].tiers => s \in req[r].tiers)
      BY <1>8 DEF OlderFirst, ReadInOrder, Precedes, InsertTickets
    <3> QED  BY <2>2, <3>1
  <2> QED  BY <1>0, <2>3, <2>4
<1> QED  BY <1>2, <1>4, <1>5, <1>6, <1>7, <1>8
         DEF Next, CreateVenue, CreateEvent, CreateTier, GenerateInventory

(* A tier that has no tickets when another of its event does is a younger    *)
(* one, however create_tier and generate_inventory overlap.                  *)
THEOREM OlderTiersFirst == Spec => []OlderFirst
<1>1. OrderInv => OlderFirst
  BY DEF OrderInv
<1> QED  BY <1>1, InitOrder, NextOrder, PTL DEF Spec
-----------------------------------------------------------------------------
(* Tiers that race for an event's capacity *)

(* The create_tier requests that have found room and not inserted their row. *)
TierRacers(e) == {r \in Requests : req[r].pc = "tier_insert" /\ req[r].event = e}
SizesAsked == [r \in Requests |-> req[r].size]
UnderWay(e) == SumFunctionOnSet(SizesAsked, TierRacers(e))

(* What the rows hold and what is still to be inserted add up to no more than*)
(* the capacity for each handler: a request finds the rows and itself within *)
(* the capacity, and the others it does not see were each within it, too.    *)
EventBounded(e) ==
    /\ IsFiniteSet(TiersOf(e))
    /\ \A r \in TierRacers(e) : req[r].size <= Capacity(e)
    /\ Allocated(e) + UnderWay(e) <= Cardinality(Requests) * Capacity(e)

TiersBounded == \A e \in EventIds : event[e] # None => EventBounded(e)

LEMMA EventNumbers ==
    ASSUME TypeInv, NEW e \in EventIds, event[e] # None
    PROVE  /\ Capacity(e) \in Nat /\ Cardinality(Requests) \in Nat
           /\ Cardinality(Requests) * Capacity(e) \in Nat
           /\ IsFiniteSet(TierRacers(e)) /\ UnderWay(e) \in Nat
           /\ \A r \in TierRacers(e) : SizesAsked[r] \in Nat /\ SizesAsked[r] = req[r].size
           /\ IsFiniteSet(TiersOf(e)) => Allocated(e) \in Nat
<1>1. Capacity(e) \in Nat
  BY SizesAssumption, NoneAssumption DEF TypeInv, TypeOK, Capacity, Venues
<1>2. IsFiniteSet(TierRacers(e)) /\ Cardinality(Requests) \in Nat
  BY RacersFinite, RequestsAssumption, FS_CardinalityType DEF TierRacers
<1>3. \A r \in TierRacers(e) : SizesAsked[r] \in Nat /\ SizesAsked[r] = req[r].size
  BY SizesAssumption DEF TypeInv, HandlersReady, HandlerReady, TierRacers, SizesAsked
<1>4. UnderWay(e) \in Nat
  BY <1>2, <1>3, SumType DEF UnderWay
<1>5. ASSUME IsFiniteSet(TiersOf(e)) PROVE Allocated(e) \in Nat
  <2> DEFINE f == [t \in TiersOf(e) |-> tier[t].size]
  <2>1. \A t \in TiersOf(e) : f[t] \in Nat
    BY SizesAssumption, NoneAssumption DEF TypeInv, TypeOK, TiersOf, TierRows
  <2>2. Allocated(e) = SumFunctionOnSet(f, TiersOf(e))
    BY DEF Allocated, SumFunction
  <2> HIDE DEF f
  <2> QED  BY <1>5, <2>1, <2>2, SumType
<1> QED  BY <1>1, <1>2, <1>3, <1>4, <1>5

(* A step that adds no racer and no row of the event.                        *)
LEMMA RacersLeave ==
    ASSUME TypeInv, TypeInv', NEW e \in EventIds, event[e] # None, EventBounded(e),
           event'[e] = event[e], venue'[event[e]] = venue[event[e]],
           TiersOf(e)' = TiersOf(e), \A t \in TiersOf(e) : tier'[t] = tier[t],
           TierRacers(e)' \subseteq TierRacers(e),
           \A r \in TierRacers(e)' : req'[r] = req[r]
    PROVE  EventBounded(e)'
<1>1. Capacity(e)' = Capacity(e) /\ Allocated(e)' = Allocated(e)
  BY DEF Capacity, Allocated
<1>2. \A r \in TierRacers(e)' : r \in Requests /\ SizesAsked[r] = SizesAsked'[r]
  BY DEF SizesAsked, TierRacers
<1>3. IsFiniteSet(TierRacers(e)') /\ IsFiniteSet(TierRacers(e))
  BY RacersFinite DEF TierRacers
<1>4. UnderWay(e)' = SumFunctionOnSet(SizesAsked, TierRacers(e)')
  BY <1>2, <1>3, SumSame DEF UnderWay
<1>5. SumFunctionOnSet(SizesAsked, TierRacers(e)') <= UnderWay(e)
  BY <1>3, EventNumbers, SumSubset DEF UnderWay
<1>6. Allocated(e) \in Nat /\ UnderWay(e) \in Nat /\ UnderWay(e)' \in Nat
  <2>1. \A r \in TierRacers(e)' : SizesAsked[r] \in Nat
    BY EventNumbers
  <2>2. UnderWay(e)' \in Nat
    BY <1>3, <1>4, <2>1, SumType
  <2> QED  BY <2>2, EventNumbers DEF EventBounded
<1>7. Cardinality(Requests) * Capacity(e) \in Nat
  BY EventNumbers
<1>8. \A r \in TierRacers(e)' : req'[r].size <= Capacity(e)'
  <2>1. \A r \in TierRacers(e) : req[r].size <= Capacity(e)
    BY DEF EventBounded
  <2> QED  BY <1>1, <2>1
<1>9. Allocated(e)' + UnderWay(e)' <= Cardinality(Requests) * Capacity(e)'
  BY <1>1, <1>4, <1>5, <1>6, <1>7 DEF EventBounded
<1> QED  BY <1>1, <1>8, <1>9 DEF EventBounded

(* A request joins the racers: with what the rows hold it is within the      *)
(* capacity, and there are at most all the other handlers beside it.         *)
LEMMA RacerJoins ==
    ASSUME TypeInv, TypeInv', NEW r \in Requests, SumAllocated(r),
           NEW e \in EventIds, req[r].event = e, event[e] # None, EventBounded(e)
    PROVE  EventBounded(e)'
<1> DEFINE others == TierRacers(e)
<1>1. event' = event /\ venue' = venue /\ tier' = tier
  BY DEF SumAllocated
<1>2. Capacity(e)' = Capacity(e) /\ TiersOf(e)' = TiersOf(e) /\ Allocated(e)' = Allocated(e)
  BY <1>1 DEF Capacity, TiersOf, Allocated
<1>3. req'[r] = [req[r] EXCEPT !.pc = "tier_insert"] /\ \A q \in Requests \ {r} : req'[q] = req[q]
  BY DEF SumAllocated, Goto, TypeInv, TypeOK
<1>4. req[r].pc = "tier_sum" /\ req'[r].pc = "tier_insert" /\ req'[r].event = e /\ req'[r].size = req[r].size
  BY <1>3 DEF SumAllocated, TypeInv, TypeOK, Handlers
<1>5. r \notin others /\ TierRacers(e)' = others \cup {r}
  BY <1>3, <1>4 DEF TierRacers
<1> HIDE DEF others
<1>6. /\ IsFiniteSet(others) /\ others \subseteq Requests
      /\ Cardinality(others) \in Nat /\ Cardinality(others) + 1 <= Cardinality(Requests)
  <2>1. others \in SUBSET Requests /\ Requests \in SUBSET Requests
    BY DEF others, TierRacers
  <2> QED  BY <1>5, <2>1, RacersFinite, FewerRacers
<1>7. /\ Capacity(e) \in Nat /\ Cardinality(Requests) \in Nat
      /\ \A q \in others : SizesAsked[q] \in Nat /\ SizesAsked[q] <= Capacity(e)
      /\ IsFiniteSet(TiersOf(e)) /\ Allocated(e) \in Nat
  BY <1>1, EventNumbers DEF EventBounded, others
<1>8. SumFunctionOnSet(SizesAsked, others) <= (Cardinality(Requests) - 1) * Capacity(e)
  <2>1. Cardinality(Requests) - 1 \in Nat /\ Cardinality(others) <= Cardinality(Requests) - 1
    BY <1>6, <1>7
  <2> QED  BY <1>6, <1>7, <2>1, SumOfFew
<1>9. UnderWay(e)' = req[r].size + SumFunctionOnSet(SizesAsked, others)
  <2>1. \A q \in others : SizesAsked'[q] = SizesAsked[q]
    BY <1>3, <1>5, <1>6 DEF SizesAsked
  <2>2. SizesAsked'[r] = req[r].size /\ req[r].size \in Nat
    BY <1>4, SizesAssumption DEF SizesAsked, TypeInv, HandlersReady, HandlerReady
  <2>3. IsFiniteSet(others \cup {r}) /\ (others \cup {r}) \ {r} = others
    BY <1>5, <1>6, FS_AddElement
  <2>4. \A q \in others \cup {r} : SizesAsked'[q] \in Nat
    BY <1>7, <2>1, <2>2
  <2>5. UnderWay(e)' = SumFunctionOnSet(SizesAsked', others \cup {r})
    BY <1>5 DEF UnderWay
  <2>6. SumFunctionOnSet(SizesAsked', others \cup {r})
        = SizesAsked'[r] + SumFunctionOnSet(SizesAsked', (others \cup {r}) \ {r})
    BY <2>3, <2>4, SumRemove
  <2>7. SumFunctionOnSet(SizesAsked', others) = SumFunctionOnSet(SizesAsked, others)
    BY <1>6, <2>1, SumSame
  <2> QED  BY <2>2, <2>3, <2>5, <2>6, <2>7
<1>10. Allocated(e) + req[r].size <= Capacity(e) /\ req[r].size \in Nat
  BY SizesAssumption DEF SumAllocated, Fits, TypeInv, HandlersReady, HandlerReady
<1>11. SumFunctionOnSet(SizesAsked, others) \in Nat
  BY <1>6, <1>7, SumType
<1>12. (Cardinality(Requests) - 1) * Capacity(e) + Capacity(e) = Cardinality(Requests) * Capacity(e)
  BY <1>7
<1>13. (Cardinality(Requests) - 1) * Capacity(e) \in Int /\ Cardinality(Requests) * Capacity(e) \in Int
  BY <1>7
<1>14. Allocated(e) + UnderWay(e)' <= Cardinality(Requests) * Capacity(e)
  BY <1>7, <1>8, <1>9, <1>10, <1>11, <1>12, <1>13
<1>15. \A q \in TierRacers(e)' : req'[q].size <= Capacity(e)
  <2>1. \A q \in others : req'[q].size <= Capacity(e)
    <3>1. \A q \in others : req[q].size <= Capacity(e)
      BY DEF EventBounded, others
    <3> QED  BY <1>3, <1>5, <1>6, <3>1
  <2>2. req'[r].size <= Capacity(e)
    BY <1>4, <1>7, <1>10
  <2> QED  BY <1>5, <2>1, <2>2
<1> QED  BY <1>2, <1>7, <1>14, <1>15 DEF EventBounded

(* A racer's size moves from what is under way to what the rows hold.        *)
LEMMA RacerInserts ==
    ASSUME TypeInv, TypeInv', NEW r \in Requests, NEW t \in TierIds, InsertTier(r, t),
           NEW e \in EventIds, req[r].event = e, event[e] # None, EventBounded(e)
    PROVE  EventBounded(e)'
<1> DEFINE others == TierRacers(e) \ {r}
           sizes == [x \in TiersOf(e) |-> tier[x].size]
           sizes2 == [x \in TiersOf(e) \cup {t} |-> tier'[x].size]
<1>1. /\ tier[t] = None /\ tier'[t] = [event |-> e, size |-> req[r].size]
      /\ \A x \in TierIds \ {t} : tier'[x] = tier[x]
      /\ UNCHANGED <<venue, event>> /\ r \in TierRacers(e)
  BY DEF InsertTier, Fresh, TypeInv, TypeOK, TierRacers
<1>2. req'[r].pc = "idle" /\ \A q \in Requests \ {r} : req'[q] = req[q]
  BY DEF InsertTier, End, IdleReq, TypeInv, TypeOK
<1>3. t \notin TiersOf(e) /\ TiersOf(e)' = TiersOf(e) \cup {t} /\ Capacity(e)' = Capacity(e)
  <2>1. tier'[t] # None /\ tier'[t].event = e
    BY <1>1, NoneAssumption DEF TypeInv, InsertTier, HandlersReady, HandlerReady, TierRows
  <2> QED  BY <1>1, <2>1 DEF TiersOf, Capacity
<1>4. TierRacers(e)' = others
  BY <1>2 DEF TierRacers
<1>5. /\ Capacity(e) \in Nat /\ Cardinality(Requests) * Capacity(e) \in Nat
      /\ IsFiniteSet(TierRacers(e)) /\ IsFiniteSet(TiersOf(e))
      /\ \A q \in TierRacers(e) : SizesAsked[q] \in Nat /\ SizesAsked[q] = req[q].size
      /\ Allocated(e) \in Nat
  BY EventNumbers DEF EventBounded
<1>6. IsFiniteSet(TiersOf(e) \cup {t}) /\ IsFiniteSet(others)
  BY <1>5, FS_AddElement, FS_RemoveElement
<1>7. req[r].size \in Nat /\ UnderWay(e) = req[r].size + SumFunctionOnSet(SizesAsked, others)
  <2>1. SizesAsked[r] \in Nat /\ SizesAsked[r] = req[r].size
    BY <1>1, <1>5
  <2>2. UnderWay(e) = SizesAsked[r] + SumFunctionOnSet(SizesAsked, others)
    BY <1>1, <1>5, SumRemove DEF UnderWay
  <2> QED  BY <2>1, <2>2
<1>8. UnderWay(e)' = SumFunctionOnSet(SizesAsked, others) /\ SumFunctionOnSet(SizesAsked, others) \in Nat
  <2>1. \A q \in others : SizesAsked'[q] = SizesAsked[q] /\ SizesAsked[q] \in Nat
    BY <1>2, <1>5 DEF SizesAsked, TierRacers
  <2>2. UnderWay(e)' = SumFunctionOnSet(SizesAsked', others)
    BY <1>4 DEF UnderWay
  <2> HIDE DEF others
  <2> QED  BY <1>6, <2>1, <2>2, SumSame, SumType
<1>9. Allocated(e)' = req[r].size + Allocated(e)
  <2>1. Allocated(e) = SumFunctionOnSet(sizes, TiersOf(e))
    BY DEF Allocated, SumFunction
  <2>2. Allocated(e)' = SumFunctionOnSet(sizes2, TiersOf(e) \cup {t})
    BY <1>3 DEF Allocated, SumFunction
  <2>3. sizes2[t] = req[r].size
    BY <1>1
  <2>4. \A x \in TiersOf(e) : sizes2[x] = sizes[x] /\ sizes[x] \in Nat
    <3>1. \A x \in TiersOf(e) : x \in TierIds \ {t} /\ tier[x] \in TierRows
      BY <1>3, NoneAssumption DEF TypeInv, TypeOK, TiersOf
    <3>2. \A x \in TiersOf(e) : tier'[x] = tier[x] /\ tier[x].size \in Nat
      BY <1>1, <3>1, SizesAssumption DEF TierRows
    <3> QED  BY <3>2
  <2> HIDE DEF sizes, sizes2
  <2>5. \A x \in TiersOf(e) \cup {t} : sizes2[x] \in Nat
    BY <1>7, <2>3, <2>4
  <2>6. SumFunctionOnSet(sizes2, TiersOf(e) \cup {t})
        = sizes2[t] + SumFunctionOnSet(sizes2, (TiersOf(e) \cup {t}) \ {t})
    BY <1>6, <2>5, SumRemove
  <2>7. (TiersOf(e) \cup {t}) \ {t} = TiersOf(e)
    BY <1>3
  <2>8. SumFunctionOnSet(sizes2, TiersOf(e)) = SumFunctionOnSet(sizes, TiersOf(e))
    BY <1>5, <2>4, SumSame
  <2> QED  BY <2>1, <2>2, <2>3, <2>6, <2>7, <2>8
<1>10. Allocated(e)' + UnderWay(e)' <= Cardinality(Requests) * Capacity(e)
  <2>1. Allocated(e) + UnderWay(e) <= Cardinality(Requests) * Capacity(e)
    BY DEF EventBounded
  <2> QED  BY <1>5, <1>7, <1>8, <1>9, <2>1
<1>11. \A q \in TierRacers(e)' : req'[q].size <= Capacity(e)
  <2>1. \A q \in TierRacers(e) : req[q].size <= Capacity(e)
    BY DEF EventBounded
  <2> QED  BY <1>2, <1>4, <2>1 DEF TierRacers
<1> QED  BY <1>3, <1>6, <1>10, <1>11 DEF EventBounded

(* An event starts without tiers, and no request can have found it before.   *)
LEMMA EventStarts ==
    ASSUME TypeInv, TypeInv', NEW r \in Requests, NEW e \in EventIds, InsertEvent(r, e)
    PROVE  EventBounded(e)'
<1>1. event[e] = None /\ tier' = tier /\ event'[e] # None
  <2>1. req[r].venue \in VenueIds
    BY DEF InsertEvent, TypeInv, HandlersReady, HandlerReady
  <2> QED  BY <2>1, IdsAssumption, NoneAssumption DEF InsertEvent, Fresh, TypeInv, TypeOK
<1>2. TiersOf(e)' = {}
  BY <1>1 DEF TiersOf, TypeInv, TypeOK
<1>3. TierRacers(e)' = {}
  <2>1. \A q \in Requests : req[q].pc = "tier_insert" => req[q].event # e
    BY <1>1 DEF TypeInv, HandlersReady, HandlerReady
  <2> QED  BY <2>1 DEF InsertEvent, End, IdleReq, TierRacers, TypeInv, TypeOK
<1>4. Allocated(e)' = 0
  <2>1. Allocated(e)' = SumFunctionOnSet([t \in {} |-> tier'[t].size], {})
    BY <1>2 DEF Allocated, SumFunction
  <2> QED  BY <2>1, SumEmpty
<1>5. UnderWay(e)' = 0
  BY <1>3, SumEmpty DEF UnderWay
<1>6. Capacity(e)' \in Nat
  BY <1>1, SizesAssumption, NoneAssumption DEF TypeInv, TypeOK, Capacity, Venues
<1>7. Cardinality(Requests) \in Nat
  BY RequestsAssumption, FS_CardinalityType
<1>8. 0 <= Cardinality(Requests) * Capacity(e)'
  BY <1>6, <1>7
<1> QED  BY <1>2, <1>3, <1>4, <1>5, <1>8, FS_EmptySet DEF EventBounded

LEMMA NextTiers == TypeInv /\ TiersBounded /\ [Next]_vars => TiersBounded'
<1> SUFFICES ASSUME TypeInv, TiersBounded, [Next]_vars, NEW e \in EventIds, event'[e] # None
             PROVE  EventBounded(e)'
  BY DEF TiersBounded
<1>1. TypeInv'
  BY NextType
<1>2. ASSUME event' = event PROVE event[e] # None /\ EventBounded(e) /\ event'[e] = event[e]
  BY <1>2 DEF TiersBounded
<1>3. ASSUME NEW r \in Requests, event' = event, tier' = tier, venue'[event[e]] = venue[event[e]],
             req'[r].pc # "tier_insert", \A q \in Requests \ {r} : req'[q] = req[q]
      PROVE  EventBounded(e)'
  <2>1. TierRacers(e)' \subseteq TierRacers(e) /\ \A q \in TierRacers(e)' : req'[q] = req[q]
    BY <1>3 DEF TierRacers
  <2> QED  BY <1>1, <1>2, <1>3, <2>1, RacersLeave DEF TiersOf
<1>4. CASE UNCHANGED vars
  <2>1. TierRacers(e)' \subseteq TierRacers(e) /\ \A q \in TierRacers(e)' : req'[q] = req[q]
    BY <1>4 DEF vars, TierRacers
  <2> QED  BY <1>1, <1>2, <1>4, <2>1, RacersLeave DEF vars, TiersOf
<1>5. ASSUME NEW r \in Requests,
             \/ \E n \in Names, c \in Sizes : CheckVenue(r, n, c)
             \/ \E v \in VenueIds : FindVenue(r, v)
             \/ \E x \in EventIds, n \in Sizes : FindEvent(r, x, n)
             \/ \E x \in EventIds : ReadTiers(r, x)
             \/ CheckStock(r)
      PROVE  EventBounded(e)'
  <2>1. UNCHANGED <<venue, event, tier>> /\ \A q \in Requests \ {r} : req'[q] = req[q]
    BY <1>5 DEF TypeInv, TypeOK, CheckVenue, FindVenue, FindEvent, ReadTiers, CheckStock, Goto
  <2>2. req'[r].pc # "tier_insert"
    <3> USE DEF TypeInv, TypeOK, IdleReq
    <3>1. ASSUME NEW n \in Names, NEW c \in Sizes, CheckVenue(r, n, c) PROVE req'[r].pc # "tier_insert"
      BY <3>1 DEF CheckVenue
    <3>2. ASSUME NEW v \in VenueIds, FindVenue(r, v) PROVE req'[r].pc # "tier_insert"
      BY <3>2 DEF FindVenue
    <3>3. ASSUME NEW x \in EventIds, NEW n \in Sizes, FindEvent(r, x, n) PROVE req'[r].pc # "tier_insert"
      BY <3>3 DEF FindEvent
    <3>4. ASSUME NEW x \in EventIds, ReadTiers(r, x) PROVE req'[r].pc # "tier_insert"
      BY <3>4 DEF ReadTiers
    <3>5. CASE CheckStock(r)
      BY <3>5 DEF CheckStock, Goto, Handlers
    <3> QED  BY <1>5, <3>1, <3>2, <3>3, <3>4, <3>5
  <2> QED  BY <1>3, <2>1, <2>2
<1>6. ASSUME NEW r \in Requests, End(r), event' = event, tier' = tier, venue'[event[e]] = venue[event[e]]
      PROVE  EventBounded(e)'
  <2>1. req'[r].pc # "tier_insert" /\ \A q \in Requests \ {r} : req'[q] = req[q]
    BY <1>6 DEF TypeInv, TypeOK, End, IdleReq
  <2> QED  BY <1>3, <1>6, <2>1
<1>7. ASSUME NEW r \in Requests,
             InsertTickets(r) \/ RejectTier(r) \/ RejectInventory(r) \/ FailRequest(r)
      PROVE  EventBounded(e)'
  BY <1>6, <1>7 DEF InsertTickets, RejectTier, RejectInventory, FailRequest
<1>8. ASSUME NEW r \in Requests, NEW v \in VenueIds, InsertVenue(r, v) PROVE EventBounded(e)'
  <2>1. venue[event[e]] # None /\ event[e] \in VenueIds
    BY <1>2, <1>8 DEF InsertVenue, TypeInv, TypeOK
  <2>2. venue'[event[e]] = venue[event[e]]
    BY <1>8, <2>1 DEF InsertVenue, Fresh, TypeInv, TypeOK
  <2> QED  BY <1>6, <1>8, <2>2 DEF InsertVenue
<1>9. ASSUME NEW r \in Requests, NEW x \in EventIds, InsertEvent(r, x) PROVE EventBounded(e)'
  <2>1. CASE x = e
    BY <1>1, <1>9, <2>1, EventStarts
  <2>2. CASE x # e
    <3>1. event'[e] = event[e] /\ venue' = venue /\ tier' = tier
      BY <1>9, <2>2 DEF InsertEvent, TypeInv, TypeOK
    <3>2. TierRacers(e)' \subseteq TierRacers(e) /\ \A q \in TierRacers(e)' : req'[q] = req[q]
      BY <1>9 DEF InsertEvent, End, IdleReq, TierRacers, TypeInv, TypeOK
    <3>3. event[e] # None /\ EventBounded(e)
      BY <3>1 DEF TiersBounded
    <3> QED  BY <1>1, <3>1, <3>2, <3>3, RacersLeave DEF TiersOf
  <2> QED  BY <2>1, <2>2
<1>10. ASSUME NEW r \in Requests, SumAllocated(r) PROVE EventBounded(e)'
  <2>1. event[e] # None /\ EventBounded(e) /\ UNCHANGED <<venue, event, tier>>
    BY <1>2, <1>10 DEF SumAllocated
  <2>2. CASE req[r].event = e
    BY <1>1, <1>10, <2>1, <2>2, RacerJoins
  <2>3. CASE req[r].event # e
    <3>1. /\ req'[r].event = req[r].event /\ req[r].pc = "tier_sum"
          /\ \A q \in Requests \ {r} : req'[q] = req[q]
      BY <1>10 DEF SumAllocated, Goto, TypeInv, TypeOK, Handlers
    <3>2. TierRacers(e)' \subseteq TierRacers(e) /\ \A q \in TierRacers(e)' : req'[q] = req[q]
      BY <2>3, <3>1 DEF TierRacers
    <3> QED  BY <1>1, <2>1, <3>2, RacersLeave DEF TiersOf
  <2> QED  BY <2>2, <2>3
<1>11. ASSUME NEW r \in Requests, NEW t \in TierIds, InsertTier(r, t) PROVE EventBounded(e)'
  <2>1. event[e] # None /\ EventBounded(e) /\ UNCHANGED <<venue, event>>
    BY <1>2, <1>11 DEF InsertTier
  <2>2. CASE req[r].event = e
    BY <1>1, <1>11, <2>1, <2>2, RacerInserts
  <2>3. CASE req[r].event # e
    <3>1. TierRacers(e)' \subseteq TierRacers(e) /\ \A q \in TierRacers(e)' : req'[q] = req[q]
      BY <1>11 DEF InsertTier, End, IdleReq, TierRacers, TypeInv, TypeOK
    <3>2. /\ tier[t] = None /\ tier'[t].event # e
          /\ \A x \in TierIds \ {t} : tier'[x] = tier[x]
      BY <1>11, <2>3 DEF InsertTier, Fresh, TypeInv, TypeOK
    <3>3. TiersOf(e)' = TiersOf(e) /\ \A x \in TiersOf(e) : tier'[x] = tier[x]
      BY <3>2 DEF TiersOf
    <3> QED  BY <1>1, <2>1, <3>1, <3>3, RacersLeave
  <2> QED  BY <2>2, <2>3
<1> QED  BY <1>4, <1>5, <1>7, <1>8, <1>9, <1>10, <1>11
         DEF Next, CreateVenue, CreateEvent, CreateTier, GenerateInventory

(* However create_tier requests for an event overlap, they oversell it at    *)
(* most as many times as there are handlers.                                 *)
THEOREM AllocationAtMostOncePerHandler == Spec => []AllocationBounded
<1>1. Init => TiersBounded
  BY DEF Init, TiersBounded
<1>2. TypeInv /\ TiersBounded => AllocationBounded
  <2> SUFFICES ASSUME TypeInv, TiersBounded, NEW e \in EventIds, event[e] # None
               PROVE  Allocated(e) <= Cardinality(Requests) * Capacity(e)
    BY DEF AllocationBounded
  <2>1. Allocated(e) + UnderWay(e) <= Cardinality(Requests) * Capacity(e) /\ IsFiniteSet(TiersOf(e))
    BY DEF TiersBounded, EventBounded
  <2>2. Allocated(e) \in Nat /\ UnderWay(e) \in Nat /\ Cardinality(Requests) * Capacity(e) \in Nat
    BY <2>1, EventNumbers
  <2> QED  BY <2>1, <2>2
<1> QED  BY <1>1, <1>2, InitType, NextType, NextTiers, PTL DEF Spec

-----------------------------------------------------------------------------
(* One request at a time *)

(* The guard of create_tier keeps its promise when requests do not overlap:  *)
(* what the documentation says of it holds with a single handler.            *)
THEOREM CapacityRespectedBySingleHandler ==
    ASSUME Cardinality(Requests) = 1
    PROVE  Spec => []CapacityRespected
<1>1. TypeInv /\ AllocationBounded => CapacityRespected
  <2> SUFFICES ASSUME TypeInv, AllocationBounded, NEW e \in EventIds, event[e] # None
               PROVE  Allocated(e) <= Capacity(e)
    BY DEF CapacityRespected
  <2>1. Allocated(e) <= Cardinality(Requests) * Capacity(e) /\ Capacity(e) \in Nat
    BY EventNumbers DEF AllocationBounded
  <2> QED  BY <2>1
<1>2. Spec => []TypeInv
  BY InitType, NextType, PTL DEF Spec
<1> QED  BY <1>1, <1>2, AllocationAtMostOncePerHandler, PTL

(* So does the one of generate_inventory: a tier gets its tickets once.      *)
THEOREM InventoryOnceBySingleHandler ==
    ASSUME Cardinality(Requests) = 1
    PROVE  Spec => []InventoryOnce
<1>1. InventoryBounded => InventoryOnce
  BY DEF InventoryBounded, InventoryOnce
<1> QED  BY <1>1, InventoryAtMostOncePerHandler, PTL

(* A venue's name is unique in its city when a single handler runs: the race *)
(* of two create_venue requests is all that breaks the comment's claim.      *)
THEOREM VenueNameOnceBySingleHandler ==
    ASSUME Cardinality(Requests) = 1
    PROVE  Spec => []VenueNamesUnique
<1>1. TypeInv /\ VenuesBounded => VenueNamesUnique
  <2> SUFFICES ASSUME TypeInv, VenuesBounded, NEW v \in VenueIds, NEW w \in VenueIds,
                      venue[v] # None, venue[w] # None, venue[v].name = venue[w].name
               PROVE  v = w
    BY DEF VenueNamesUnique
  <2> DEFINE n == venue[v].name
             S == VenuesNamed(n)
  <2>1. n \in Names /\ v \in S /\ w \in S
    BY DEF TypeInv, TypeOK, Venues, VenuesNamed
  <2>2. IsFiniteSet(S) /\ Cardinality(S) + Cardinality(NameRacers(n)) <= 1
    BY <2>1 DEF VenuesBounded
  <2>3. NameRacers(n) \in SUBSET Requests
    BY DEF NameRacers
  <2> HIDE DEF S
  <2>4. Cardinality(S) \in Nat /\ (Cardinality(S) = 0 => S = {})
    BY <2>2, FS_CardinalityType, FS_EmptySet
  <2>5. Cardinality(NameRacers(n)) \in Nat
    BY <2>3, RacersFinite
  <2>6. Cardinality(S) = 1
    BY <2>1, <2>2, <2>4, <2>5
  <2>7. PICK x : S = {x}
    BY <2>2, <2>6, FS_Singleton
  <2> QED
    BY <2>1, <2>7
<1> QED
  BY <1>1, VenuesInvariant, PTL
=============================================================================
