------------------------------ MODULE Catalog ------------------------------
(***************************************************************************)
(* Setting up a sale: the handlers create_venue, create_event, create_tier *)
(* and generate_inventory of the ticket service, running concurrently.     *)
(*                                                                         *)
(* Each reads what its guards need in SELECTs that lock nothing, and then  *)
(* inserts and commits in a later statement.  No constraint of the tables  *)
(* repeats a guard, and rows are never changed or deleted, so a step is    *)
(* one SELECT (or several, when all but the last read rows that cannot     *)
(* change any more) or an insert with its commit.  A request that a guard  *)
(* turns away at its first SELECT leaves no trace and is not a step.       *)
(***************************************************************************)
EXTENDS Integers, FiniteSets, Functions

CONSTANTS
    VenueIds,  \* uuids for venues, numbered in the order they are drawn
    EventIds,  \* uuids for events
    TierIds,   \* uuids for tiers
    Names,     \* names of venues, with their cities
    Sizes,     \* what clients give as max_capacity and total_allocated
    Requests,  \* request handlers the server can be running at once
    None       \* no row

ASSUME IdsAssumption == VenueIds \cup EventIds \cup TierIds \subseteq Nat
ASSUME SizesAssumption == Sizes \subseteq Nat \ {0}  \* Field(..., gt=0)
ASSUME RequestsAssumption == IsFiniteSet(Requests)

VARIABLES
    venue,     \* rows of venues
    event,     \* the venue of each event
    tier,      \* rows of ticket_tiers
    batches,   \* how many times total_allocated tickets were inserted for each tier
    req        \* the handlers

vars == <<venue, event, tier, batches, req>>

Venues == [name : Names, capacity : Sizes]
TierRows == [event : EventIds, size : Sizes]

ASSUME NoneAssumption == None \notin Nat \cup Names \cup Venues \cup TierRows

(* A handler: where it is, and what it was given or has read.                *)
Handlers == [pc : {"idle", "venue_insert", "event_insert", "tier_sum", "tier_insert",
                   "stock_check", "stock_insert"},
             name : Names \cup {None}, size : Sizes \cup {0},
             venue : VenueIds \cup {None}, event : EventIds \cup {None}, tiers : SUBSET TierIds]
IdleReq == [pc |-> "idle", name |-> None, size |-> 0, venue |-> None, event |-> None, tiers |-> {}]

Idle(r) == req[r].pc = "idle"
Goto(r, pc) == req' = [req EXCEPT ![r].pc = pc]
End(r) == req' = [req EXCEPT ![r] = IdleReq]

(* uuid4() is in no row: the least unused number stands for it. *)
Fresh(table) == {id \in DOMAIN table : table[id] = None /\ \A x \in DOMAIN table : x < id => table[x] # None}

TiersOf(e) == {t \in TierIds : tier[t] # None /\ tier[t].event = e}
Allocated(e) == SumFunction([t \in TiersOf(e) |-> tier[t].size])
Capacity(e) == venue[event[e]].capacity
HasStock(e) == \E t \in TiersOf(e) : batches[t] > 0

-----------------------------------------------------------------------------
(* POST /venues *)

NameTaken_Never(n) == FALSE
NameTaken(n) == \E v \in VenueIds : venue[v] # None /\ venue[v].name = n

CheckVenue(r, n, c) ==
    /\ Idle(r)
    /\ ~NameTaken(n)
    /\ req' = [req EXCEPT ![r] = [IdleReq EXCEPT !.pc = "venue_insert", !.name = n, !.size = c]]
    /\ UNCHANGED <<venue, event, tier, batches>>

InsertVenue(r, v) ==
    /\ req[r].pc = "venue_insert"
    /\ v \in Fresh(venue)
    /\ venue' = [venue EXCEPT ![v] = [name |-> req[r].name, capacity |-> req[r].size]]
    /\ End(r)
    /\ UNCHANGED <<event, tier, batches>>

-----------------------------------------------------------------------------
(* POST /events *)

FindVenue(r, v) ==
    /\ Idle(r)
    /\ venue[v] # None
    /\ req' = [req EXCEPT ![r] = [IdleReq EXCEPT !.pc = "event_insert", !.venue = v]]
    /\ UNCHANGED <<venue, event, tier, batches>>

InsertEvent(r, e) ==
    /\ req[r].pc = "event_insert"
    /\ e \in Fresh(event)
    /\ event' = [event EXCEPT ![e] = req[r].venue]
    /\ End(r)
    /\ UNCHANGED <<venue, tier, batches>>

-----------------------------------------------------------------------------
(* POST /tiers *)

(* The event and its venue are found. *)
FindEvent(r, e, n) ==
    /\ Idle(r)
    /\ event[e] # None
    /\ req' = [req EXCEPT ![r] = [IdleReq EXCEPT !.pc = "tier_sum", !.event = e, !.size = n]]
    /\ UNCHANGED <<venue, event, tier, batches>>

Fits_Whole(r) == req[r].size <= Capacity(req[r].event)
Fits(r) == Allocated(req[r].event) + req[r].size <= Capacity(req[r].event)

SumAllocated(r) ==
    /\ req[r].pc = "tier_sum"
    /\ Fits(r)
    /\ Goto(r, "tier_insert")
    /\ UNCHANGED <<venue, event, tier, batches>>

RejectTier(r) ==
    /\ req[r].pc = "tier_sum"
    /\ ~Fits(r)
    /\ End(r)
    /\ UNCHANGED <<venue, event, tier, batches>>

InsertTier_OtherEvent(r, t) ==
    /\ req[r].pc = "tier_insert"
    /\ t \in Fresh(tier)
    /\ tier' = [tier EXCEPT ![t] = [event |-> req[r].venue, size |-> req[r].size]]
    /\ End(r)
    /\ UNCHANGED <<venue, event, batches>>

InsertTier(r, t) ==
    /\ req[r].pc = "tier_insert"
    /\ t \in Fresh(tier)
    /\ tier' = [tier EXCEPT ![t] = [event |-> req[r].event, size |-> req[r].size]]
    /\ End(r)
    /\ UNCHANGED <<venue, event, batches>>

-----------------------------------------------------------------------------
(* POST /inventory/generate-inventory *)

ReadTiers_Limit1(r, e) ==
    /\ Idle(r)
    /\ event[e] # None
    /\ \E t \in TiersOf(e) :
          req' = [req EXCEPT ![r] = [IdleReq EXCEPT !.pc = "stock_check", !.event = e, !.tiers = {t}]]
    /\ UNCHANGED <<venue, event, tier, batches>>

(* The event is found and its tiers are read; without tiers the answer is    *)
(* 422.                                                                      *)
ReadTiers(r, e) ==
    /\ Idle(r)
    /\ event[e] # None /\ TiersOf(e) # {}
    /\ req' = [req EXCEPT ![r] = [IdleReq EXCEPT !.pc = "stock_check", !.event = e,
                                                 !.tiers = TiersOf(e)]]
    /\ UNCHANGED <<venue, event, tier, batches>>

CheckStock_Never(r) ==
    /\ req[r].pc = "stock_check"
    /\ Goto(r, "stock_insert")
    /\ UNCHANGED <<venue, event, tier, batches>>

CheckStock(r) ==
    /\ req[r].pc = "stock_check"
    /\ ~HasStock(req[r].event)
    /\ Goto(r, "stock_insert")
    /\ UNCHANGED <<venue, event, tier, batches>>

RejectInventory(r) ==
    /\ req[r].pc = "stock_check"
    /\ HasStock(req[r].event)
    /\ End(r)
    /\ UNCHANGED <<venue, event, tier, batches>>

(* One bulk INSERT for the tiers that were read. *)
InsertTickets(r) ==
    /\ req[r].pc = "stock_insert"
    /\ batches' = [t \in TierIds |-> IF t \in req[r].tiers THEN batches[t] + 1 ELSE batches[t]]
    /\ End(r)
    /\ UNCHANGED <<venue, event, tier>>

(* A statement fails or the connection is lost: the transaction is rolled    *)
(* back.                                                                     *)
FailRequest(r) ==
    /\ ~Idle(r)
    /\ End(r)
    /\ UNCHANGED <<venue, event, tier, batches>>

-----------------------------------------------------------------------------
Init ==
    /\ venue = [v \in VenueIds |-> None]
    /\ event = [e \in EventIds |-> None]
    /\ tier = [t \in TierIds |-> None]
    /\ batches = [t \in TierIds |-> 0]
    /\ req = [r \in Requests |-> IdleReq]

CreateVenue(r) ==
    \/ \E n \in Names, c \in Sizes : CheckVenue(r, n, c)
    \/ \E v \in VenueIds : InsertVenue(r, v)

CreateEvent(r) ==
    \/ \E v \in VenueIds : FindVenue(r, v)
    \/ \E e \in EventIds : InsertEvent(r, e)

CreateTier(r) ==
    \/ \E e \in EventIds, n \in Sizes : FindEvent(r, e, n)
    \/ SumAllocated(r) \/ RejectTier(r)
    \/ \E t \in TierIds : InsertTier(r, t)

GenerateInventory(r) ==
    \/ \E e \in EventIds : ReadTiers(r, e)
    \/ CheckStock(r) \/ RejectInventory(r) \/ InsertTickets(r)

Next == \E r \in Requests : \/ CreateVenue(r) \/ CreateEvent(r) \/ CreateTier(r)
                            \/ GenerateInventory(r) \/ FailRequest(r)

Spec == Init /\ [][Next]_vars
-----------------------------------------------------------------------------
(* Properties *)

(* Every variable has its type, and rows refer to rows that exist. *)
TypeOK ==
    /\ venue \in [VenueIds -> Venues \cup {None}]
    /\ event \in [EventIds -> VenueIds \cup {None}]
    /\ tier \in [TierIds -> TierRows \cup {None}]
    /\ \A e \in EventIds : event[e] # None => venue[event[e]] # None
    /\ \A t \in TierIds : tier[t] # None => event[tier[t].event] # None
    /\ batches \in [TierIds -> Nat]
    /\ \A t \in TierIds : batches[t] > 0 => tier[t] # None
    /\ req \in [Requests -> Handlers]

(* Requests racing through a check that no lock and no constraint backs add  *)
(* at most one effect each to it.  Once a request's effect is committed, no  *)
(* later request passes its check; so an event is oversold at most as many   *)
(* times as there are handlers, and with one handler not at all.             *)
AllocationBounded ==
    \A e \in EventIds : event[e] # None => Allocated(e) <= Cardinality(Requests) * Capacity(e)

(* The same of the tickets generated for a tier.                             *)
InventoryBounded == \A t \in TierIds : batches[t] <= Cardinality(Requests)

(* No tier is passed over: a tier without the tickets that another of its    *)
(* event has is one that was created later, too late for the request that    *)
(* generated them (and, by CheckStock, for every later one).                 *)
OlderFirst ==
    \A s, t \in TierIds :
       (tier[s] # None /\ tier[t] # None /\ tier[s].event = tier[t].event /\ s < t)
       => batches[t] <= batches[s]

(* The same of venues of one name.  It bounds what the race costs and is no  *)
(* substitute for VenueNamesUnique, which the code claims and breaks.        *)
NamesBounded ==
    \A n \in Names : Cardinality({v \in VenueIds : venue[v] # None /\ venue[v].name = n})
                     <= Cardinality(Requests)

(* "Guard: total allocated across all tiers must not exceed venue capacity"  *)
(* (tiers.py:34).                                                            *)
CapacityRespected == \A e \in EventIds : event[e] # None => Allocated(e) <= Capacity(e)

(* "Guard: idempotency -- block re-generation if tickets already exist"      *)
(* (inventory.py:50): a tier gets its tickets once.                          *)
InventoryOnce == \A t \in TierIds : batches[t] <= 1

(* "Guard: name must be unique per city" (venues.py:24).                     *)
VenueNamesUnique ==
    \A v, w \in VenueIds : (venue[v] # None /\ venue[w] # None /\ venue[v].name = venue[w].name) => v = w
=============================================================================
