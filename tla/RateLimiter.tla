---------------------------- MODULE RateLimiter -----------------------------
(***************************************************************************)
(* The sliding-window rate limiter of POST /tickets/lock: rate_limiter of  *)
(* dependencies.py in front of a Lua script that Redis runs atomically on  *)
(* a sorted set per client address.                                        *)
(*                                                                         *)
(* A call reads the clock, awaits Redis, and the script judges it by the   *)
(* time it has read: calls may reach Redis in another order, and late.     *)
(* The client of Redis may send a script again whose answer was lost.      *)
(***************************************************************************)
EXTENDS Integers, FiniteSets

CONSTANTS
    Clients,   \* the people calling
    Keys,      \* the addresses the service can see, one Redis key each
    Address,   \* the address request.client.host shows for each client
    Calls,     \* the calls of a behaviour, each made once
    None,      \* no client yet
    Limit,     \* MAX_REQUESTS
    Window,    \* WINDOW_SECONDS, in ticks
    MaxDelay,  \* bound of the time between a call's clock and its answer
    MaxTime    \* bound of the clock

ASSUME AddressAssumption == Address \in [Clients -> Keys]
ASSUME LimitAssumption == Limit \in Nat /\ Window \in Nat \ {0}
ASSUME TimeAssumption == MaxDelay \in 0 .. Window /\ MaxTime \in Nat

VARIABLES
    call,      \* the handlers
    log,       \* Redis: the members of each key's sorted set
    expires,   \* Redis: when each key is forgotten
    granted,   \* history: the calls whose member was ever added
    now        \* time.time()

vars == <<call, log, expires, granted, now>>

(* A handler: its client, the clock it read (now_ms, the score of its        *)
(* member), and when Redis answered it.                                      *)
Handlers == [pc : {"new", "called", "allowed", "blocked", "failed"},
             client : Clients \cup {None}, stamp : Int, at : Int]
NewCall == [pc |-> "new", client |-> None, stamp |-> 0, at |-> 0]

(* rate_limit:{client_ip} *)
RedisKey_NoAddress(r) == CHOOSE k \in Keys : TRUE
RedisKey(r) == Address[call[r].client]

-----------------------------------------------------------------------------
(* The script *)

(* A key is forgotten when its PEXPIRE is over. *)
Members(k) == IF now > expires[k] THEN {} ELSE log[k]

(* ZREMRANGEBYSCORE key -inf clear_before, by the caller's clock. *)
InWindow(r) == {q \in Members(RedisKey(r)) : call[q].stamp > call[r].stamp - Window}

(* ZCARD *)
HasRoom(r) == Cardinality(InWindow(r)) < Limit

(* ZADD, when there is room. *)
Recorded_Always(r) == InWindow(r) \cup {r}
Recorded(r) == IF HasRoom(r) THEN InWindow(r) \cup {r} ELSE InWindow(r)

(* PEXPIRE, by the clock of Redis. *)
Lifetime_Twice(k) == now + Window * Window
Lifetime_FirstOnly(k) == IF Members(k) = {} THEN now + Window ELSE expires[k]
Lifetime(k) == now + Window

LuaScript(r) ==
    LET k == RedisKey(r) IN
    /\ log' = [log EXCEPT ![k] = Recorded(r)]
    /\ expires' = IF HasRoom(r) THEN [expires EXCEPT ![k] = Lifetime(k)] ELSE expires
    /\ granted' = IF HasRoom(r) THEN granted \cup {r} ELSE granted

-----------------------------------------------------------------------------
(* rate_limiter *)

ReadClock(r, c) ==
    /\ call[r].pc = "new"
    /\ call' = [call EXCEPT ![r] = [pc |-> "called", client |-> c, stamp |-> now, at |-> now]]
    /\ UNCHANGED <<log, expires, granted, now>>

Allow(r) ==
    /\ call[r].pc = "called"
    /\ HasRoom(r)
    /\ LuaScript(r)
    /\ call' = [call EXCEPT ![r].pc = "allowed", ![r].at = now]
    /\ UNCHANGED now

Block(r) ==
    /\ call[r].pc = "called"
    /\ ~HasRoom(r)
    /\ LuaScript(r)
    /\ call' = [call EXCEPT ![r].pc = "blocked", ![r].at = now]
    /\ UNCHANGED now

(* The script ran but its answer was lost; the call still waits, and its     *)
(* script may be sent again with the same arguments.                         *)
LoseAnswer(r) ==
    /\ call[r].pc = "called"
    /\ LuaScript(r)
    /\ UNCHANGED <<call, now>>

(* Redis cannot be reached: eval raises, and the call is answered 500. *)
Fail(r) ==
    /\ call[r].pc = "called"
    /\ call' = [call EXCEPT ![r].pc = "failed", ![r].at = now]
    /\ UNCHANGED <<log, expires, granted, now>>

(* Time passes; no call waits longer than MaxDelay. *)
Tick ==
    /\ now < MaxTime
    /\ \A r \in Calls : call[r].pc = "called" => now < call[r].stamp + MaxDelay
    /\ now' = now + 1
    /\ UNCHANGED <<call, log, expires, granted>>

Init ==
    /\ call = [r \in Calls |-> NewCall]
    /\ log = [k \in Keys |-> {}]
    /\ expires = [k \in Keys |-> 0]
    /\ granted = {}
    /\ now = 0

Next ==
    \/ \E r \in Calls : \/ \E c \in Clients : ReadClock(r, c)
                        \/ Allow(r) \/ Block(r) \/ LoseAnswer(r) \/ Fail(r)
    \/ Tick

Spec == Init /\ [][Next]_vars
-----------------------------------------------------------------------------
(* Properties *)

(* Every variable has its type; a key lives no longer than a window, and     *)
(* only granted calls of an address are members of its key.                  *)
TypeOK ==
    /\ call \in [Calls -> Handlers]
    /\ granted \subseteq Calls
    /\ log \in [Keys -> SUBSET granted]
    /\ \A k \in Keys : \A q \in log[k] : RedisKey(q) = k
    /\ expires \in [Keys -> 0 .. now + Window]
    /\ now \in 0 .. MaxTime

(* The calls of an address allowed in the interval of length n that ends now. *)
AllowedWithin(k, n) ==
    {q \in Calls : call[q].pc = "allowed" /\ RedisKey(q) = k /\ call[q].at > now - n}

(* No rolling interval lets more than Limit calls of an address through.     *)
(* Calls are judged by a clock they read before they reached Redis, so what  *)
(* the code achieves is a window shorter by that delay, whatever the order   *)
(* in which Redis sees the calls, however often it sees one, and although    *)
(* the key expires.                                                          *)
RollingLimit == \A k \in Keys : Cardinality(AllowedWithin(k, Window - MaxDelay)) <= Limit

(* Nobody is blocked without cause: when a call is answered 429, Limit calls *)
(* of its address took a place in the window before it.  Blocked calls take  *)
(* no place, so a client that keeps trying does not prolong its own ban.     *)
Cause(r) == {q \in granted : RedisKey(q) = RedisKey(r) /\ call[q].stamp > call[r].stamp - Window}
BlockedWithCause ==
    [][\A r \in Calls : (call[r].pc = "called" /\ call'[r].pc = "blocked")
                        => Cardinality(Cause(r)) >= Limit]_vars

(* "If IP-A is blocked, IP-B should still be able to make requests"          *)
(* (tests/test_rate_limit.py:90): a client is answered 429 for what it did   *)
(* itself and not for the calls of others, that is, Limit calls granted in   *)
(* the window before the blocked one are its own.  (The blocked call's own   *)
(* first run is among them when its script was sent a second time.)          *)
Own(r) ==
    {q \in granted : call[q].client = call[r].client /\ call[q].stamp > call[r].stamp - Window}
ClientIsolation ==
    \A r \in Calls : call[r].pc = "blocked" => Cardinality(Own(r)) >= Limit
=============================================================================
