------------------------- MODULE RateLimiterProofs --------------------------
(***************************************************************************)
(* Proofs about RateLimiter for every number of clients, addresses and     *)
(* calls, and every limit, window and delay.                               *)
(***************************************************************************)
EXTENDS RateLimiter, FiniteSetTheorems, TLAPS

(* What a handler knows is recent: a waiting call's clock is at most         *)
(* MaxDelay old, and so was an allowed call's when it was answered.          *)
CallsTimed ==
    \A r \in Calls :
       /\ call[r].pc # "new" => call[r].client \in Clients
       /\ r \in granted => call[r].pc # "new"
       /\ call[r].pc = "called" => call[r].stamp <= now /\ now <= call[r].stamp + MaxDelay
       /\ call[r].pc = "allowed" => call[r].at <= call[r].stamp + MaxDelay

(* A key never holds more than Limit members. *)
LogBounded ==
    /\ IsFiniteSet(granted)
    /\ \A k \in Keys : Cardinality(log[k]) <= Limit

(* Redis still knows every call that was allowed recently: its key has not   *)
(* expired and no script has removed its member.                             *)
Recent(q) == call[q].at > now - (Window - MaxDelay)
Remembered ==
    \A q \in Calls : call[q].pc = "allowed" =>
       /\ call[q].at + Window <= expires[RedisKey(q)]
       /\ Recent(q) => q \in log[RedisKey(q)]

RateInv == TypeOK /\ CallsTimed /\ LogBounded /\ Remembered

-----------------------------------------------------------------------------
(* Members of a key are granted calls, finitely many. *)
LEMMA MembersGranted ==
    ASSUME TypeOK, LogBounded, NEW k \in Keys
    PROVE  /\ Members(k) \subseteq log[k]
           /\ log[k] \subseteq granted
           /\ IsFiniteSet(log[k])
           /\ Cardinality(log[k]) \in Nat
<1>1. log[k] \subseteq granted
  BY DEF TypeOK
<1>2. IsFiniteSet(log[k])
  BY <1>1, FS_Subset DEF LogBounded
<1>3. Cardinality(log[k]) \in Nat
  BY <1>2, FS_CardinalityType
<1> QED
  BY <1>1, <1>2, <1>3 DEF Members

(* What one run of the script does: it adds at most its caller, in its own   *)
(* key and only when there is room, and forgets no member whose clock is     *)
(* less than a window old.                                                   *)
LEMMA ScriptEffect ==
    ASSUME RateInv, NEW r \in Calls, call[r].pc = "called", LuaScript(r)
    PROVE  /\ granted' \subseteq Calls /\ IsFiniteSet(granted')
           /\ granted \subseteq granted' /\ granted' \subseteq granted \cup {r}
           /\ log' \in [Keys -> SUBSET granted']
           /\ \A k \in Keys : log'[k] \subseteq log[k] \cup {r}
           /\ \A k \in Keys : r \in log'[k] => k = RedisKey(r)
           /\ \A k \in Keys : Cardinality(log'[k]) <= Limit
           /\ expires' \in [Keys -> 0 .. now + Window]
           /\ \A k \in Keys : expires[k] <= expires'[k]
           /\ \A k \in Keys : \A q \in log[k] :
                 (call[q].stamp > now - Window /\ now <= expires[k]) => q \in log'[k]
           /\ HasRoom(r) => /\ r \in log'[RedisKey(r)]
                            /\ expires'[RedisKey(r)] = now + Window
<1> DEFINE k0 == RedisKey(r)
<1> USE DEF RateInv
<1>1. k0 \in Keys
  BY AddressAssumption DEF CallsTimed, RedisKey
<1>2. /\ Members(k0) \subseteq log[k0] /\ log[k0] \subseteq granted
      /\ IsFiniteSet(log[k0]) /\ Cardinality(log[k0]) \in Nat
  BY <1>1, MembersGranted
<1>3. InWindow(r) \subseteq log[k0]
  BY <1>2 DEF InWindow
<1>4. IsFiniteSet(InWindow(r)) /\ Cardinality(InWindow(r)) <= Cardinality(log[k0])
  BY <1>2, <1>3, FS_Subset
<1>5. Cardinality(InWindow(r)) \in Nat
  BY <1>4, FS_CardinalityType
<1>6. Cardinality(Recorded(r)) <= Limit
  <2>1. CASE HasRoom(r)
    <3>1. Cardinality(InWindow(r) \cup {r})
            = IF r \in InWindow(r) THEN Cardinality(InWindow(r)) ELSE Cardinality(InWindow(r)) + 1
      BY <1>4, FS_AddElement, Zenon
    <3>2. Cardinality(InWindow(r)) < Limit
      BY <2>1 DEF HasRoom
    <3>3. Cardinality(InWindow(r) \cup {r}) <= Limit
      BY <3>1, <3>2, <1>5, LimitAssumption
    <3> QED
      BY <2>1, <3>3 DEF Recorded
  <2>2. CASE ~HasRoom(r)
    BY <2>2, <1>1, <1>2, <1>4, <1>5, LimitAssumption DEF Recorded, LogBounded
  <2> QED
    BY <2>1, <2>2
<1>7. /\ granted' \subseteq Calls
      /\ granted \subseteq granted' /\ granted' \subseteq granted \cup {r}
      /\ HasRoom(r) => r \in granted'
  BY DEF LuaScript, TypeOK
<1>8. IsFiniteSet(granted')
  BY FS_AddElement DEF LuaScript, LogBounded
<1>9. log \in [Keys -> SUBSET granted] /\ log' = [log EXCEPT ![k0] = Recorded(r)]
  BY DEF TypeOK, LuaScript
<1>10. Recorded(r) \subseteq log[k0] \cup {r} /\ (r \in Recorded(r) => HasRoom(r) \/ r \in log[k0])
  BY <1>3 DEF Recorded
<1>11. log' \in [Keys -> SUBSET granted']
  BY <1>1, <1>2, <1>7, <1>9, <1>10 DEF Recorded
<1>12. \A k \in Keys : log'[k] \subseteq log[k] \cup {r}
  BY <1>1, <1>9, <1>10
<1>13. \A k \in Keys : r \in log'[k] => k = k0
  BY <1>1, <1>9 DEF TypeOK
<1>14. \A k \in Keys : Cardinality(log'[k]) <= Limit
  BY <1>1, <1>6, <1>9 DEF LogBounded
<1>15. expires \in [Keys -> 0 .. now + Window] /\ now \in Nat
  BY DEF TypeOK
<1>16. /\ expires' \in [Keys -> 0 .. now + Window]
       /\ \A k \in Keys : expires[k] <= expires'[k]
       /\ HasRoom(r) => expires'[k0] = now + Window
  BY <1>1, <1>15, LimitAssumption DEF LuaScript, Lifetime
<1>17. ASSUME NEW k \in Keys, NEW q \in log[k], call[q].stamp > now - Window, now <= expires[k]
       PROVE  q \in log'[k]
  <2>1. CASE k # k0
    BY <2>1, <1>1, <1>9
  <2>2. CASE k = k0
    <3>1. q \in Members(k0)
      BY <2>2, <1>15, <1>17 DEF Members
    <3>2. /\ call[r].stamp \in Int /\ call[q].stamp \in Int
          /\ call[r].stamp <= now
      BY <1>2, <1>17, <2>2 DEF TypeOK, Handlers, CallsTimed
    <3>3. call[q].stamp > call[r].stamp - Window
      BY <3>2, <1>15, <1>17, LimitAssumption
    <3> QED
      BY <1>1, <1>9, <2>2, <3>1, <3>3 DEF InWindow, Recorded
  <2> QED
    BY <2>1, <2>2
<1>18. HasRoom(r) => r \in log'[k0]
  BY <1>1, <1>9 DEF Recorded
<1> QED
  BY <1>7, <1>8, <1>11, <1>12, <1>13, <1>14, <1>16, <1>17, <1>18

-----------------------------------------------------------------------------
(* RateInv holds initially. *)
LEMMA InitRate == Init => RateInv
<1> SUFFICES ASSUME Init PROVE RateInv
  OBVIOUS
<1> USE DEF Init
<1>1. TypeOK
  BY LimitAssumption, TimeAssumption DEF TypeOK, Handlers, NewCall
<1>2. CallsTimed /\ Remembered
  BY DEF CallsTimed, Remembered, NewCall
<1>3. LogBounded
  BY FS_EmptySet, LimitAssumption DEF LogBounded
<1> QED
  BY <1>1, <1>2, <1>3 DEF RateInv

(* A recently allowed call is still known after a script of another. *)
LEMMA ScriptRemembers ==
    ASSUME RateInv, NEW r \in Calls, call[r].pc = "called", LuaScript(r),
           NEW q \in Calls, call[q].pc = "allowed"
    PROVE  /\ RedisKey(q) \in Keys
           /\ call[q].at + Window <= expires'[RedisKey(q)]
           /\ Recent(q) => q \in log'[RedisKey(q)]
<1> DEFINE k == RedisKey(q)
<1> USE DEF RateInv
<1>1. k \in Keys
  BY AddressAssumption DEF CallsTimed, RedisKey
<1>2. /\ call[q].at \in Int /\ call[q].stamp \in Int /\ now \in Nat
      /\ expires[k] \in Int /\ MaxDelay \in Int /\ Window \in Int
      /\ 0 <= MaxDelay
  BY <1>1, LimitAssumption, TimeAssumption DEF TypeOK, Handlers
<1>3. call[q].at + Window <= expires[k] /\ (Recent(q) => q \in log[k])
  BY DEF Remembered
<1>4. /\ expires[k] <= expires'[k] /\ expires'[k] \in Int
      /\ \A x \in log[k] : (call[x].stamp > now - Window /\ now <= expires[k]) => x \in log'[k]
  <2> HIDE DEF RateInv
  <2>1. expires' \in [Keys -> 0 .. now + Window]
    BY ScriptEffect
  <2>2. /\ expires[k] <= expires'[k]
        /\ \A x \in log[k] : (call[x].stamp > now - Window /\ now <= expires[k]) => x \in log'[k]
    BY <1>1, ScriptEffect
  <2> QED
    BY <1>1, <2>1, <2>2
<1>5. call[q].at + Window <= expires'[k]
  BY <1>2, <1>3, <1>4
<1>6. ASSUME Recent(q) PROVE q \in log'[k]
  <2>1. call[q].at <= call[q].stamp + MaxDelay
    BY DEF CallsTimed
  <2>2. call[q].stamp > now - Window /\ now <= expires[k]
    BY <1>2, <1>3, <1>6, <2>1 DEF Recent
  <2> QED
    BY <1>3, <1>4, <1>6, <2>2
<1> QED
  BY <1>1, <1>5, <1>6

(* Allow and Block: the script runs and its answer arrives. *)
LEMMA AnswerRate ==
    ASSUME RateInv, NEW r \in Calls, NEW pc \in {"allowed", "blocked"},
           call[r].pc = "called", LuaScript(r), pc = "allowed" => HasRoom(r),
           call' = [call EXCEPT ![r].pc = pc, ![r].at = now], now' = now
    PROVE  RateInv'
<1>1. /\ call \in [Calls -> Handlers] /\ now \in Nat /\ now \in Int
      /\ granted \subseteq Calls
      /\ \A k \in Keys : \A q \in log[k] : q \in Calls /\ RedisKey(q) = k
      /\ now \in 0 .. MaxTime
  BY DEF RateInv, TypeOK
<1>2. call' \in [Calls -> Handlers]
  BY <1>1 DEF Handlers
<1>3. \A q \in Calls : /\ call'[q].client = call[q].client
                       /\ call'[q].stamp = call[q].stamp
                       /\ q # r => call'[q] = call[q]
                       /\ RedisKey(q)' = RedisKey(q)
  BY <1>1 DEF Handlers, RedisKey
<1>4. call'[r].pc = pc /\ call'[r].at = now
  BY <1>1 DEF Handlers
<1>5. TypeOK'
  <2>1. \A k \in Keys : \A q \in log'[k] : RedisKey(q)' = k
    BY <1>1, <1>3, ScriptEffect
  <2> QED
    BY <1>1, <1>2, <2>1, ScriptEffect DEF TypeOK
<1>6. CallsTimed'
  <2> SUFFICES ASSUME NEW q \in Calls
               PROVE  /\ call'[q].pc # "new" => call'[q].client \in Clients
                      /\ q \in granted' => call'[q].pc # "new"
                      /\ call'[q].pc = "called" => call'[q].stamp <= now' /\ now' <= call'[q].stamp + MaxDelay
                      /\ call'[q].pc = "allowed" => call'[q].at <= call'[q].stamp + MaxDelay
    BY DEF CallsTimed
  <2>1. granted' \subseteq granted \cup {r}
    BY ScriptEffect
  <2>2. CASE q = r
    BY <1>3, <1>4, <2>2 DEF RateInv, CallsTimed
  <2>3. CASE q # r
    BY <1>3, <2>1, <2>3 DEF RateInv, CallsTimed
  <2> QED
    BY <2>2, <2>3
<1>7. LogBounded'
  BY ScriptEffect DEF LogBounded
<1>8. Remembered'
  <2> SUFFICES ASSUME NEW q \in Calls, call'[q].pc = "allowed"
               PROVE  /\ call'[q].at + Window <= expires'[RedisKey(q)']
                      /\ Recent(q)' => q \in log'[RedisKey(q)']
    BY DEF Remembered
  <2>1. CASE q = r
    <3>1. r \in log'[RedisKey(r)] /\ expires'[RedisKey(r)] = now + Window
      BY <1>4, <2>1, ScriptEffect
    <3> QED
      BY <1>1, <1>3, <1>4, <2>1, <3>1, LimitAssumption
  <2>2. CASE q # r
    <3>1. call[q].pc = "allowed" /\ call'[q].at = call[q].at /\ RedisKey(q)' = RedisKey(q)
      BY <1>3, <2>2
    <3>2. Recent(q)' <=> Recent(q)
      BY <3>1 DEF Recent
    <3> QED
      BY <3>1, <3>2, ScriptRemembers
  <2> QED
    BY <2>1, <2>2
<1> QED
  BY <1>5, <1>6, <1>7, <1>8 DEF RateInv

(* LoseAnswer: the script runs and the call goes on waiting. *)
LEMMA LoseAnswerRate ==
    ASSUME RateInv, NEW r \in Calls, LoseAnswer(r)
    PROVE  RateInv'
<1>1. /\ call[r].pc = "called" /\ LuaScript(r)
      /\ call' = call /\ now' = now
  BY DEF LoseAnswer
<1>2. \A q \in Calls : RedisKey(q)' = RedisKey(q) /\ (Recent(q)' <=> Recent(q))
  BY <1>1 DEF RedisKey, Recent
<1>3. TypeOK'
  <2>1. \A k \in Keys : log[k] \subseteq Calls /\ \A q \in log[k] : RedisKey(q) = k
    BY DEF RateInv, TypeOK
  <2>2. \A k \in Keys : \A q \in log'[k] : RedisKey(q)' = k
    BY <1>1, <1>2, <2>1, ScriptEffect
  <2> QED
    BY <1>1, <2>2, ScriptEffect DEF RateInv, TypeOK
<1>4. CallsTimed'
  BY <1>1, ScriptEffect DEF RateInv, CallsTimed
<1>5. LogBounded'
  BY <1>1, ScriptEffect DEF LogBounded
<1>6. Remembered'
  BY <1>1, <1>2, ScriptRemembers DEF Remembered
<1> QED
  BY <1>3, <1>4, <1>5, <1>6 DEF RateInv

(* ReadClock and Fail: a handler moves, Redis does not. *)
LEMMA HandlerRate ==
    ASSUME RateInv, NEW r \in Calls, NEW c \in Clients, ReadClock(r, c) \/ Fail(r)
    PROVE  RateInv'
<1>1. /\ call \in [Calls -> Handlers] /\ now \in Nat
      /\ log \in [Keys -> SUBSET granted] /\ granted \subseteq Calls
      /\ UNCHANGED <<log, expires, granted, now>>
  BY DEF RateInv, TypeOK, ReadClock, Fail
<1>2. /\ call' \in [Calls -> Handlers]
      /\ \A q \in Calls : q # r => call'[q] = call[q]
  BY <1>1 DEF Handlers, ReadClock, Fail
<1>3. /\ call'[r].client \in Clients
      /\ call'[r].pc = "failed" \/ (call'[r].pc = "called" /\ call'[r].stamp = now)
      /\ r \in granted => call'[r].client = call[r].client
  BY <1>1 DEF Handlers, ReadClock, Fail, RateInv, CallsTimed
<1>4. \A q \in Calls : /\ q # r \/ q \in granted => RedisKey(q)' = RedisKey(q)
                       /\ q # r => (Recent(q)' <=> Recent(q))
  BY <1>1, <1>2, <1>3 DEF RedisKey, Recent
<1>5. TypeOK'
  BY <1>1, <1>2, <1>4 DEF RateInv, TypeOK
<1>6. CallsTimed'
  <2> SUFFICES ASSUME NEW q \in Calls
               PROVE  /\ call'[q].pc # "new" => call'[q].client \in Clients
                      /\ q \in granted' => call'[q].pc # "new"
                      /\ call'[q].pc = "called" => call'[q].stamp <= now' /\ now' <= call'[q].stamp + MaxDelay
                      /\ call'[q].pc = "allowed" => call'[q].at <= call'[q].stamp + MaxDelay
    BY DEF CallsTimed
  <2>1. CASE q = r
    BY <1>1, <1>3, <2>1, TimeAssumption
  <2>2. CASE q # r
    BY <1>1, <1>2, <2>2 DEF RateInv, CallsTimed
  <2> QED
    BY <2>1, <2>2
<1>7. LogBounded'
  BY <1>1 DEF RateInv, LogBounded
<1>8. Remembered'
  BY <1>1, <1>2, <1>3, <1>4 DEF RateInv, Remembered
<1> QED
  BY <1>5, <1>6, <1>7, <1>8 DEF RateInv

(* Tick: what is no longer recent need not be remembered, and the rest is as *)
(* young as the clock that waits for the calls.                              *)
LEMMA TickRate ==
    ASSUME RateInv, Tick
    PROVE  RateInv'
<1>1. /\ UNCHANGED <<call, log, expires, granted>>
      /\ now' = now + 1 /\ now < MaxTime /\ now \in Nat
      /\ \A r \in Calls : call[r].pc = "called" => now < call[r].stamp + MaxDelay
      /\ MaxDelay \in Int /\ Window \in Int /\ MaxTime \in Int
      /\ call \in [Calls -> Handlers]
  BY LimitAssumption, TimeAssumption DEF Tick, RateInv, TypeOK
<1>2. \A q \in Calls : /\ RedisKey(q)' = RedisKey(q)
                       /\ call[q].stamp \in Int /\ call[q].at \in Int
  BY <1>1 DEF RedisKey, Handlers
<1>3. \A q \in Calls : Recent(q)' => Recent(q)
  BY <1>1, <1>2 DEF Recent
<1>4. TypeOK'
  <2>1. expires \in [Keys -> 0 .. now + Window]
    BY DEF RateInv, TypeOK
  <2>2. expires' \in [Keys -> 0 .. now' + Window]
    BY <1>1, <2>1
  <2> QED
    BY <1>1, <1>2, <2>2 DEF RateInv, TypeOK
<1>5. CallsTimed'
  BY <1>1, <1>2 DEF RateInv, CallsTimed
<1>6. LogBounded'
  BY <1>1 DEF RateInv, LogBounded
<1>7. Remembered'
  BY <1>1, <1>2, <1>3 DEF RateInv, Remembered
<1> QED
  BY <1>4, <1>5, <1>6, <1>7 DEF RateInv

(* RateInv is inductive. *)
LEMMA NextRate == RateInv /\ [Next]_vars => RateInv'
<1> SUFFICES ASSUME RateInv, [Next]_vars PROVE RateInv'
  OBVIOUS
<1>1. ASSUME NEW r \in Calls, NEW c \in Clients, ReadClock(r, c) PROVE RateInv'
  BY <1>1, HandlerRate
<1>2. ASSUME NEW r \in Calls, Fail(r) PROVE RateInv'
  <2>1. call[r].pc = "called" /\ call[r].client \in Clients
    BY <1>2 DEF Fail, RateInv, CallsTimed
  <2> QED
    BY <1>2, <2>1, HandlerRate
<1>3. ASSUME NEW r \in Calls, Allow(r) PROVE RateInv'
  BY <1>3, AnswerRate DEF Allow
<1>4. ASSUME NEW r \in Calls, Block(r) PROVE RateInv'
  BY <1>4, AnswerRate DEF Block
<1>5. ASSUME NEW r \in Calls, LoseAnswer(r) PROVE RateInv'
  BY <1>5, LoseAnswerRate
<1>6. CASE Tick
  BY <1>6, TickRate
<1>7. CASE UNCHANGED vars
  BY <1>7 DEF vars, RateInv, TypeOK, CallsTimed, LogBounded, Remembered, Recent, RedisKey
<1> QED
  BY <1>1, <1>2, <1>3, <1>4, <1>5, <1>6, <1>7 DEF Next

-----------------------------------------------------------------------------
(* What the limiter keeps true: types, recent clocks, a bounded log, and a   *)
(* log that still knows every recently allowed call.                         *)
THEOREM RateInvariant == Spec => []RateInv
<1> QED
  BY InitRate, NextRate, PTL DEF Spec

(* Every reachable state has its type. *)
THEOREM TypeCorrect == Spec => []TypeOK
<1>1. RateInv => TypeOK
  BY DEF RateInv
<1> QED
  BY <1>1, RateInvariant, PTL

(* No rolling interval of Window - MaxDelay ticks lets more than Limit calls *)
(* of an address through: all of them are still members of its key.          *)
THEOREM LimitHolds == Spec => []RollingLimit
<1>1. RateInv => RollingLimit
  <2> SUFFICES ASSUME RateInv, NEW k \in Keys
               PROVE  Cardinality(AllowedWithin(k, Window - MaxDelay)) <= Limit
    BY DEF RollingLimit
  <2>1. IsFiniteSet(log[k]) /\ Cardinality(log[k]) \in Nat
    BY MembersGranted DEF RateInv
  <2>2. AllowedWithin(k, Window - MaxDelay) \subseteq log[k]
    BY DEF RateInv, Remembered, Recent, AllowedWithin
  <2>3. /\ IsFiniteSet(AllowedWithin(k, Window - MaxDelay))
        /\ Cardinality(AllowedWithin(k, Window - MaxDelay)) <= Cardinality(log[k])
    BY <2>1, <2>2, FS_Subset
  <2>4. Cardinality(AllowedWithin(k, Window - MaxDelay)) \in Nat
    BY <2>3, FS_CardinalityType
  <2>5. Cardinality(log[k]) <= Limit
    BY DEF RateInv, LogBounded
  <2> QED
    BY <2>1, <2>3, <2>4, <2>5, LimitAssumption
<1> QED
  BY <1>1, RateInvariant, PTL

-----------------------------------------------------------------------------
(* Every interval, and the whole window                                      *)

(* The calls of an address allowed in the interval of length n that ended at *)
(* e.  Calls are made once, so those allowed are remembered for good.        *)
AllowedUpTo(k, e, n) ==
    {q \in Calls : /\ call[q].pc = "allowed" /\ RedisKey(q) = k
                   /\ call[q].at > e - n /\ call[q].at <= e}

AnswersPast == \A q \in Calls : call[q].pc = "allowed" => call[q].at \in 0 .. now

EveryInterval ==
    \A k \in Keys, e \in 0 .. now : LET S == AllowedUpTo(k, e, Window - MaxDelay)
                                   IN IsFiniteSet(S) /\ Cardinality(S) <= Limit

(* An allowed call was allowed before, or it is now.                         *)
LEMMA AllowedStep ==
    ASSUME RateInv, [Next]_vars, NEW q \in Calls, call'[q].pc = "allowed"
    PROVE  /\ now' = now \/ now' = now + 1
           /\ \/ call'[q] = call[q] /\ RedisKey(q)' = RedisKey(q)
              \/ now' = now /\ call'[q].at = now
<1> USE DEF RateInv, TypeOK
<1>1. ASSUME NEW r \in Calls, NEW c \in Clients, ReadClock(r, c) PROVE call'[q] = call[q] /\ now' = now
  BY <1>1 DEF ReadClock
<1>2. ASSUME NEW r \in Calls, Allow(r) \/ Block(r) \/ Fail(r)
      PROVE  now' = now /\ (call'[q] = call[q] \/ call'[q].at = now)
  BY <1>2 DEF Allow, Block, Fail, Handlers
<1>3. ASSUME NEW r \in Calls, LoseAnswer(r) PROVE call'[q] = call[q] /\ now' = now
  BY <1>3 DEF LoseAnswer
<1>4. CASE Tick \/ UNCHANGED vars
  BY <1>4 DEF Tick, vars, RedisKey
<1>5. call'[q] = call[q] => RedisKey(q)' = RedisKey(q)
  BY DEF RedisKey
<1> QED
  BY <1>1, <1>2, <1>3, <1>4, <1>5 DEF Next

LEMMA NextInterval ==
    ASSUME RateInv, RateInv', RollingLimit', AnswersPast, EveryInterval, [Next]_vars
    PROVE  AnswersPast' /\ EveryInterval'
<1>1. now \in Nat /\ now' \in Nat /\ (now' = now \/ now' = now + 1)
  <2>1. now' = now \/ now' = now + 1
    BY DEF Next, vars, ReadClock, Allow, Block, LoseAnswer, Fail, Tick
  <2> QED
    BY <2>1 DEF RateInv, TypeOK
<1>2. AnswersPast'
  <2> SUFFICES ASSUME NEW q \in Calls, call'[q].pc = "allowed" PROVE call'[q].at \in 0 .. now'
    BY DEF AnswersPast
  <2>1. CASE call'[q] = call[q]
    BY <1>1, <2>1 DEF AnswersPast
  <2>2. CASE call'[q].at = now /\ now' = now
    BY <1>1, <2>2
  <2> QED
    BY <2>1, <2>2, AllowedStep
<1>3. ASSUME NEW k \in Keys, NEW e \in 0 .. now'
      PROVE  LET S == AllowedUpTo(k, e, Window - MaxDelay)'
             IN IsFiniteSet(S) /\ Cardinality(S) <= Limit
  <2> DEFINE S == AllowedUpTo(k, e, Window - MaxDelay)'
  <2>1. CASE e = now'
    <3> DEFINE W == AllowedWithin(k, Window - MaxDelay)'
    <3>1. S \subseteq W /\ Cardinality(W) <= Limit
      BY <2>1 DEF AllowedUpTo, AllowedWithin, RollingLimit
    <3>2. IsFiniteSet(log'[k])
      <4>1. log'[k] \subseteq granted' /\ IsFiniteSet(granted')
        BY DEF RateInv, TypeOK, LogBounded
      <4> QED
        BY <4>1, FS_Subset
    <3>3. W \subseteq log'[k]
      BY DEF RateInv, Remembered, Recent, AllowedWithin
    <3> HIDE DEF S, W
    <3>4. IsFiniteSet(W) /\ IsFiniteSet(S) /\ Cardinality(S) <= Cardinality(W)
      BY <3>1, <3>2, <3>3, FS_Subset
    <3>5. Cardinality(W) \in Nat /\ Cardinality(S) \in Nat
      BY <3>4, FS_CardinalityType
    <3> QED
      BY <3>1, <3>4, <3>5, LimitAssumption DEF S
  <2>2. CASE e # now'
    <3> DEFINE T == AllowedUpTo(k, e, Window - MaxDelay)
    <3>1. e \in 0 .. now
      BY <1>1, <2>2
    <3>2. IsFiniteSet(T) /\ Cardinality(T) <= Limit
      BY <3>1 DEF EveryInterval
    <3>3. S \subseteq T
      <4> SUFFICES ASSUME NEW q \in Calls, call'[q].pc = "allowed", RedisKey(q)' = k,
                          call'[q].at > e - (Window - MaxDelay), call'[q].at <= e
                   PROVE  q \in T
        BY DEF AllowedUpTo
      <4>1. CASE call'[q] = call[q] /\ RedisKey(q)' = RedisKey(q)
        BY <4>1 DEF AllowedUpTo
      <4>2. CASE call'[q].at = now /\ now' = now
        BY <1>1, <2>2, <3>1, <4>2
      <4> QED
        BY <4>1, <4>2, AllowedStep
    <3> HIDE DEF S, T
    <3>4. IsFiniteSet(S) /\ Cardinality(S) <= Cardinality(T)
      BY <3>2, <3>3, FS_Subset
    <3>5. Cardinality(T) \in Nat /\ Cardinality(S) \in Nat
      BY <3>2, <3>4, FS_CardinalityType
    <3> QED
      BY <3>2, <3>4, <3>5, LimitAssumption DEF S
  <2> QED
    BY <2>1, <2>2
<1> QED
  BY <1>2, <1>3 DEF EveryInterval

LEMMA IntervalInvariant == Spec => [](RateInv /\ AnswersPast /\ EveryInterval)
<1>1. Init => AnswersPast
  BY DEF Init, NewCall, AnswersPast
<1>2. Init => EveryInterval
  <2> SUFFICES ASSUME Init, NEW k \in Keys, NEW e \in 0 .. now
               PROVE  LET S == AllowedUpTo(k, e, Window - MaxDelay)
                      IN IsFiniteSet(S) /\ Cardinality(S) <= Limit
    BY DEF EveryInterval
  <2>1. AllowedUpTo(k, e, Window - MaxDelay) = {}
    BY DEF Init, NewCall, AllowedUpTo
  <2> QED
    BY <2>1, FS_EmptySet, LimitAssumption
<1>3. RateInv /\ RateInv' /\ RollingLimit' /\ AnswersPast /\ EveryInterval /\ [Next]_vars
        => AnswersPast' /\ EveryInterval'
  BY NextInterval
<1> QED
  BY <1>1, <1>2, <1>3, RateInvariant, LimitHolds, PTL DEF Spec

(* What a client can do with the slack: in a whole window, wherever it lies, *)
(* an address gets at most twice its limit through (and that it can, when    *)
(* calls are delayed), as long as calls take no more than half the window.   *)
WholeWindow ==
    \A k \in Keys, e \in 0 .. now : Cardinality(AllowedUpTo(k, e, Window)) <= 2 * Limit

THEOREM TwiceTheLimitAtMost ==
    ASSUME 2 * MaxDelay <= Window
    PROVE  Spec => []WholeWindow
<1>1. RateInv /\ AnswersPast /\ EveryInterval => WholeWindow
  <2> SUFFICES ASSUME RateInv, AnswersPast, EveryInterval, NEW k \in Keys, NEW e \in 0 .. now
               PROVE  Cardinality(AllowedUpTo(k, e, Window)) <= 2 * Limit
    BY DEF WholeWindow
  <2> DEFINE n == Window - MaxDelay
             S == AllowedUpTo(k, e, n)
             T == AllowedUpTo(k, e - n, n)
             U == AllowedUpTo(k, e, Window)
  <2>1. n \in Nat /\ Window <= n + n /\ e \in Nat /\ now \in Nat /\ Limit \in Nat /\ Window \in Nat
    BY LimitAssumption, TimeAssumption DEF RateInv, TypeOK
  <2>2. IsFiniteSet(S) /\ Cardinality(S) <= Limit
    BY DEF EveryInterval
  <2>3. IsFiniteSet(T) /\ Cardinality(T) <= Limit
    <3>1. CASE e - n \in 0 .. now
      BY <3>1 DEF EveryInterval
    <3>2. CASE e - n \notin 0 .. now
      <4>1. e - n < 0
        BY <2>1, <3>2
      <4>2. T = {}
        BY <2>1, <4>1 DEF AllowedUpTo, AnswersPast
      <4>3. IsFiniteSet({}) /\ Cardinality({}) = 0
        BY FS_EmptySet
      <4> HIDE DEF T
      <4> QED
        BY <2>1, <4>2, <4>3
    <3> QED
      BY <3>1, <3>2
  <2>4. U \subseteq S \cup T
    BY <2>1 DEF AllowedUpTo, AnswersPast
  <2> HIDE DEF S, T, U
  <2>5. /\ IsFiniteSet(S \cup T) /\ IsFiniteSet(S \cap T)
        /\ Cardinality(S \cup T) = Cardinality(S) + Cardinality(T) - Cardinality(S \cap T)
    BY <2>2, <2>3, FS_Union, FS_Intersection
  <2>6. IsFiniteSet(U) /\ Cardinality(U) <= Cardinality(S \cup T)
    BY <2>4, <2>5, FS_Subset
  <2>7. /\ Cardinality(S) \in Nat /\ Cardinality(T) \in Nat /\ Cardinality(U) \in Nat
        /\ Cardinality(S \cap T) \in Nat /\ Cardinality(S \cup T) \in Nat
    BY <2>2, <2>3, <2>5, <2>6, FS_CardinalityType
  <2> QED
    BY <2>1, <2>2, <2>3, <2>5, <2>6, <2>7 DEF U
<1> QED
  BY <1>1, IntervalInvariant, PTL

-----------------------------------------------------------------------------
(* Calls that are turned away                                                *)

(* Blocking finds Limit granted calls of the caller's address in its window. *)
LEMMA BlockFindsCause ==
    ASSUME RateInv, [Next]_vars, NEW r \in Calls, call[r].pc = "called", call'[r].pc = "blocked"
    PROVE  Cardinality(Cause(r)) >= Limit
<1>1. ~HasRoom(r)
  <2>1. call \in [Calls -> Handlers]
    BY DEF RateInv, TypeOK
  <2>2. ASSUME NEW q \in Calls, NEW c \in Clients, ReadClock(q, c) PROVE FALSE
    BY <2>1, <2>2 DEF ReadClock, Handlers
  <2>3. ASSUME NEW q \in Calls, Fail(q) PROVE FALSE
    BY <2>1, <2>3 DEF Fail, Handlers
  <2>4. ASSUME NEW q \in Calls, Allow(q) PROVE FALSE
    BY <2>1, <2>4 DEF Allow, Handlers
  <2>5. ASSUME NEW q \in Calls, Block(q) PROVE ~HasRoom(r)
    BY <2>1, <2>5 DEF Block, Handlers
  <2>6. CASE Tick \/ UNCHANGED vars \/ \E q \in Calls : LoseAnswer(q)
    BY <2>6 DEF Tick, vars, LoseAnswer
  <2> QED
    BY <2>2, <2>3, <2>4, <2>5, <2>6 DEF Next
<1>2. RedisKey(r) \in Keys
  BY AddressAssumption DEF RateInv, CallsTimed, RedisKey
<1>3. InWindow(r) \subseteq Cause(r)
  BY <1>2, MembersGranted DEF InWindow, Cause, RateInv, TypeOK
<1>4. IsFiniteSet(Cause(r))
  BY FS_Subset DEF Cause, RateInv, LogBounded
<1>5. /\ IsFiniteSet(InWindow(r))
      /\ Cardinality(InWindow(r)) <= Cardinality(Cause(r))
  BY <1>3, <1>4, FS_Subset
<1>6. Cardinality(InWindow(r)) \in Nat /\ Cardinality(Cause(r)) \in Nat
  BY <1>4, <1>5, FS_CardinalityType
<1> QED
  BY <1>1, <1>5, <1>6, LimitAssumption DEF HasRoom

(* A call answered 429 found Limit granted calls of its address in its       *)
(* window.                                                                   *)
THEOREM BlocksAreJustified == Spec => BlockedWithCause
<1>1. RateInv /\ [Next]_vars =>
        [\A r \in Calls : (call[r].pc = "called" /\ call'[r].pc = "blocked")
                          => Cardinality(Cause(r)) >= Limit]_vars
  <2>1. RateInv /\ [Next]_vars =>
          \A r \in Calls : (call[r].pc = "called" /\ call'[r].pc = "blocked")
                           => Cardinality(Cause(r)) >= Limit
    BY BlockFindsCause
  <2> QED
    BY <2>1
<1> QED
  BY <1>1, RateInvariant, PTL DEF Spec, BlockedWithCause

(* Where an address is one client's own, nobody is blocked for what others   *)
(* did: a client answered 429 has Limit granted calls of its own in the      *)
(* window before that call.  Nginx gives all clients one address.            *)
THEOREM ClientsIsolated ==
    ASSUME \A c, d \in Clients : Address[c] = Address[d] => c = d
    PROVE  Spec => []ClientIsolation
<1> DEFINE Inv == RateInv /\ ClientIsolation
<1>1. Init => Inv
  BY InitRate DEF Init, NewCall, ClientIsolation
<1>2. ASSUME Inv, [Next]_vars PROVE Inv'
  <2>1. RateInv'
    BY <1>2, NextRate
  <2>2. /\ call \in [Calls -> Handlers] /\ granted \subseteq Calls
        /\ \A q \in granted : call[q].pc # "new"
    BY <1>2 DEF RateInv, TypeOK, CallsTimed
  <2>3. granted \subseteq granted' /\ IsFiniteSet(granted')
    <3>1. granted \subseteq granted'
      BY <1>2 DEF Next, vars, ReadClock, Allow, Block, LoseAnswer, Fail, Tick, LuaScript
    <3> QED
      BY <2>1, <3>1 DEF RateInv, LogBounded
  <2>4. ASSUME NEW p \in Calls
        PROVE  \/ call'[p] = call[p]
               \/ call[p].pc = "new" /\ call'[p].pc = "called"
               \/ /\ call[p].pc = "called"
                  /\ call'[p].client = call[p].client /\ call'[p].stamp = call[p].stamp
    <3>1. ASSUME NEW q \in Calls, NEW c \in Clients, ReadClock(q, c)
          PROVE  call'[p] = call[p] \/ (call[p].pc = "new" /\ call'[p].pc = "called")
      BY <2>2, <3>1 DEF ReadClock
    <3>2. ASSUME NEW q \in Calls, Allow(q) \/ Block(q) \/ Fail(q)
          PROVE  \/ call'[p] = call[p]
                 \/ /\ call[p].pc = "called"
                    /\ call'[p].client = call[p].client /\ call'[p].stamp = call[p].stamp
      BY <2>2, <3>2 DEF Allow, Block, Fail, Handlers
    <3>3. CASE Tick \/ UNCHANGED vars \/ \E q \in Calls : LoseAnswer(q)
      BY <3>3 DEF Tick, vars, LoseAnswer
    <3> QED
      BY <1>2, <3>1, <3>2, <3>3 DEF Next
  <2>5. ASSUME NEW r \in Calls, call[r].pc # "new", Cardinality(Own(r)) >= Limit
        PROVE  Cardinality(Own(r)') >= Limit
    <3>1. Own(r) \subseteq Own(r)'
      BY <2>2, <2>3, <2>4, <2>5 DEF Own
    <3>2. IsFiniteSet(Own(r)')
      BY <2>3, FS_Subset DEF Own
    <3>3. IsFiniteSet(Own(r)) /\ Cardinality(Own(r)) <= Cardinality(Own(r)')
      BY <3>1, <3>2, FS_Subset
    <3>4. Cardinality(Own(r)) \in Nat /\ Cardinality(Own(r)') \in Nat
      BY <3>2, <3>3, FS_CardinalityType
    <3> QED
      BY <2>5, <3>3, <3>4, LimitAssumption
  <2>6. ASSUME NEW r \in Calls, call[r].pc # "blocked", call'[r].pc = "blocked"
        PROVE  call[r].pc = "called" /\ Cardinality(Own(r)) >= Limit
    <3>1. call[r].pc = "called"
      BY <2>4, <2>6
    <3>2. Cardinality(Cause(r)) >= Limit
      BY <1>2, <2>6, <3>1, BlockFindsCause
    <3>3. Cause(r) \subseteq Own(r)
      BY <1>2, <2>2, <3>1 DEF Cause, Own, RedisKey, RateInv, CallsTimed
    <3>4. IsFiniteSet(Own(r))
      BY <1>2, FS_Subset DEF Own, RateInv, LogBounded
    <3>5. IsFiniteSet(Cause(r)) /\ Cardinality(Cause(r)) <= Cardinality(Own(r))
      BY <3>3, <3>4, FS_Subset
    <3>6. Cardinality(Cause(r)) \in Nat /\ Cardinality(Own(r)) \in Nat
      BY <3>4, <3>5, FS_CardinalityType
    <3> QED
      BY <3>1, <3>2, <3>5, <3>6, LimitAssumption
  <2>7. ASSUME NEW r \in Calls, call[r].pc = "blocked" PROVE Cardinality(Own(r)) >= Limit
    BY <1>2, <2>7 DEF ClientIsolation
  <2>8. ASSUME NEW r \in Calls, call'[r].pc = "blocked"
        PROVE  Cardinality(Own(r)') >= Limit
    <3>1. CASE call[r].pc = "blocked"
      BY <2>5, <2>7, <3>1
    <3>2. CASE call[r].pc # "blocked"
      BY <2>5, <2>6, <2>8, <3>2
    <3> QED
      BY <3>1, <3>2
  <2>9. ClientIsolation'
    BY <2>8 DEF ClientIsolation
  <2> QED
    BY <2>1, <2>9
<1> QED
  BY <1>1, <1>2, PTL DEF Spec
=============================================================================
