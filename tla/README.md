# Flash-Sale-API: models, checks and proofs

Flash-Sale-API sells tickets to many people at once. Three FastAPI services
(ticket, auth, notification) stand behind an nginx gateway and share PostgreSQL,
Redis and Kafka. This directory models the parts where concurrency decides
whether the system is correct, checks them with TLC on small instances, and
proves the main results with TLAPS for every value of the constants.

Contents: 1 the system, 2 the modules, 3 the runs, 4 fairness and external
assumptions, 5 the proofs, 6 disagreements between code and docs, 7 what is not
modelled, 8 plan.

## 1. The system (inventory)

| component | state | operations | interacts with |
|---|---|---|---|
| Purchase handlers, `routers/purchase.py` | `tickets` rows (status, locked_by, locked_until), `orders`, `order_items` | `lock_ticket`, `create_order`, `release_lock` | row locks of PostgreSQL with each other and with the reaper; after its commit `create_order` awaits the Kafka producer; `lock_ticket` runs behind the rate limiter |
| Expired-lock reaper, `tasks/expired_locks.py` | none of its own | one `UPDATE` each minute, from APScheduler in `main.py` | the `tickets` rows |
| Rate limiter, `dependencies.py` | one sorted set per client address in Redis | the dependency `rate_limiter` and its Lua script | Redis; nginx decides which address it sees |
| Catalog handlers, `routers/venues, events, tiers, inventory` | `venues`, `events`, `ticket_tiers`, and the rows of `tickets` | `create_venue`, `create_event`, `create_tier`, `generate_inventory`, listings | makes the tickets that the purchase path sells |
| Kafka producer, `kafka_producer.py` | the global `_producer` | start, stop, publish with a lazy restart | lifespan and all `create_order` handlers share the global |
| Notification service, `consumer.py`, `notify.py` | position and committed offset of the consumer group | consume loop with reconnects; `POST /booking-confirmation` | Kafka |
| Auth service, `routers/auth.py` | `auth.users` | register, login, me | the ticket service decodes its tokens |
| Ticket service authentication, `auth_middleware.py` | none | `get_current_user` | shares nothing with the auth service but the key; its `user_id` goes into `locked_by` and `orders` |
| Migrations, `alembic/` of both services | the schema and `alembic_version` | three revisions, up and down | races with the `create_all` of a starting service |
| Gateway, logging, load generator, deployment | none | routing, log lines | Docker restarts what exits |

Hard behaviours, and what makes each component correct:

* **Purchase path.** Handlers interleave at every `await`; a `SELECT ... FOR
  UPDATE` takes its rows one by one, waits, and rechecks the newest version; the
  reaper holds the rows of one UPDATE until its commit, while reservations expire
  and the process may crash. Correct means: no ticket in two orders, sold tickets =
  items of committed orders, a live reservation is touched by its holder only,
  what `create_order` validated is still true when it commits, no lock leaks,
  deadlocks end, expired reservations return.
* **Rate limiter.** A call is judged by a clock that it read before it reached
  Redis; calls overtake each other, arrive late, or twice; keys expire by the clock
  of Redis. Correct means: a rolling limit for each client, and no 429 without cause.
* **Catalog.** Check-then-insert without a lock or a constraint. Correct would mean
  capacities are respected, inventories are generated once and a city's venues have
  names of their own. The code achieves less (section 6); what it does achieve is a bound.
* **Booking events.** A handler takes a pooled connection, gives it back at its commit,
  takes one again for the reload and keeps it while Kafka is awaited. The producer is
  a global that is set before the await of its start; publication follows the commit and may fail, repeat or be lost in a crash;
  the consumer commits offsets in the background. Correct means: one producer,
  confirmations of committed orders only, every request answered (with one exception, section
  6), every event in the topic dispatched at least once, no connection leaked.
* **Accounts.** Check-then-insert behind a unique index that two places create
  (the migration and `create_all`); `is_active` is read before bcrypt and judged after
  it; the ticket service trusts a token without asking; ids cross the services without a
  foreign key. Correct means: one account per email, no call later than a token's
  lifetime after login or deactivation, both services of one opinion, no row that names
  somebody who never was an account.
* **Schema.** `create_all` looks first and creates later; a migration may run in
  between; either may come first; a process may die anywhere. Correct means: what
  `alembic_version` says is there, a service that is up has its tables, and it comes up.

Every hazard has an entry, with its line and its properties, under `hazards` of
`PROJECT.json`.

## 2. The modules

```
TicketLedger     abstract: atomic reservations, purchases, cancellations, expirations
   ^ refined by
Purchase         lock_ticket, create_order, release_lock, reaper, PostgreSQL, crashes
   |- PurchaseProofs <- PurchaseDeadlockProofs, PurchaseLimitsProofs    |- MCPurchase
RateLimiter      rate_limiter and its Lua script
   |- RateLimiterProofs   |- MCRateLimiter (clients connected directly / behind nginx)
Catalog          venues, events, tiers, inventory
   |- CatalogProofs (with FiniteSums, lemmas on sums over finite sets)   |- MCCatalog
OrderNotices     abstract: what a buyer is told, and when
   ^ refined by
BookingEvents    connection pool, _producer, topic, consumer loop
   |- BookingEventsProofs |- MCBookingEvents
Schema           both databases: revisions, create_all, crashes
   ^ extended by
Accounts         register, login, tokens, get_current_user of both services
   |- AccountsProofs      |- MCAccounts
```

An `MC` module gives functions and symmetry sets for a `.cfg`, nothing else. A
definition with an underscore, such as `LockRow_NoForUpdate`, is a plausible bug in
the definition it is named for; no specification uses it. A run must fail when
it takes that definition's place. `map` in `PROJECT.json` gives the source
lines of every other definition.

### Purchase

| variable | code |
|---|---|
| `ticket` | committed rows of `tickets` (`models.Ticket`) |
| `rowLock` | who holds each row `FOR UPDATE` or has updated it: PostgreSQL's row locks |
| `orders` | committed `orders` with their `order_items` |
| `req` | local state of each handler: program counter, caller, payload, values read, `locked_until` |
| `reap` | the job: the clock it has read, rows still to visit, the row it is at |
| `now` | the clock of `_now()` |
| `failures` | a counter that bounds crashes and failures of the job |

A step is what happens between two awaits, or the visit of one row by a SQL
statement. SQLAlchemy flushes a transaction's writes with its commit, so the tables
hold committed data only, and a rollback changes row locks and nothing else.

* `lock_ticket`: `StartLock`, `CheckExisting`/`RejectSecondLock` (a plain SELECT),
  `ScanAvailable` (the snapshot), then a visit of each row: `SkipTicket` if it is locked
  (`SKIP LOCKED`), else it is locked and its newest version rechecked, `GrabTicket` or
  `DropTicket`; `RejectSoldOut`, `StampLock` (`locked_until` is
  computed before the commit is awaited), `CommitLock`.
* `create_order`: `StartOrder`, `LockRow` (one row at a time in id order, waiting),
  `ValidateOrder`/`RejectOrder`, `CommitOrder`. Unknown ids are answered 404 in
  `RejectOrder`. What follows the commit is in `BookingEvents`.
* `release_lock`: `StartRelease`, `LockRow`, `CommitRelease`/`RejectRelease`.
* reaper: `ReapStart` reads the clock before it has a session; `ReapScan` is the
  UPDATE's snapshot; `ReapRow` visits rows in any order, waits for each and locks it;
  `ReapCommit` writes those whose recheck held (`Matched`); `ReapFail`. APScheduler never runs two instances (`max_instances`
  is 1 by default), so there is one.
* PostgreSQL and the process: `DeadlockVictim`, `ReaperVictim`, `FailRequest`,
  `Crash`.

PostgreSQL keeps the lock of a row whose recheck fails until the transaction ends, and so
does the model: `DropTicket` and `ReapRow` leave such a row locked, and others skip it or
wait for it. `RowLocksOwned` says of every locked row that its holder's view of it is true;
that it is one of the rows the holder is to write or refuse holds outside `lock_ticket` only.

The plain SELECT of step 2 compares with a `_now()` read just before it. The model
reads both at once: a tick between them could only turn a reservation that is just
over into a rejection, which leaves no trace.

### TicketLedger

The promise of the service, with each operation one atomic step: `Reserve`, `Buy`
(all tickets of an order or none), `Cancel`, `Expire`. `Purchase` implements it with
the identity on `ticket`, `orders` and `now` (`Ledger`, an explicit `INSTANCE ... WITH`).

### RateLimiter

`call` holds the handlers with the clock each has read (`stamp`, which is `now_ms`
and the score of its member) and the time of its answer; `log` and `expires` are
Redis's sorted sets and their expiry; `granted` is a history variable. `ReadClock`
is the code before `await eval`. `Allow`, `Block` and `LoseAnswer` run the script
(`LuaScript`: `ZREMRANGEBYSCORE`, `ZCARD`, `ZADD` and `PEXPIRE` only when there is
room) and differ in the answer; `Fail` is an unreachable Redis.

A member's name is made unique by the code, so a call stands for its member, and a
repeated script adds the same member again.

### Catalog

One row function per table; `batches[t]` counts how many times tier `t` got its
`total_allocated` tickets. Each handler is split where its guard has been read and
its row has not been inserted: `CheckVenue`/`InsertVenue`, `FindVenue`/`InsertEvent`,
`FindEvent`/`SumAllocated`/`InsertTier`, `ReadTiers`/`CheckStock`/`InsertTickets`. Ids
are uuids; the least unused number stands for a fresh one.

`Allocated(e)`, the `func.sum` of `create_tier`, is `SumFunction` of the community module
`Functions`; how such a sum grows is proved in `FiniteSums`.

### BookingEvents

`conn` holds the handlers with a connection of the pool of `database.py`. `GetConnection`
is the first statement of a session, or the SELECT after the commit, and needs a free one;
`CommitOrder` and `Finish` give it back; the 30-second timeout of the pool is one of the
reasons of `FailOrder`. `producer` is the global `_producer`, with an object named by who made it; `started`
are the objects connected to the broker. `BeginStart` is the check of the global and
its assignment, which have no await between them; the await of `start()` ends in
`StartOk` or `StartFailed`. A handler that finds the global set uses it even while
its start is still awaited (`UseProducer`); `Send` and `SendFailed` then need a connected
object, for aiokafka's timeouts are those of a connected producer. On an object that is still
being started the send waits; if that start fails it waits for ever (`Stranded`), because
`_producer = None` (line 44) takes the object from the global and not from the handler that
holds it. `Send` writes one or two copies, because the
producer is not idempotent and resends a batch whose acknowledgement was lost. The
consumer has a position and the group an offset; `AutoCommit` runs at any moment;
`Disconnect` and `CrashNotifier` lose the position.

### OrderNotices

The promise to the buyer: `Commit`, then `Answer` and `Publish` in either order, then
`Notify`, with nothing taken back. `BookingEvents` implements it with `created` the
handlers that answered 201 and `published` the events in the topic.

### Schema

| variable | code |
|---|---|
| `objects` | what is in each database: tables, enum types, the unique index on the email, the foreign keys that name users |
| `version` | `alembic_version`, 0 for base |
| `rows` | the accounts; for the ticket service, the users its rows name |
| `proc`, `found` | each service's process, and what `create_all` saw |
| `dropped`, `crashes` | history, and a counter that bounds crashes |

A revision is one step (`Execute`): PostgreSQL's DDL is transactional, so it fails as a
whole if it creates what exists or drops what does not. Alembic runs all the revisions of a
command in one transaction; the model runs them one by one, which adds states and
removes none, because a command may ask for any number. `create_all` is two steps, `CheckTables`
and `CreateMissing`; `FailStart` is the exit of the process when a migration came in
between. Tables that are only ever created and dropped together are one object.

### Accounts

`reg` and `login` are the handlers of the auth service; a request has a fixed email and
password (`Email`, `Password`) and an account the id of the request that made it. `CheckEmail`,
`InsertUser` (the unique index decides), `AnswerCreated` (the refresh) make up `register`;
`ReadAccount` and `IssueToken` make up `login`, with bcrypt between them. `Deactivate` is an
administrator's UPDATE: no code writes `is_active`. `TicketAccepts` is `get_current_user` of
the ticket service, `MeAccepts` that of the auth service. `NameUser` stands for what
`lock_ticket` and `create_order` do with the id, `ForgetUser` for a release or the reaper.
A handler has the transaction of its SELECT open, so `DROP TABLE` waits for it (`Migrate`).
`proved`, `closed`, `late` and `gone` are history: when a password was last presented, when
an account was deactivated, which accounts were deactivated under a running login, which
were dropped with their table.

## 3. The runs

| run | question | instance | answer |
|---|---|---|---|
| `purchase_safety` | double sales, sold = ordered, validation, live reservations and how many a user can have, row locks, deadlocks of requests alone, refinement of `TicketLedger` | 2 users, 2 tickets and an unknown id, 2 handlers, TTL 1, clock 0..2, 1 failure | holds |
| `purchase_recovery` | does every request end, deadlocks with the reaper included; does an expired reservation return although the job may fail, crash or be the victim; how many purchasable tickets of a tier can a buyer collect one request after the other | 1 user, 1 handler, 3 tickets, TTL 1, clock 0..2, 1 failure | holds; tickets of 2 generations |
| `purchase_deadlock` | "deadlock prevention" (README) | as `purchase_safety`, no failures | violated |
| `purchase_hoarding` | one live lock per user and tier (tests) | the same | violated |
| `rate_limit` | rolling limit, isolation of clients, justified 429s | 4 calls, 2 clients, limit 2, window 3, delay 1, clock 0..5 | holds |
| `rate_limit_gateway` | a client is blocked for its own calls (tests) | clients behind nginx | violated |
| `catalog_races` | how far racing requests overrun the guards; which tiers miss their tickets | 3 handlers, 4 venues, 4 tiers, sizes 1..2 | at most once per handler; only later tiers |
| `catalog_capacity` | capacity guard (comment) | 2 handlers | violated |
| `catalog_inventory` | idempotency guard (comment) | 2 handlers | violated |
| `catalog_names` | name guard (comment) | 2 handlers | violated |
| `booking_events` | one producer, true confirmations, offsets, connections, answers, delivery, refinement of `OrderNotices` | 3 orders, 2 connections, 2 failures | holds |
| `accounts` | one account per email, lifetime of tokens, ids across services, version table, tables of a running service, coming up | 2 registrations of one email with passwords of their own, 1 login, 1 call, TTL 1, clock 0..2, 1 crash | holds |

Why the bounds are enough for what is asked:

* Two tickets are the fewest that can be locked in opposite orders, and a request
  names both, one, or an unknown one. Two handlers and the reaper give every
  two- and three-way race over them. With TTL 1 and a clock to 2, a reservation is
  live, at its last instant, expired, reaped, and taken by another user.
* `purchase_recovery` has one handler beside the job. That is what a deadlock takes: two
  requests never wait for each other in a cycle (`RequestsNeverDeadlock`, checked with two
  handlers and proved for any number), so who waits for another request waits for a
  transaction that ends or has the job behind it (`SomebodyMoves`). One handler is also the
  question for `BuyableBounded`: a buyer whose requests do not overlap can hold 2 purchasable
  tickets, at the instant `locked_until = now`, and not 3; that is why there are three
  tickets and two lifetimes of a reservation. How the bound grows with the handlers is proved.
* In `purchase_safety`, `LiveLocksBounded` is reached: two requests of one user race to two
  live reservations. It counts the requests still racing too, so that it says more than that
  each of two tickets is reserved at most once.
* One failure in `purchase_safety` may fall at any point; a second would start from a
  state that the first leaves, which is a state without handlers. The proofs
  have no bound on failures.
* In `rate_limit`, 4 calls are twice the limit, the clock runs through a window and
  two more ticks, so members leave the window and keys expire while late calls arrive.
* In `catalog_races`, `Sizes` has a size that fits twice and one that fills the venue.
  Ids are one more than the handlers, so the bound is not reached for want of ids.
* In `booking_events`, two handlers can race in the lazy start while a third finds
  the global set; two failures let a crash follow a crash in either service. Two
  connections for three orders make one wait, before its transaction or after its commit.
* In `accounts`, two registrations are what it takes to race, and the login has the
  password of one of them. The clock passes the expiry of a token signed at 0. Migrations
  are not bounded: every revision can run up and down any number of times.

Deadlock checking is off in the rate limiter runs, where a behaviour ends with its last
call and the last tick, and in `accounts`, whose requests end too and where a database
that Alembic cannot take over has no further revision. In `Purchase`, `Catalog` and `BookingEvents`
TLC would report a state without successors. In `Purchase` and `Catalog` new
requests can always come; in `BookingEvents` the consumer can always commit.

## 4. Fairness and assumptions about the environment

**Purchase.** `FairSpec` assumes weak fairness of every step of a running handler
(the event loop runs ready coroutines, SQL statements return), of the job
(scheduled each minute for as long as the process is up) and of the deadlock detector
(`deadlock_timeout`). `LockRow` and `ReapRow` have strong fairness: PostgreSQL
queues the transactions waiting for a row, so a row that is freed again and again
is granted in the end. Clients need not call and nothing need fail. `MaxFailures`
bounds crashes, failures of the job and its deaths in deadlocks together. Without a
bound TLC finds the livelock one expects: the job is the victim of a new deadlock
in every run, so `ExpiredLocksReturn` means that the pool recovers
after the last failure.

**BookingEvents.** Weak fairness of each handler's `Order`: the pool gives a connection
or times out after 30 seconds, and SQL statements return. Weak fairness of its `Publish`:
the await of a start ends, with a result or an exception, and so does a send on a connected
object, because aiokafka's requests have timeouts. Nothing is assumed of a send on an object
that is not connected: no action of its handler is enabled then, so `EveryOrderAnswered` is
about all handlers but the stranded ones. Weak fairness of `Connect` (the loop retries every 5 s for ever) and
`Process`. Nothing is assumed of `AutoCommit`, of requests, or of the lifespan.

**Accounts.** Weak fairness of each service's `Start`: Docker starts what has exited
(`restart: unless-stopped`), and a start runs to its end. Nothing else is assumed; in
particular no migration need run and none need stop. `ComesUp` is therefore conditional:
a service comes up if its database is migrated only finitely often
(`<>[][~Migrates(s)]_schemaVars`), since every migration may spoil one more start.

External parts, modelled from how the code uses them:

* PostgreSQL at READ COMMITTED: snapshots per statement, row locks to the end of the
  transaction, recheck of the newest version after a wait, `SKIP LOCKED`.
* Redis runs a script atomically. redis-py may resend a script whose answer was lost.
  A call reads its clock at most `MaxDelay` before its answer. All clocks are one; in
  the code the score is the service's clock and `PEXPIRE` uses that of Redis, with
  the difference to be counted into `MaxDelay`.
* aiokafka: `send_and_wait` on an object that is not connected waits for the topic's
  metadata, which a task fetches that only a successful start creates.
  One partition: an order has one event, and events of different orders need no
  order. The consumer hands out a message and it is processed without an await
  in between (`consumer.py:84-92`), so a background commit never covers an event that
  is still being processed. uvicorn drains its requests before the lifespan shuts
  down; containers restart (`restart: unless-stopped`).

## 5. The proofs

All are checked by `tlapm` for every value of the constants under the `ASSUME`s in
the modules (ids are natural numbers, `None` and `Reaper` are no user, no request
and so on, and `None` is no row; `MaxDelay <= Window`; the
handlers of the catalog and, for the bounds on reservations and `SomebodyMoves`, of the purchase
path are finitely many). Sets of users, tickets, requests, orders, clients
and calls are arbitrary. Four theorems assume one handler, and one that a call takes half a
window at most; their statements say so.

**FiniteSums.** `SumFunctionOnSet` is a fold, and the fold a recursive function on the
subsets of a set, that is, a `CHOOSE` of a function that solves an equation. The induction theorems
of the library take an operator as a parameter and cannot be used. The module does without: a
set that holds 0 and every successor of its numbers is all of `Nat`, since `<` is
well-founded (`NumberInduction`), and likewise for the subsets of a finite set and strict
inclusion (`SubsetInduction`). `SolutionExists` solves the equation for the subsets of at
most `n` elements, one `n` after the other; `SolutionsAgree` says that there is no other
solution. Then any element may be taken out first (`SumRemove`), only the values at the
elements count (`SumSame`), and a sum is bounded by its terms (`SumOfFew`, `SumSubset`).

**PurchaseProofs.** `ControlInv == TypeOK /\ RowLocksOwned /\ HandlersReady /\
ReaperReady` is inductive. `RowLocksOwned` is the heart: what a transaction has read of
a row it holds is what the row is, since nobody writes a row that another holds.
The job and `lock_ticket` hold rows too whose recheck failed; they write none of these.
`HandlersReady` says what each program point knows, above all that a handler about
to commit holds exactly the rows it is about to write; `ReaperReady` says that the
job's clock is not ahead. Each action has a lemma, and `NextControl` combines them.
From `ControlInv` follow `TypeCorrect`, `LocksAreOwned` and `ValidationLasts`.
`SalesInv` adds `SoldIffOrdered /\ NoDoubleSale`, which are inductive together only: a
ticket being bought is locked, hence not sold, hence in no order. It gives
`NeverSoldTwice` and `SoldMatchesOrders`. `SalesNeverUndone` (proved only) is derived from the
refinement, not from the actions: every step of `TicketLedger` leaves sold tickets and orders as
they are and sells a ticket to its holder only, so every step of `Purchase` does. `LiveLocksSafe` and `ImplementsLedger` are
step properties under `ControlInv`: each commit is exactly one step of `TicketLedger`
(for the job, `ReaperReady` turns "expired when the job read its clock" into
"expired now"), and every other step leaves the ledger unchanged.

**PurchaseDeadlockProofs.** `OrdersNeverDeadlock` is `RequestsNeverDeadlock` for any
number of requests. The invariant added to `ControlInv` is `LockedInOrder`: what an
order holds is less than what it has yet to lock. In a cycle, take the least row
anybody waits for (it exists, ids being natural numbers): who waits for it holds a row
that somebody waits for too, which is not less, though it was locked before.
`SomebodyMoves` (proved only) draws the consequence for finitely many handlers: if a request waits,
some transaction that holds rows waits for nobody, or the job is in a cycle. Otherwise
every holder waits; a smallest set of holders that wait for each other only is a cycle
(`WaitersCycle`), and by `OrdersNeverDeadlock` it has the job in it. Without the second
alternative TLC finds the state of `purchase_deadlock`.

**PurchaseLimitsProofs.** With `n` handlers a user has at most `n` live reservations in a
tier, those counted that his running requests may still get (`LiveLocksLimited`), and at most `2n` purchasable ones (`BuyableLimited`), the factor
being the instant `locked_until = now` (with a positive TTL). `LimitInv == ControlInv /\ TierKept /\ LiveCounted`:
live reservations and the handlers that have passed the check and have yet to commit are
together no more than the handlers; who passes the check has seen no live reservation,
so only handlers count then. `EdgeCounted` says the same of the reservations whose last
instant is now: a tick makes that set of reservations that were live before.
`OneLockBySingleHandler` is the case `n = 1`: what the run `purchase_hoarding` refutes is true of
requests that do not overlap.

**CatalogProofs.** `TypeInv` says that rows and the handlers' findings refer to rows
that exist (nothing is ever deleted). The bounds follow from an invariant over two
kinds of state: the effects that are in a table and the handlers that are past the
check and have yet to insert are together no more than the handlers. A request that
passes the check has seen no effect, so at that moment only handlers count. For capacities the
same idea needs sums: in `TiersBounded` the sizes in an event's rows and the sizes on their way into
it come to no more than handlers times capacity. Who finds room has seen rows that fit the venue together
with its own size; the others on their way are at most `n - 1`, each within the capacity,
because it found room too. `AllocationAtMostOncePerHandler` follows, and for one handler
`CapacityRespectedBySingleHandler`, `InventoryOnceBySingleHandler` and `VenueNameOnceBySingleHandler`:
the guards that `catalog_capacity`, `catalog_inventory` and `catalog_names` refute are right when
requests do not overlap. `OlderTiersFirst` comes
from `OrderInv`: tiers are numbered in the order of their rows, and what a handler has
read of an event's tiers is every tier up to some moment.

**RateLimiterProofs.** `RateInv == TypeOK /\ CallsTimed /\ LogBounded /\ Remembered`.
`CallsTimed`: a call's answer comes within `MaxDelay` of its stamp. `LogBounded`: a key
has at most `Limit` members. `Remembered`: a call allowed in the last `Window -
MaxDelay` ticks is still a member of its key, and the key has not expired. So calls
allowed in that interval are members, and there are at most `Limit`: `LimitHolds`.
The slack is real, a run with `Window - MaxDelay + 1` fails. `EveryInterval` carries the
limit from the interval that ends now to every earlier one, since an allowed call stays what it
is. Two such intervals cover a window if a call takes half of it at most, so
a client gets at most `2 * Limit` calls through in any window (`TwiceTheLimitAtMost`, proved only; TLC
reaches that number, so no smaller one is true). `BlocksAreJustified` is
the step property of `BlockedWithCause`. `ClientsIsolated` proves `ClientIsolation`, that a client
answered 429 has itself `Limit` granted calls in the window before that call, where an
address is one client's own (behind nginx it is not). Both rest on `BlockFindsCause`: the members a
blocked call finds are granted calls of its address in its window. One of them may be
the call's own first run, when its answer was lost and the script was sent again: such a call took a
place and is answered 429 all the same. No property calls that wrong; it costs the client one call.

**BookingEventsProofs.** `ProducerInv` adds to `ProducerTracked` that no object is
being connected and connected at once. `ConfirmInv` adds that every handler between
commit and answer has its order in the database. `OffsetInv` adds that everything
before the consumer's position is dispatched; the offset only ever takes an
older value or that position. `NoConnectionLeaks` is inductive with the types.
`ImplementsNotices` shows that each step is a step of `OrderNotices` or a stutter; it needs
`NoticesInv`, which adds to `ConfirmInv` that an order is not in the database before its
own handler commits it (`Uncommitted`), so that a commit happens once. The lemma
`HandlerSteps` says that a handler moves by its own steps and by a crash only.

**AccountsProofs.** `IInv` adds to the properties what a step relies on. Of the databases:
what `create_all` saw is there unless it was dropped (`SeenTables`), and rows are in tables
(`RowsInTables`). Of the auth service: a registration between its check and its INSERT has
the unique index before it, because DROP TABLE waits for its transaction, and its id is
nobody's yet (`Registering`); an account is active if and only if it was not deactivated
(`ActiveRows`). Of tokens: what a login read, a token says and a call was accepted with
names an account, and is no older than the history tells (`LoginsKnow`, `TokensKnow`,
`CallsKnow`). `UniqueEmails`, `CallersProved`, `TokensExpire`, `RowsNameAccounts`, `VerifiersAgree`,
`VersionsAreTrue` and `UpWithTables` follow; `FirstOrNever` is a step property.
`CreatedAccountsExist` (a client told 201 has its account until the table is dropped) is proved only.

**Model-checked only.** Liveness (`EveryRequestEnds`, `ExpiredLocksReturn`,
`EveryOrderAnswered`, `EventsDelivered`, `ComesUp`) is out of the provers' reach, like everything
under fairness. Every invariant and every step property of a passing run is proved.

## 6. Where code and documentation disagree

Each has a run that shows it, and an entry under `findings`.

* `purchase_deadlock`: `create_order` locks in id order, but the reaper's UPDATE locks
  in heap order. An order over two expired reservations and the reaper can wait for
  each other. PostgreSQL aborts one; a client sees a 500 or the job skips a minute.
  `RequestsNeverDeadlock` shows that the order of ids is enough among requests.
* `purchase_hoarding`: two overlapping lock requests of one user both pass the check
  for an existing lock.
* `rate_limit_gateway`: behind nginx all clients share the gateway's address, hence
  one limit.
* `catalog_capacity`, `catalog_inventory`, `catalog_names`: the guards read without a lock and no
  constraint backs them, so overlapping requests together exceed the capacity, generate the
  inventory twice, or create two venues of one name in one city. The bounds of `catalog_races`
  say what the races cost, not that the guards hold.

Observations that have no run of their own:

* A handler may find the global producer set while another awaits its start
  (`kafka_producer.py:70`) and send on that object (line 82). If the start then fails, nobody
  resolves the metadata wait inside the send and no timeout covers it: the handler returns neither
  True nor False (line 67), its client gets no answer, and its connection is gone until the
  process restarts. `EveryOrderAnswered` names these handlers as its exception (`Stranded`) and shows that
  there is no other; without the exception TLC finds this behaviour.
* A process that dies between the commit of an order and its confirmation leaves an order that
  is never confirmed. Nothing records that a confirmation is due; `OrderNotices` allows it.
* A login that is running when its account is closed still gets a token (`late`);
  `DeactivationTakesHold` shows that no other does.
* The deploy job (`deploy.yml:63-68`) restarts the containers and runs no migrations; the
  README's manual step does (and the test job, on its own database). If the containers come
  first, `create_all` makes the tables and no `alembic upgrade` succeeds after that,
  because the first revision creates what exists (`NeverAdopted`; `alembic stamp` is not
  modelled). A downgrade of the ticket service to base has the same effect: it leaves
  the enum types, which the upgrade creates again.
* On a ticket database at the first revision the code of today cannot write a lock or an order: the
  foreign keys name a `users` table that nothing fills (last conjunct of `VersionTruth`).
* A registration whose client lost the answer is answered 400 when it is sent again.

## 7. Not modelled

* Password hashing and signatures: taken as perfect. A token is one that `login` signed. The
  tests (`tests/conftest.py:156`) and the load generator (`locustfile.py:32`) sign tokens of their own with the shared key,
  for ids that were never registered and without `exp`; `NoOrphans` and `CallsProven` are
  about the tokens of `login` and say nothing of these.
* A difference between the two services' judgement of `exp`: both call `jwt.decode` of the same
  library, with a key assumed equal, so `Unexpired` is one definition. `VerdictsAgree` compares what differs,
  the look at the account.
* The branch of `consumer.py:91-92` that logs and drops a message whose processing raised: what
  `publish_booking_confirmation` is given by `create_order` is never refused by it.
* Alembic's offline mode, which prints SQL.
* Listings, `/health` and `POST /booking-confirmation`: they change no state.
* Logging middleware, static files, images and networks of the deployment: no state that
  another part reads.
* Prices, names, dates, e-mail addresses and texts: no property depends on them.
  `sale_start_time` is stored, and no handler of the purchase path reads it.

* Statement-level contention for the connection pool by the other endpoints: a waiting
  handler of `BookingEvents` may time out at any moment, which covers it.

## 8. Plan

Done, in this order: `TicketLedger` and `Purchase` with the proofs of safety, refinement,
the order of locks and the bounds on reservations; `RateLimiter`; `Catalog`;
`OrderNotices` and `BookingEvents` with the pool; `Schema` and `Accounts`; each with its proofs.

What could come next: a composition in which the tickets of `Catalog` are those that `Purchase`
sells and `BookingEvents` confirms. The interfaces are narrow (rows that are only ever added,
and a commit that precedes publication), so each model takes the other side as an input. Among
proofs: abstract specifications of the rate limiter and of the accounts, with their refinements.
