# Verification of the hotel reservation system

TLA+ models of the program under `src/`, checked with TLC on small instances
and, where the text below says so, proved with TLAPS for every value of the
constants. The code is the reference: a definition translates the lines that
`PROJECT.json` names for it under `map`.

## 1. The system

| Part | Code | State it keeps | Operations |
|---|---|---|---|
| API gateway | `api-gateway/` (Python, one event loop) | buckets and windows of the rate limiters | HTTP routes; `call_with_retry` around the gRPC calls of searches and reservations; session validation before each of them |
| reservation service | `mi-servicio/` (Go) | tables `reservations`, `reservation_sagas`, `reservation_saga_events`; three circuit breakers | `CreateReservation` (the saga), `GetReservation`, `ListReservations` |
| inventory service | `inventario-service/main.go` (Go) | tables `hotels`, `room_types` with `stock_total` | start with its first rows, `UpdateStock` (BLOQUEAR, LIBERAR), `SearchAvailableRooms` |
| its second build | `inventario-service/cmd/server`, `internal/` (Go, gorm) | the same tables | the same two calls; nothing deploys it |
| user service | `user-service/` (Java, Spring, Hibernate) | tables `users`, `user_sessions` | `createUser`, `updateUser`, `getUser`, `authenticate`, `validateToken`, `logout` |
| notification service | `notification_service/` (Python) | table `notifications`; the offset of its Kafka group | gRPC `SendConfirmation`; the worker that consumes `origenx.reservations.events` |
| Kafka | topics `origenx.*` | the events | the services publish; only the notification worker consumes |
| message contracts | `*.proto` and the stubs generated from them | a copy in each service | what caller and callee write and read |
| frontend, observability | `frontend/`, `observability/` | none of their own | |

How they interact: the gateway validates the session with the user service and
calls `CreateReservation`, with an idempotency key that it reuses in up to three
tries of 12 s each. The saga calls, one after the other and each through its
breaker, user service (`GetUser`, 5 s), inventory (BLOQUEAR, 5 s), its own database
(INSERT) and, in a goroutine after it has answered, the notification service
(3 s). If the INSERT fails it compensates with up to three LIBERAR. It publishes
`ReservationCreated`, `ReservationConfirmed` and `ReservationFailed` from
goroutines; the notification worker handles the second one as a second way to
the same confirmation.

What is hard, and what each part must guarantee:

* **Breaker**: results come back in a state other than the one the call was
  admitted in. In half-open exactly one call runs; its flag never leaks; stale
  results neither decide a trial nor reopen a recovered breaker; it recovers.
* **Saga**: concurrent tries of one request, timeouts whose request was applied
  all the same, cancellation between any two steps, a crash, lost writes. One
  reservation per key and the same answer for each try; a confirmed reservation
  keeps its room; rooms are neither oversold nor lost without a trace, a
  stop between BLOQUEAR and INSERT included; row, events, answer and table tell one
  outcome; every saga that can end does.
* **Processes around them**: a start against a database that is not up, over tables
  of an older version or of an interrupted start; a stop between any two steps; a
  Kafka that takes nothing. The service comes back, its first rows and indexes are
  there, requests end without Kafka, and what was answered is found afterwards.
* **Inventory**: quantities nobody checks, ambiguous UPDATEs, the event published
  between the commit and the answer. A counter that each call changes at most once;
  events and searches that agree with it.
* **Contracts**: five copies of the messages, kept alike by hand. What one service
  writes the other reads.
* **Notification**: two paths for one confirmation, redelivery after a crash or a
  lost commit. Each path sends one email; one `NotificationSent`; the offset never
  passes what left no trace; OK means recorded; the worker gets to the end.
* **Rate limiters**: boundaries and rounding. No more than the limit, no less
  either, and a `Retry-After` that holds.
* **Accounts**: transactions that read an entity and write all of it at commit.
  One user per email; OK means stored; a logout and a change of profile last.

`PROJECT.json` lists the hazards one by one, each at its line, with the properties
that would catch it, or why none does.

## 2. Modules

| Module | What it is |
|---|---|
| `CircuitBreaker` | `mi-servicio/circuitbreaker.go` |
| `ReservationSaga` | `CreateReservation` and `UpdateStock` as it uses it |
| `ReservationService` | the process around the saga: start, schema, reads, publishers, stop |
| `Inventory` | `inventario-service/main.go` |
| `InventoryLayers` | the second build, over the same tables; the specification of either |
| `StockCounter` | the abstract promise that both builds implement |
| `Wire` | how a message travels: field numbers and wire types |
| `ReservationMessages`, `InventoryMessages`, `GatewayMessages`, `UserMessages`, `NotificationMessages` | the messages and methods each service compiled |
| `Contracts` | the six calls between services, and what their copies must agree on |
| `GatewayRetries` | `POST /reservations` of the gateway, over `ReservationSaga` |
| `IdempotentBooking` | the abstract promise that the saga implements |
| `Notification` | both paths of the notification service, and the topic |
| `RateLimiter` | `api-gateway/rate_limiter.py` |
| `UserAccounts` | `UserServiceImpl.java` over PostgreSQL |
| `MC*` | the values of the constants for TLC |
| `CircuitBreakerProofs`, `ReservationSagaProofs`, `GatewayProofs`, `InventoryProofs`, `RateLimiterProofs`, `NotificationProofs`, `UserAccountsProofs`, `ReservationServiceProofs` | the theorems |

### CircuitBreaker

`state`, `consecutiveFailures` and `halfOpenInFlight` are the struct's fields;
`sinceOpened` is `time.Since(openedAt)` saturated at `OpenDuration`, the one value
the code compares it with. `Execute` is two critical sections, `Allow` and
`RecordSuccess` or `RecordFailure`, with the RPC between them; a refused call
changes nothing and is a stutter. `Tick` never lets a call outlive the context
deadline its caller sets. Any error of the closure is a failure, as in the code.

### ReservationSaga

One attempt is one execution of `CreateReservation`: `pc` is its place in the
handler, and each early return, database statement, RPC and answer is an action.
`recordSagaTransition` and `failSaga` are part of the action that calls them
(`Recorded`, `RecordedTwice`), with the rule that compensation's own states alone
change `compensation_status`, and with the write lost when its context is
cancelled: the code uses `WithoutCancel` in `failSaga` and in the compensation
only. A request to the inventory is sent, applied or refused, and answered in
separate steps; a caller that gives up leaves it in `network`. `Cancel` is the
gateway's deadline or its client going away. `Crash` stops every execution, and
nothing resumes a saga at the next start, as in the code. Which faults may happen
is the constant `Faults`; each kind is described in the module.

### ReservationService

`ReservationService` EXTENDS the saga and runs it inside a process: `phase` is where
`main()` is, `schema` the tables, columns and indexes there are. A start pings up to
`MaxPings` times, runs the statements of `initializeReservationSchema` one by one, each
of which needs what earlier ones made, and listens; a failed ping or statement, also
one whose object is there already, ends the process and the container is started again. Without the unique index two INSERTs of
one key both succeed (`InsertRow`), so that the order of the start matters to the
saga. Each event of the saga is handed to a goroutine of its own (`publishing`), which
Kafka may keep for two seconds, refuse, or never answer. `read` is what the last
`GetReservation` or `ListReservations` failed to show of what it was to show. `Stop` is
the saga's `Crash` with everything else of the process.

### Inventory and InventoryLayers

The chosen `build` runs over `tables`, `hotels` and `stock`. `StartStep` is
`initializeDB` statement by statement, with the errors the code drops: a COUNT that
fails leaves 0 and the rows are inserted again, which their primary keys refuse.
`interrupted` records that the hotels were inserted and the rooms were not. A call of
`UpdateStock` commits its UPDATE and publishes its event before it answers (`publishing`).
`topic` holds records, each an event and the number of its copy: the code sets neither the
writer's attempts nor idempotence, so kafka-go writes a message up to ten times
(`MaxAttempts`) and a lost acknowledgement leaves copies (`Write`), while the call waits
two seconds at most (`Publish`). A negative quantity commits and then panics in the counter of metrics
(`panicking`), and with the process die all the calls in it. In the second build a call
is one transaction, quantities are checked and there are no events.

### Wire and Contracts

A message is a sequence of fields and travels as the fields that differ from zero, by
number and wire type; names do not travel. Each `*Messages` module is one service's
copy. `Contracts` lists the calls and states, as assumptions that TLC evaluates in the
run `reservation_service`, that every method called is served by that name and that the
copies of each message give the same fields the same numbers and wire types. (`rol`
is an `int32` in two copies and an enum in the third: one wire type.) The theorem
`MessagesArrive` says what that is worth.

### GatewayRetries

A request validates its session, which is not retried, and then makes up to
`MaxTries` calls with one key. A try `<<h, n>>` is the saga's attempt. `sent` are
the tries that have left the gateway: the service runs them (`Service` is the
saga's `Next`), in any order and at any pace, also after the gateway has given
one up, which its deadline allows at any moment (`Abandon`). A connection that
is refused, or whose server dies, is `Unreachable`. The back-off only separates
one call from the next. Business errors are not retried and become 409 or 401,
the retryable ones 503 after the last try.

### Notification

A handler and the worker run the same `process_confirmation`: check, save, send, three
steps. The topic is one partition with one consumer, as deployed. A producer may write
an event twice (kafka-go retries) or not at all. The worker's own producer repeats a
record up to `Retries` times and is not idempotent: `sentEvents` holds the events made
of each reservation, each of an `event_id` of its own and standing for the number of its
records in the topic (none if it was lost); of `NotificationFailed` no property asks how
many there are, and `failedEvents` is the set of reservations with one. A sender without
`RESEND_API_KEY` behaves as the fault `email_lost`. The row is keyed by reservation and
type, and remembers which path wrote it.

### RateLimiter

A token is worth `TokenTicks` ticks, so that fractions of a token are whole
numbers of ticks. Neither `allow()` awaits anything and the gateway is one event
loop: each is one step. `/login` passes the bucket first and then the window; a login
that the window refuses has spent its token all the same. `used`, `attempts`,
`patience` and `loginPatience` are histories for the properties.

### UserAccounts

A request opens a transaction with its body (which reads, changes the entity and publishes its event, if `KafkaEnabled`) and ends it with `Commit` or `CommitFails`. `Commit` writes
every column of the entity, because no entity has `@Version` or
`@DynamicUpdate`; the INSERT of a registration too waits for it, and then meets
the unique index. The isolation is PostgreSQL's default, READ COMMITTED. Two
transactions overlap when the gateway has stopped waiting for one of them (3 s),
or when callers use port 9090. A `nombre` is named by the commit that set it.

## 3. Runs

| Run | Bounds | What it asks |
|---|---|---|
| `breaker` | 4 calls, threshold 3, open 4 ticks, deadline 2 | exclusive trial, counter reset, who decides a trial, late closing only within the deadline, recovery |
| `saga` | 3 attempts, two with one key, 2 rooms, 2 LIBERAR; database and inventory errors, BLOQUEAR timeouts, cancellation, crash | booked rooms are kept, the stock is not oversold, one outcome everywhere, every missing room is explained at any moment, also after a stop, compensation is told truly |
| `gateway_retries` | 1 request, 2 tries, 2 rooms, 1 LIBERAR; every fault but `record_lost` | a 201 names the reservation that is in the table, the saga implements `IdempotentBooking`, a final row is never rewritten, every request is answered, every saga ends that does not die with the process |
| `reservation_service` | 2 attempts with one key, 2 rooms, 1 LIBERAR, 2 pings, 1 stop; four ages of the schema, Kafka enabled or not | one answer per key, what was answered is found, requests end without Kafka, the service comes back; the assumptions of `Contracts` |
| `inventory` | 1 type with 1 room and an unknown one, 2 calls with 7 kinds of arguments, 1 search, 2 pings, 1 crash, 2 writes of a message; both builds; failed and ambiguous statements | it implements `StockCounter`, events and searches agree with the table, it serves its rooms |
| `notification` | 2 reservations, 2 events, 1 disruption, 1 repeated record; failed and ambiguous statements, lost commits | one email per path, one `NotificationSent`, OK means recorded, nothing untraced is committed, every event is handled |
| `rate_limiter` | 2 clients, 1 login key, 2 tokens, window of 2 in 3 ticks, 6 ticks | both limits, both `Retry-After` |
| `user_accounts` | 2 registrations, 1 login, 1 logout, 2 validations, 2 updates; every fault | one user per email, OK is stored, what overlaps with nothing lasts |
| `saga_lock_timeout` (violated) | 2 attempts | a saga that failed without compensation has taken no stock |
| `saga_release_timeout` (violated) | 2 attempts | the stock never offers a room that does not exist |
| `notification_one_email` (violated) | 1 reservation, 1 event, no fault | one email per reservation |
| `user_logout` (violated) | 1 registration, login, logout, validation, no fault | a session that was logged out is not active again |

Why these sizes. *Breaker*: two calls left over from before an opening, the trial and a
call that meets it are four; a threshold of three keeps a counter that is not reset
apart from one that is. *Saga*: a request, its retry and a stranger on two rooms give
both the conflict of keys and the fight for the last room; two LIBERAR are a first try
and a repeated one. *Gateway*: the code makes three tries; two already run side by side,
answer each other's reservation and exhaust the loop, and `saga` has three attempts.
*Service*: a stop falls between the steps of a request, of its retry, or of the start,
and the retry meets what the process before it left. *Inventory*: two calls fight for
the one room, or the second meets what the first, a crash and the next start left; the
quantities fit, do not fit, and should not be sent. Two writes of a message tell its
copies from other events. A search that is cut leaves out the one type there is and
offers nothing, so no run has it; `OffersHold` does. An event that Kafka loses is
missing as one is that a `NoopPublisher` drops, which the run has; `EventsAreTrue` has
both. *Notification*: two events hold a confirmation and its copy, or one of each
reservation; the disruption makes the broker deliver again. One repeated record tells
copies from events (the code allows three). An abandoned call and a lost email only
leave out what the other faults leave out too; they, and a lost `NotificationFailed`,
are in the proofs alone. *Rate limiter*: two ticks for a token and for a second make
fractions of both, and in six ticks an event leaves the window, its successor too.
*Accounts*: two registrations race for the index, and a logout can overlap with two
validations.

Symmetry is used where the elements are interchangeable in every constant (retries
of one key, clients, registrations, validations, calls) and never with a liveness
property. Deadlock is not checked where the modelled system may come to rest: all
requests answered, the topic consumed. The breaker and the limiters are checked
for it (the limiters admit or refuse for ever).

### What the violated runs show

* **`saga_lock_timeout`** (`main.go:472`): a BLOQUEAR that times out or is
  cancelled may have been applied, or still be, and the saga fails with no
  LIBERAR. The document of the saga says no stock was taken.
* **`saga_release_timeout`** (`main.go:313`): a LIBERAR whose answer is late is sent
  again and adds a second room; a later request is confirmed for it.
* **`notification_one_email`** (`server.py:80`): check and save are two statements
  and `ON CONFLICT DO NOTHING` is not looked at: gRPC and Kafka both send.
* **`user_logout`** (`UserServiceImpl.java:166`): a validation that read the session
  before the logout committed writes `revoked_at` back to NULL.

### Where the documents say something else

Met while modelling, and modelled as the code does, without a run of their own:

* `circuitbreaker.go:70-72` speaks of consecutive failures; a success in CLOSED
  does not reset the counter, so failures far apart open the breaker.
* A success that was admitted before the opening closes an OPEN breaker at once,
  without the 15 s and the trial of `documento-bloque-resiliencia-entrega2.md:47`.
  `LateCloseWindow` bounds when: within a call's deadline of the opening.
* `NotificationSent` is published when Resend refused the email or none is configured
  (`contracts/events/README.md:66`), and is not published at all when the gRPC call
  came first (`README.md:397`).
* A `SendConfirmation` whose caller is gone goes on to save and send
  (`notification_service/README.md:113`): `is_active()` is read on entry only.
* `UserCreated` is published inside the transaction, before its INSERT: of two
  registrations of one email both may announce a user, and the index refuses one
  (`docs/Documento_Tecnico_Kafka.md:120`). Nothing is published without `kafka.enabled`.
* An INSERT of a reservation that reports an error after it committed is compensated
  (`main.go:501`): a retry is answered with the reservation, and its room is given to
  somebody else. The fault `ambiguous_insert` is in `gateway_retries` and not in `saga`.
* The limiter's key is a hash of the token, not the user, so each login has a bucket of
  its own (`documento-bloque-resiliencia-entrega2.md:29`).
* A profile update without `telefono` blanks it, as proto3 strings are never null.
* `inventario-service/README.md:266-279` lists errors for a quantity that is not
  positive and for an unknown type; that is the second build's. The one that runs applies
  the UPDATE, and a negative quantity ends the process. Of a type that does not exist it answers
  ResourceExhausted to BLOQUEAR and OK with `false` to LIBERAR, never NotFound.
* An interrupted first start leaves hotels without rooms for ever: later starts see
  hotels and insert nothing (`EXPLICACION_PROYECTO.md:154`). `ServesRooms` says that
  nothing else does.
* `ListReservations` and the search answer part of a list as the whole when the
  connection breaks between rows: `rows.Err` is never asked.
* In the second build a type that exists is NotFound when the COUNT after a BLOQUEAR
  without stock fails.
* `KAFKA_ENABLED=True` enables the publisher of the reservation
  service and not that of the inventory: one trims, the other takes exact spellings.
* `api-gateway/proto/inventory.proto` (package `inventory`, other numbers) and
  `mi-servicio/pb/notification` (no `email`) are copies of contracts nobody uses.

## 4. Fairness

* *Breaker*: time passes, every admitted call returns (its context has a deadline),
  and calls keep coming whenever one would be admitted. Without traffic an open
  breaker does stay open: the code has no timer of its own.
* *Saga*: each started handler, each notification goroutine and the inventory take
  their next step: every RPC, timer and retry loop they wait for is bounded. A
  handler need not start. `SagaReachesFinal` exempts the sagas that die with the
  process, handler or notification goroutine, as nothing in the code resumes them, and
  is checked without `record_lost`: a write of `recordSagaTransition` that fails is logged
  and never repeated, and the last one lost leaves the row where it was for ever. A row
  that a failed `startSaga` leaves behind stays STARTED: no saga ran for it.
* *Gateway*: the request's coroutine takes its next step: the sleep of the back-off
  ends and each call has a deadline, so `RequestAnswered` needs no fairness of the
  service.
* *Notification*: the worker's thread. It reconnects with a bounded back-off, polls
  with a timeout, and every call it makes returns. Crashes and disconnections are
  bounded by `MaxDisruptions` and not fair.
* *Service*: the container is started again (`restart: unless-stopped`), `main()` and
  the handlers that have begun take their next step, and the inventory answers.
  Nothing is asked of Kafka, so that `EndsWithoutKafka` shows that nothing waits for it;
  `ComesBack` supposes a database that stays up, and no more.
* The limiters, the accounts and the inventory have safety properties only: nothing in them waits.

## 5. Proofs

TLC looks at a small instance; these hold for every value of the constants that
meets the named assumptions of the modules.

**`CircuitBreakerProofs`** (any calls, threshold and durations with `CallTimeout <
OpenDuration`, as deployed): `TypeCorrect`, `HalfOpenIsExclusive`,
`TrialIsNotLeaked`, `ClosedIsBelowThreshold`, `OnlyTheTrialDecides`,
`LateCloseIsBounded`. `HalfOpenExclusive` alone is not inductive: nothing in it
says that no old call is left when the trial is admitted. The strengthening is
`StaleCallsAreOlder`: a call that runs while the breaker is OPEN is at least as
old as the opening. As no call outlives its deadline, none is left after
`OpenDuration`. The assumption on the durations is needed: with a deadline as long as
the opening a stale call and the trial run side by side.

**`ReservationSagaProofs`** (any attempts, keys, stock, number of LIBERAR, faults):
each part adds an invariant to those before it.

| Theorem | Assumption | Invariant |
|---|---|---|
| `TypeCorrect` | | `Base`: types, and what each place of the handler implies of its row and its notification |
| `SameKeyGetsSameAnswer`, `SagaImplementsBooking` | | `Answers`: an answered reservation is in the table, one per key |
| `BookedKeepsItsRoom` | `InsertIsReliable` | `RequestsInOrder`: which requests exist at each step; `BookedIsDone`: an inserted attempt never compensates |
| `StockStaysAvailable` | and `ReleaseIsReliable` | `OneRelease`: at most one LIBERAR of an attempt takes effect; `Ledger`: stock + locked = initial + released |
| `FinalRowsStay` | | `FinalIsLast`: a final row is left only by a handler and a notification that are over |
| `OutcomeIsOne` | `InsertIsReliable` | `Outcomes`: what row, events and answer may say, by whether the reservation is in the table |
| `CompensationIsTold` | `RecordIsReliable`, `ReleaseIsReliable` | `CompensationInOrder`: what `compensation_status` may be at each step, and that FAILED leaves no LIBERAR that could still be applied |
| `CompensationNeverLies` | `ReleaseIsReliable` | `Claims`: the row says FAILED only past the compensation and with no LIBERAR that could still be applied |
| `NoRoomIsLost` | all three | `Accounted`: who answers for the BLOQUEAR of an execution that is over or was stopped; `RowsInOrder`: what the row says at each step, which a stop leaves there |

`InsertIsReliable` (an INSERT that reports an error has not committed),
`ReleaseIsReliable` (a LIBERAR whose caller gave up is not applied) and
`RecordIsReliable` (the database does not lose a write of `recordSagaTransition`, whose
error the code drops) are restrictions of `Faults`, not facts about the code: the first
excludes a connection that breaks during the INSERT's commit, the second is what
`saga_release_timeout` shows to matter, and without the third a compensation may end of
which the row says nothing; what it does say is true all the same
(`CompensationNeverLies`). Writes lost because the request's context was cancelled
are not excluded, nor are crashes, timeouts of BLOQUEAR and failed compensations.
`NoRoomIsLost` has two halves. The stock misses as many rooms as are held: the
executions whose BLOQUEAR was applied are those that hold their room and those that gave
it back, two disjoint sets (`LockersSplit`), the second as large as there are LIBERARs
applied (`OneRelease`), and `Ledger` says what they add up to. And each room held has
somebody to name (`HoldersExplained`): of an execution that was stopped it is the row,
which `RowsInOrder` has followed up to that statement. `SagaImplementsBooking` needs neither: the refinement maps `reservations`
to the book and the OK answers to its answers, and each step is a `Book`, an `Answer` or
a stutter.

**`GatewayProofs`** (any requests, tries, stock, faults): `GatewayDrivesSaga`, that each
step of the gateway is a step of the saga or a stutter, carries all of the above over to the
composition, `RetriesImplementBooking` first of all. `ToldReservationIsBooked` then needs
of the gateway that the tries of a request have one key (`GatewayKeys`) and of the saga
`Answers`. `GatewayTypeCorrect` needs `TriesLeft` to be inductive: who is to call has
a try left.

**`InventoryProofs`** (any types, first rows, calls, arguments, faults, both builds):
`InventoryImplementsStock`. A step of either build changes `stock` in one of three
ways (`StockStep`), the first rows, the UPDATE of a call or nothing; `Consistent` says
which calls have taken effect and `FirstRows` that the rows inserted are the seed.
`EventsAreTrue`, about the events of which the topic may hold copies, needs two more.
`Told`: each record is of the one event its call ends with. `Balanced`: the stock of a type is its first one plus what every applied
call changed, told or not; it says nothing of the topic, and is inductive because one
more call adds one more term. That `MapThenSumSet` does so whatever order it takes
(`TotalOfOneMore`) is proved from its definition: a recursive function over the subsets,
two of which agree on what they share (`SumIsUnique`), by the smallest subset that would
be an exception (`MinimalSubset`). `InventoryTypeCorrect` adds that a start that pings
has pings left and that every call asks for a quantity somebody may ask for.
`OffersHold` adds `Remembered`: the calls a search does not know of came after it.
`RoomsAreServed` needs to know which statements of the start are over.
`StockIsNeverNegative` assumes `PositiveQuantities`, which the callers in the repository
meet and the code does not check.

**`UserAccountsProofs`** (any requests, emails, lifetime, faults): `OneUserHasAnEmail`,
`AnsweredStaysStored`, `LogoutHolds`, `ChangeHolds`. `OpenHolds` says what an open
transaction has in memory of its row, and `StoredRows` that a user keeps its email, so that
a commit that writes all columns writes the email that was there. `Alone` (two
transactions open on one row have both been seen to overlap) makes the last two
inductive: after a logout that overlapped with nothing no transaction holds the
session (`ClosedForGood`), after such a change none holds an older `nombre` (`ChangeIsRead`).
`AccountsTypeCorrect` supposes finitely many requests, so that the commits can be counted
by the requests that are done (`Counted`), and bounds what an open transaction will write
by what it read (`Bounded`).

**`RateLimiterProofs`** (any clients, capacity, rate, horizon): `RequestsAreBounded`
and `RequestsAreNotShorted`. The invariant `Balance` joins the two: what was admitted
since any moment is at most what the bucket has given out since (`Covered`), and
there is a moment since which it is exactly that (`Tight`). Neither half can do
without the tokens, which neither property mentions. `RetriesAreAdmitted` adds
`PromiseKept`: at the moment a client was told, its bucket has refilled a token, which
rounding the header up preserves. The window of `/login` has an invariant of its own,
`WindowInv`: the log is in the order of time, and of the logins admitted since a moment
that the window still covers, as many as there were are its last ones (`Logged`). From it
follow `LoginsAreBounded`, `LoginsAreNotShorted` and, with `WaitEnds`,
`LoginRetriesAreAdmitted`. Where the eviction stops is a least number (`LeastNumber`).

**`NotificationProofs`** (any reservations, events, disruptions, faults): `TypeCorrect`,
`PathSendsOneEmail`, `NotificationSentOnce`, `OkIsRecorded`. The counts alone are not
inductive. `Rows` adds that what has no row has no email and no `NotificationSent`, that
a process past its check finds no email of its own path, and one past its save finds a row;
a record written again adds no event (`PublishedIsNext`).
Because a path has one process for a reservation (`OneSender`), what one process
sends is never what another still has to. `CommittedHasTrace` adds `Accounted`: all
the events the worker is past have left their trace, the one in hand excepted while
it is being processed. It assumes `FailureIsTold` (`"publish_lost" \notin Faults`): a
failure whose `NotificationFailed` is lost as well is committed and leaves nothing.

**`ReservationServiceProofs`** (any requests, stops, pings, schemas found, faults):
`ServiceRunsTheSaga`, that the process behaves as the saga, for which it must serve nothing
before the unique index is there (`IndexFirst`): without the index two INSERTs of one key
succeed, which no step of the saga does. With it each step of the process is one of the
saga or none, and what is proved of `Spec` is true of `ServiceSpec`; `ServiceAnswersOnce`
states three of these. `WhatIsAnsweredIsFound` adds `ToldIsBooked`: who was answered, or
announced, is in the table. `ServiceTypeCorrect` types the process.
`MessagesArrive` (any values): a field with one number and one wire type on both sides is
read as it was written (`FieldArrives`), and `CopiesAgree`, an assumption about the five
copies that TLC evaluates, says all fields are such.

Every invariant and every action property that a passing run checks is stated by a
theorem. Only model-checked: the liveness properties (`RecoveryIsTried`, `EventsHandled`,
`RequestAnswered`, `SagaReachesFinal`, `EndsWithoutKafka`, `ComesBack`), as the prover
does not reason about fairness. The library's induction over numbers and sets takes an operator
as its parameter, which the provers cannot instantiate: what needs induction is
proved by a least counterexample. Proved and no longer checked by a run,
to keep the runs to what only they can show: the types of the breaker, the saga, the
notifications and the limiters, `NoLeakedTrial`, `RequestsNotShorted`, `LoginsNotShorted` and `ClaimsAreTrue`.

## 6. Not modelled

* The gateway's reads, `getUserById`, and the gateway's own events, which nothing in
  the repository consumes.
* Dates, prices and locations, which no decision of the saga reads; that the searches'
  filters select what they should (a search picks any subset of the types as its filter).
* The order of events in Kafka: each goes by itself under a key of its own kind, no
  document promises an order, and the one consumer handles each event alone.
* The gauge of the inventory that reads `inventoryDB` while `main` sets it (`main.go:52`).
* The retries of searches and of `ListReservations`, which only read. The breakers are
  not composed with the saga: an open one is a refusal the saga's actions allow at any
  moment.
* The error of `net.Listen` (`mi-servicio/main.go:653`, `inventario-service/main.go:383`),
  which ends the process as a failed statement does.
* When a producer writes: a record that leaves after its caller stopped waiting counts as
  written before, which only readers of those topics could tell, and there are none.
* The first rows of the inventory committed by an INSERT that reports an error: the code
  drops the error, so it is one that succeeds.
* Several room types in the saga: sagas for different ones share no stock.
* `reservation_saga_events` and error texts: written, never read.
* Token signatures, password hashes, identifiers and dates in events, email text, metrics,
  traces, logs, the frontend; registration and reflection in the generated stubs.
* A graceful shutdown of the worker: a crash that waits.

## 7. Plan

Done: 1. `CircuitBreaker`, proved. 2. `ReservationSaga` over `IdempotentBooking`, proved.
3. `Notification`, proved. 4. `RateLimiter`, both limiters proved.
5. `UserAccounts`, proved. 6. `GatewayRetries` over the saga, its safety proved.
7. `Inventory` and `InventoryLayers` over `StockCounter`, proved with their events.
8. `ReservationService` with its publishers, its safety proved. 9. `Contracts`, proved.

Next, in this order:

10. What the saga's theorems become without `RecordIsReliable`: which rooms can go missing
   when a compensation could not be recorded.
11. The gateway's retries of the reads, if they come to have effects.
