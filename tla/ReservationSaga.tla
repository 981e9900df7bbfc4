--------------------------- MODULE ReservationSaga ---------------------------
(***************************************************************************)
(* The saga that reservation_service (mi-servicio/main.go) orchestrates in *)
(* CreateReservation, with the stock of one room type in                   *)
(* inventario_service and the tables reservations and reservation_sagas in *)
(* its own database.                                                       *)
(*                                                                         *)
(* An attempt is one execution of CreateReservation, in a goroutine of its *)
(* own: a new HTTP request, or the gateway's retry of one with the same    *)
(* idempotency key, which may run while the first execution is still going.*)
(* sagaID and reservationId are unique, so the attempt stands for both.    *)
(* All attempts want the same room type: sagas for different room types    *)
(* share no stock.                                                         *)
(*                                                                         *)
(* A request to inventario_service is a pair <<a, n>>: n = 0 is a's        *)
(* BLOQUEAR, n > 0 its n-th LIBERAR, all for one unit.  It is sent, applied*)
(* (or refused) by the inventory, and answered, in steps of their own; a   *)
(* caller that gave up waiting leaves it in the network, where it may      *)
(* still be applied.                                                       *)
(*                                                                         *)
(* reservation_saga_events and error_message are written and never read    *)
(* by the code, and are left out.                                          *)
(***************************************************************************)
EXTENDS Naturals, FiniteSets

CONSTANTS
  Attempts,      \* executions of CreateReservation
  KeyOf,         \* the idempotency key each one carries
  NoKey,         \* the empty key
  InitialStock,  \* stock_total of the room type
  MaxReleases,   \* attempts of compensateInventory, 3 in the code
  Faults         \* the faults a model lets happen

\* db_error: a statement whose error CreateReservation handles fails.
\* record_lost: a write of recordSagaTransition fails; the code only logs it.
\* ambiguous_insert: INSERT INTO reservations or reservation_sagas fails for the
\*   caller, but commits.
\* ambiguous_lock, ambiguous_release: the caller of BLOQUEAR or LIBERAR times
\*   out on a request the inventory has applied or will still apply.
\* inventory_error: the inventory fails without applying the request.
\* cancel: the gateway's deadline (12 s) or its client cancels the context.
\* crash: the process stops; docker compose restarts it.
FaultKinds == {"db_error", "record_lost", "ambiguous_insert", "ambiguous_lock",
               "ambiguous_release", "inventory_error", "cancel", "crash"}

ASSUME StockAssumption == InitialStock \in Nat
ASSUME ReleasesAssumption == MaxReleases \in Nat \ {0}
ASSUME FaultsAssumption == Faults \subseteq FaultKinds

VARIABLES
  pc,            \* where each execution is
  cancelled,     \* the executions whose context is cancelled
  tries,         \* LIBERAR attempts it has started
  reply,         \* the gRPC status it returned, and the reservation with OK
  notification,  \* its notification goroutine
  saga,          \* its row of reservation_sagas
  reservations,  \* table reservations: the attempts whose row is there
  announced,     \* events handed to publishReservationEvent
  stock,         \* stock_total in inventario_service
  network,       \* requests sent to the inventory and not processed
  applied,       \* requests whose UPDATE committed
  refused        \* requests answered with an error or status=false

handlerVars == <<pc, cancelled, tries, reply, notification>>
dbVars == <<saga, reservations, announced>>
inventoryVars == <<stock, network, applied, refused>>
vars == <<handlerVars, dbVars, inventoryVars>>

Requests == Attempts \X (0 .. MaxReleases)

SameKey(a, b) == KeyOf[a] # NoKey /\ KeyOf[a] = KeyOf[b]

Final == {"FAILED", "COMPLETED", "COMPLETED_WITH_NOTIFICATION_FAILURE"}
SagaStatus == Final \cup
  {"none", "STARTED", "USER_VALIDATED", "USER_VALIDATION_FAILED", "STOCK_LOCKED",
   "STOCK_LOCK_FAILED", "STOCK_UNAVAILABLE", "RESERVATION_CREATED",
   "RESERVATION_INSERT_FAILED", "NOTIFICATION_DISPATCHING", "COMPENSATING",
   "COMPENSATED", "COMPENSATION_FAILED"}
CompensationStatus == {"NONE", "RUNNING", "DONE", "FAILED"}
Codes == {"none", "OK", "Internal", "Unavailable", "Unauthenticated", "ResourceExhausted"}
Steps == {"idle", "start", "user", "lock", "locking", "insert", "inserted",
          "compensate", "releasing", "failing", "done", "crashed"}
Finished == {"done", "crashed"}

Init ==
  /\ pc = [a \in Attempts |-> "idle"]
  /\ cancelled = {}
  /\ tries = [a \in Attempts |-> 0]
  /\ reply = [a \in Attempts |-> [code |-> "none", reservation |-> a]]
  /\ notification = [a \in Attempts |-> "none"]
  /\ saga = [a \in Attempts |-> [status |-> "none", compensation |-> "NONE"]]
  /\ reservations = {}
  /\ announced = {}
  /\ stock = InitialStock
  /\ network = {} /\ applied = {} /\ refused = {}

-----------------------------------------------------------------------------
(* recordSagaTransition() and the other small steps of the handler *)

Goto(a, step) == pc' = [pc EXCEPT ![a] = step]

Return(a, code, r) ==
  /\ Goto(a, "done")
  /\ reply' = [reply EXCEPT ![a] = [code |-> code, reservation |-> r]]

\* publishReservationEvent(): the event goes to a goroutine of its own.
Announce(a, type) == announced' = announced \cup {<<a, type>>}

CompensationReset(row, state) ==  \* mutant: the CASE of the UPDATE forgotten
  CASE state = "COMPENSATING" -> "RUNNING"
    [] state = "COMPENSATED" -> "DONE"
    [] state = "COMPENSATION_FAILED" -> "FAILED"
    [] OTHER -> "NONE"

\* compensation_status is overwritten only by the compensation's own states.
CompensationFor(row, state) ==
  CASE state = "COMPENSATING" -> "RUNNING"
    [] state = "COMPENSATED" -> "DONE"
    [] state = "COMPENSATION_FAILED" -> "FAILED"
    [] OTHER -> row.compensation

\* The rows the UPDATE can leave: the new one; the old one when the context
\* of the statement is cancelled, or the write fails.
Recorded(row, state, gone) ==
  (IF gone THEN {} ELSE {[status |-> state, compensation |-> CompensationFor(row, state)]})
    \cup (IF gone \/ "record_lost" \in Faults THEN {row} ELSE {})

\* A second transition recorded right after the first.
RecordedTwice(row, first, gone, second) ==
  UNION {Recorded(r, second, FALSE) : r \in Recorded(row, first, gone)}

Save(a, rows) == \E row \in rows : saga' = [saga EXCEPT ![a] = row]

\* failSaga() under WithoutCancel, the ReservationFailed event and the error.
Fail(a, state, code) ==
  /\ Save(a, RecordedTwice(saga[a], state, FALSE, "FAILED"))
  /\ Announce(a, "Failed")
  /\ Return(a, code, a)

-----------------------------------------------------------------------------
(* CreateReservation() up to the inventory *)

Booked(a) == {r \in reservations : SameKey(a, r)}

\* The SELECT by idempotency key finds a reservation and returns it.
Replay(a) ==
  /\ pc[a] = "idle"
  /\ \E r \in Booked(a) : Return(a, "OK", r)
  /\ UNCHANGED <<cancelled, tries, notification, dbVars, inventoryVars>>

\* There is no key, no reservation for it, or the SELECT fails, which is
\* logged and ignored.
Begin(a) ==
  /\ pc[a] = "idle"
  /\ Booked(a) = {} \/ "db_error" \in Faults
  /\ Goto(a, "start")
  /\ UNCHANGED <<cancelled, tries, reply, notification, dbVars, inventoryVars>>

\* startSaga() inserts the row of the saga and ReservationCreated is sent.
StartSaga(a) ==
  /\ pc[a] = "start"
  /\ a \notin cancelled
  /\ saga' = [saga EXCEPT ![a] = [status |-> "STARTED", compensation |-> "NONE"]]
  /\ Announce(a, "Created")
  /\ Goto(a, "user")
  /\ UNCHANGED <<cancelled, tries, reply, notification, reservations, inventoryVars>>

\* Nothing is sent, but the row may be there: it stays STARTED.
StartSagaFails(a) ==
  /\ pc[a] = "start"
  /\ a \in cancelled \/ Faults \cap {"db_error", "ambiguous_insert"} # {}
  /\ \/ UNCHANGED saga
     \/ /\ "ambiguous_insert" \in Faults
        /\ saga' = [saga EXCEPT ![a] = [status |-> "STARTED", compensation |-> "NONE"]]
  /\ Return(a, "Internal", a)
  /\ UNCHANGED <<cancelled, tries, notification, reservations, announced, inventoryVars>>

\* The context may be cancelled between GetUser's answer and the write.
UserValidated(a) ==
  /\ pc[a] = "user"
  /\ Save(a, Recorded(saga[a], "USER_VALIDATED", a \in cancelled))
  /\ Goto(a, "lock")
  /\ UNCHANGED <<cancelled, tries, reply, notification, reservations, announced, inventoryVars>>

\* GetUser fails, or userBreaker is open.
UserRejected(a) ==
  /\ pc[a] = "user"
  /\ \E code \in {"Unauthenticated", "Unavailable"} : Fail(a, "USER_VALIDATION_FAILED", code)
  /\ UNCHANGED <<cancelled, tries, notification, reservations, inventoryVars>>

-----------------------------------------------------------------------------
(* BLOQUEAR *)

Send(r) == network' = network \cup {r} /\ UNCHANGED <<stock, applied, refused>>

SendLock(a) ==
  /\ pc[a] = "lock"
  /\ a \notin cancelled
  /\ Send(<<a, 0>>)
  /\ Goto(a, "locking")
  /\ UNCHANGED <<cancelled, tries, reply, notification, dbVars>>

\* inventoryBreaker is open or the context is cancelled: nothing is sent.
LockNotSent(a) ==
  /\ pc[a] = "lock"
  /\ \E code \in {"ResourceExhausted", "Unavailable"} : Fail(a, "STOCK_LOCK_FAILED", code)
  /\ UNCHANGED <<cancelled, tries, notification, reservations, inventoryVars>>

LockedAnnouncing(a) ==  \* mutant: ReservationConfirmed before the INSERT
  /\ pc[a] = "locking"
  /\ <<a, 0>> \in applied
  /\ Save(a, Recorded(saga[a], "STOCK_LOCKED", a \in cancelled))
  /\ Announce(a, "Confirmed")
  /\ Goto(a, "insert")
  /\ UNCHANGED <<cancelled, tries, reply, notification, reservations, inventoryVars>>

Locked(a) ==
  /\ pc[a] = "locking"
  /\ <<a, 0>> \in applied
  /\ Save(a, Recorded(saga[a], "STOCK_LOCKED", a \in cancelled))
  /\ Goto(a, "insert")
  /\ UNCHANGED <<cancelled, tries, reply, notification, reservations, announced, inventoryVars>>

\* The inventory answered with an error, or with status=false.
LockRefused(a) ==
  /\ pc[a] = "locking"
  /\ <<a, 0>> \in refused
  /\ \E state \in {"STOCK_LOCK_FAILED", "STOCK_UNAVAILABLE"} : Fail(a, state, "ResourceExhausted")
  /\ UNCHANGED <<cancelled, tries, notification, reservations, inventoryVars>>

LockAssumed(a) ==  \* mutant: an abandoned BLOQUEAR is taken for granted
  /\ pc[a] = "locking"
  /\ a \in cancelled \/ "ambiguous_lock" \in Faults
  /\ Goto(a, "insert")
  /\ UNCHANGED <<cancelled, tries, reply, notification, dbVars, inventoryVars>>

\* The call times out or is cancelled: the same error path, whatever the
\* inventory did or does with the request.
LockAbandoned(a) ==
  /\ pc[a] = "locking"
  /\ a \in cancelled \/ "ambiguous_lock" \in Faults
  /\ Fail(a, "STOCK_LOCK_FAILED", "ResourceExhausted")
  /\ UNCHANGED <<cancelled, tries, notification, reservations, inventoryVars>>

-----------------------------------------------------------------------------
(* INSERT INTO reservations, and what follows it *)

InsertIgnoringKey(a) ==  \* mutant: no unique index on idempotency_key
  /\ pc[a] = "insert"
  /\ a \notin cancelled
  /\ reservations' = reservations \cup {a}
  /\ Goto(a, "inserted")
  /\ UNCHANGED <<cancelled, tries, reply, notification, saga, announced, inventoryVars>>

Insert(a) ==
  /\ pc[a] = "insert"
  /\ a \notin cancelled
  /\ Booked(a) = {}
  /\ reservations' = reservations \cup {a}
  /\ Goto(a, "inserted")
  /\ UNCHANGED <<cancelled, tries, reply, notification, saga, announced, inventoryVars>>

\* What makes the INSERT fail, and what it may have left.
InsertError(a) ==
  /\ pc[a] = "insert"
  /\ Booked(a) # {} \/ a \in cancelled \/ Faults \cap {"db_error", "ambiguous_insert"} # {}
  /\ \/ UNCHANGED reservations
     \/ /\ "ambiguous_insert" \in Faults /\ Booked(a) = {}
        /\ reservations' = reservations \cup {a}
  /\ Announce(a, "Failed")
  /\ UNCHANGED <<cancelled, tries, reply, notification, inventoryVars>>

InsertFailsUnreleased(a) ==  \* mutant: compensateInventory() is not called
  /\ InsertError(a)
  /\ Save(a, Recorded(saga[a], "RESERVATION_INSERT_FAILED", FALSE))
  /\ Goto(a, "failing")

InsertFailsFinally(a) ==  \* mutant: failSaga() before the compensation
  /\ InsertError(a)
  /\ Save(a, RecordedTwice(saga[a], "RESERVATION_INSERT_FAILED", FALSE, "FAILED"))
  /\ Goto(a, "compensate")

\* The unique index, a cancelled context or the database makes it fail:
\* compensateInventory() begins.
InsertFails(a) ==
  /\ InsertError(a)
  /\ Save(a, RecordedTwice(saga[a], "RESERVATION_INSERT_FAILED", FALSE, "COMPENSATING"))
  /\ Goto(a, "compensate")

\* RESERVATION_CREATED, the ReservationConfirmed event, the notification
\* goroutine and the OK answer.
Confirm(a) ==
  /\ pc[a] = "inserted"
  /\ Save(a, RecordedTwice(saga[a], "RESERVATION_CREATED", a \in cancelled, "NOTIFICATION_DISPATCHING"))
  /\ Announce(a, "Confirmed")
  /\ notification' = [notification EXCEPT ![a] = "sending"]
  /\ Return(a, "OK", a)
  /\ UNCHANGED <<cancelled, tries, reservations, inventoryVars>>

\* The notification goroutine ends; SendConfirmation fails or not.
Notified(a) ==
  /\ notification[a] = "sending"
  /\ notification' = [notification EXCEPT ![a] = "finished"]
  /\ \E state \in {"COMPLETED", "COMPLETED_WITH_NOTIFICATION_FAILURE"} :
       Save(a, Recorded(saga[a], state, FALSE))
  /\ UNCHANGED <<pc, cancelled, tries, reply, reservations, announced, inventoryVars>>

-----------------------------------------------------------------------------
(* compensateInventory() *)

SendRelease(a) ==
  /\ pc[a] = "compensate"
  /\ tries' = [tries EXCEPT ![a] = @ + 1]
  /\ Send(<<a, tries[a] + 1>>)
  /\ Goto(a, "releasing")
  /\ UNCHANGED <<cancelled, reply, notification, dbVars>>

\* A LIBERAR failed: try again, or give up after the last.
ReleaseFailed(a, n) ==
  IF n < MaxReleases
    THEN Goto(a, "compensate") /\ UNCHANGED saga
    ELSE Goto(a, "failing") /\ Save(a, Recorded(saga[a], "COMPENSATION_FAILED", FALSE))

\* inventoryBreaker is open: the attempt is spent without sending.
ReleaseNotSent(a) ==
  /\ pc[a] = "compensate"
  /\ tries' = [tries EXCEPT ![a] = @ + 1]
  /\ ReleaseFailed(a, tries[a] + 1)
  /\ UNCHANGED <<cancelled, reply, notification, reservations, announced, inventoryVars>>

Released(a) ==
  /\ pc[a] = "releasing"
  /\ <<a, tries[a]>> \in applied
  /\ Save(a, Recorded(saga[a], "COMPENSATED", FALSE))
  /\ Goto(a, "failing")
  /\ UNCHANGED <<cancelled, tries, reply, notification, reservations, announced, inventoryVars>>

\* The attempt was refused, or timed out whatever the inventory did with it.
ReleaseUnsuccessful(a) ==
  /\ pc[a] = "releasing"
  /\ <<a, tries[a]>> \in refused \/ "ambiguous_release" \in Faults
  /\ ReleaseFailed(a, tries[a])
  /\ UNCHANGED <<cancelled, tries, reply, notification, reservations, announced, inventoryVars>>

FinishUnrecorded(a) ==  \* mutant: the last FAILED is not recorded
  /\ pc[a] = "failing"
  /\ Return(a, "Internal", a)
  /\ UNCHANGED <<cancelled, tries, notification, saga, reservations, announced, inventoryVars>>

\* FAILED is recorded over the outcome of the compensation.
FinishFailed(a) ==
  /\ pc[a] = "failing"
  /\ Save(a, Recorded(saga[a], "FAILED", FALSE))
  /\ Return(a, "Internal", a)
  /\ UNCHANGED <<cancelled, tries, notification, reservations, announced, inventoryVars>>

-----------------------------------------------------------------------------
(* inventario_service: UpdateStock() for one unit *)

\* UPDATE ... stock_total - 1 WHERE stock_total >= 1, or stock_total + 1.
Apply(r) ==
  /\ r \in network
  /\ IF r[2] = 0 THEN stock >= 1 /\ stock' = stock - 1 ELSE stock' = stock + 1
  /\ network' = network \ {r}
  /\ applied' = applied \cup {r}
  /\ UNCHANGED <<refused, handlerVars, dbVars>>

\* No stock, or a database error.
Refuse(r) ==
  /\ r \in network
  /\ (r[2] = 0 /\ stock < 1) \/ "inventory_error" \in Faults
  /\ network' = network \ {r}
  /\ refused' = refused \cup {r}
  /\ UNCHANGED <<stock, applied, handlerVars, dbVars>>

-----------------------------------------------------------------------------
(* Cancellation and crash *)

Cancel(a) ==
  /\ "cancel" \in Faults
  /\ pc[a] \notin {"idle"} \cup Finished
  /\ a \notin cancelled
  /\ cancelled' = cancelled \cup {a}
  /\ UNCHANGED <<pc, tries, reply, notification, dbVars, inventoryVars>>

InProgress(a) == pc[a] \notin {"idle"} \cup Finished

\* Every goroutine is gone; nothing resumes a saga after the restart.
Crash ==
  /\ "crash" \in Faults
  /\ \E a \in Attempts : InProgress(a) \/ notification[a] = "sending"
  /\ pc' = [a \in Attempts |-> IF InProgress(a) THEN "crashed" ELSE pc[a]]
  /\ notification' = [a \in Attempts |->
       IF notification[a] = "sending" THEN "lost" ELSE notification[a]]
  /\ UNCHANGED <<cancelled, tries, reply, dbVars, inventoryVars>>

-----------------------------------------------------------------------------
Handle(a) ==
  \/ Replay(a) \/ Begin(a) \/ StartSaga(a) \/ StartSagaFails(a)
  \/ UserValidated(a) \/ UserRejected(a)
  \/ SendLock(a) \/ LockNotSent(a) \/ Locked(a) \/ LockRefused(a) \/ LockAbandoned(a)
  \/ Insert(a) \/ InsertFails(a) \/ Confirm(a)
  \/ SendRelease(a) \/ ReleaseNotSent(a) \/ Released(a) \/ ReleaseUnsuccessful(a)
  \/ FinishFailed(a)

Serve(r) == Apply(r) \/ Refuse(r)

Next ==
  \/ \E a \in Attempts : Handle(a) \/ Notified(a) \/ Cancel(a)
  \/ \E r \in Requests : Serve(r)
  \/ Crash

Spec == Init /\ [][Next]_vars

\* A request that has arrived keeps being handled, its notification goroutine
\* too (every RPC and timer they wait for has a deadline), and the inventory
\* answers what it is sent.
FairSpec ==
  /\ Spec
  /\ \A a \in Attempts : WF_vars(pc[a] # "idle" /\ Handle(a)) /\ WF_vars(Notified(a))
  /\ WF_vars(\E r \in Requests : Serve(r))

-----------------------------------------------------------------------------
(* Properties *)

TypeOK ==
  /\ pc \in [Attempts -> Steps]
  /\ cancelled \subseteq Attempts
  /\ tries \in [Attempts -> 0 .. MaxReleases]
  /\ reply \in [Attempts -> [code : Codes, reservation : Attempts]]
  /\ notification \in [Attempts -> {"none", "sending", "finished", "lost"}]
  /\ saga \in [Attempts -> [status : SagaStatus, compensation : CompensationStatus]]
  /\ reservations \subseteq Attempts
  /\ announced \subseteq Attempts \X {"Created", "Confirmed", "Failed"}
  /\ stock \in Nat
  /\ network \subseteq Requests /\ applied \subseteq Requests /\ refused \subseteq Requests

\* The promise to the callers, which the saga implements: see IdempotentBooking.
Booking == INSTANCE IdempotentBooking WITH
  booked <- reservations,
  answer <- [a \in Attempts |-> IF reply[a].code = "OK" THEN {reply[a].reservation} ELSE {}]

\* CreateReservation is an idempotent booking whatever fails: concurrent
\* retries, lost answers, timeouts, a crash between the INSERT and the answer.
ImplementsBooking == Booking!Spec

\* Requests with one key that are answered with a reservation get the same one
\* (api-gateway/main.py:170-172, "un reintento nunca cree una reserva
\* duplicada").
SameKeySameAnswer == Booking!OneReservationPerKey

\* A confirmed reservation keeps its room: its BLOQUEAR was applied, and no
\* LIBERAR for it is on its way or was applied, also when its context was
\* cancelled or the process crashed after the INSERT.
BookedKeepsRoom ==
  \A a \in reservations :
    /\ <<a, 0>> \in applied
    /\ \A n \in 1 .. MaxReleases : <<a, n>> \notin network \cup applied

\* inventario-service/README.md:53-54, "stock_total representa las
\* habitaciones actualmente disponibles": the stock never offers a room that
\* a reservation holds, so there are never more reservations than rooms.
StockIsAvailable == stock + Cardinality(reservations) <= InitialStock

\* A room is held for an execution whose BLOQUEAR was applied and that gave
\* nothing back.
Holds(a) == <<a, 0>> \in applied /\ \A n \in 1 .. MaxReleases : <<a, n>> \notin applied

\* What the row of a saga says between its BLOQUEAR and its outcome.
Interrupted == {"USER_VALIDATED", "STOCK_LOCKED", "RESERVATION_INSERT_FAILED", "COMPENSATING"}

\* No room is lost without a trace, at any moment, however retries, cancellations,
\* failed compensations and stops of the process fall.  The stock misses the rooms
\* held and no other; and each of these is held by a reservation, by an execution
\* still going, by a saga marked compensation_status = FAILED ("el fallo queda
\* visible y auditable", docs/saga-reservas-Paolo-Paredes.md:75), by a BLOQUEAR
\* its caller gave up on, or by one that a stop interrupted between main.go:472
\* and its outcome, whose row was left in a status that is not final: nobody takes
\* it up again, but the table of sagas names it.
EveryRoomExplained ==
  /\ stock + Cardinality({a \in Attempts : Holds(a)}) = InitialStock
  /\ \A a \in Attempts : Holds(a) =>
       \/ a \in reservations
       \/ InProgress(a)
       \/ saga[a].compensation = "FAILED"
       \/ reply[a].code = "ResourceExhausted"
       \/ pc[a] = "crashed" /\ saga[a].status \in Interrupted

\* The outcome of a saga is the same wherever it can be read: its row, the
\* events sent to Kafka and the answer never contradict the table reservations.
OneOutcome ==
  \A a \in Attempts :
    /\ a \in reservations =>
         /\ saga[a].status \notin {"FAILED", "RESERVATION_INSERT_FAILED", "COMPENSATING"}
         /\ <<a, "Failed">> \notin announced
         /\ reply[a].code \in {"none", "OK"}
    /\ \/ saga[a].status \in {"RESERVATION_CREATED", "NOTIFICATION_DISPATCHING"} \cup (Final \ {"FAILED"})
       \/ <<a, "Confirmed">> \in announced
       => a \in reservations

\* compensation_status survives the FAILED that is recorded after it, and DONE
\* is never claimed for a room that was not given back.
CompensationTold ==
  \A a \in Attempts :
    /\ pc[a] = "done" /\ tries[a] > 0 => saga[a].compensation \in {"DONE", "FAILED"}
    /\ saga[a].compensation = "DONE" => \E n \in 1 .. MaxReleases : <<a, n>> \in applied
    /\ saga[a].compensation = "FAILED" => \A n \in 1 .. MaxReleases : <<a, n>> \notin applied

\* A row in a final status is never written again: neither a late notification
\* nor a compensation reopens it.
SagaNeverReopens ==
  [][ \A a \in Attempts : saga[a].status \in Final => saga'[a] = saga[a] ]_vars

\* Every saga whose start was recorded reaches a final status, also when its
\* caller is gone.  Two things keep a row from it for ever, and are supposed not
\* to happen: the process stops while the saga runs, since nothing resumes it, or
\* a write of recordSagaTransition fails, which is logged and never repeated
\* (record_lost, main.go:284-294).  A row that a failed startSaga left behind
\* (main.go:435) is not of a saga that started.
SagaReachesFinal ==
  \A a \in Attempts : (pc[a] = "user") ~>
    (saga[a].status \in Final \/ pc[a] = "crashed" \/ notification[a] = "lost")

\* docs/saga-reservas-Paolo-Paredes.md:44-47, "Fallo bloqueando inventario ...
\* No hay compensacion porque no se desconto stock": a saga that failed and was
\* not compensated has taken no stock.
FailedLockTookNoStock ==
  \A a \in Attempts :
    saga[a].status = "FAILED" /\ saga[a].compensation = "NONE" => <<a, 0>> \notin applied
=============================================================================
