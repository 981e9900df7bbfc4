---------------------------- MODULE Notification ----------------------------
(***************************************************************************)
(* notification_service: the confirmation of one reservation reaches it    *)
(* twice, by the gRPC call SendConfirmation of reservation_service's       *)
(* notification goroutine and by the ReservationConfirmed event of Kafka.  *)
(* Both end in NotificationServicer.process_confirmation, which looks for  *)
(* a row, saves one and sends the email, in three steps that nothing locks.*)
(*                                                                         *)
(* A process is a gRPC handler, named by the reservation it is about (the  *)
(* pool has ten threads), or the one thread of NotificationKafkaWorker.    *)
(* The topic is one partition; its events are those of the reservations    *)
(* topic, and ReservationCreated stands for every type that is ignored.    *)
(* Both producers fill in the ids parse_reservation_confirmed asks for.    *)
(***************************************************************************)
EXTENDS Naturals, Sequences

CONSTANTS
  Reservations,
  Worker,          \* the Kafka worker's thread
  MaxEvents,       \* bound: events published
  MaxDisruptions,  \* bound: crashes, and errors of the Kafka connection
  Retries,         \* the worker's producer's (3): a lost acknowledgement repeats the record
  Faults           \* the faults a model lets happen

\* db_error: a statement of the repository fails; ambiguous_save: the INSERT
\*   fails for its caller but commits.
\* email_lost: Resend fails, or no RESEND_API_KEY is configured.
\* publish_lost: a NotificationSent or NotificationFailed is not written.
\* commit_lost: the commit of the offset fails, which is logged.
\* gave_up: the notification goroutine's 3 s are over, it has no connection, or
\*   its breaker is open.
FaultKinds == {"db_error", "ambiguous_save", "email_lost", "publish_lost", "commit_lost",
               "gave_up"}

ASSUME WorkerAssumption == Worker \notin Reservations
ASSUME BoundsAssumption == MaxEvents \in Nat /\ MaxDisruptions \in Nat
ASSUME RetriesAssumption == Retries \in Nat
ASSUME NotificationFaults == Faults \subseteq FaultKinds

VARIABLES
  topic,         \* origenx.reservations.events
  committed,     \* the group's committed offset: how many events it is past
  position,      \* the consumer's position, the event in hand included
  at,            \* where each process is
  caller,        \* what each reservation's notification goroutine knows
  table,         \* table notifications: which path's row a reservation has
  emails,        \* emails sent for each reservation by each path
  sentEvents,    \* the NotificationSent events of each reservation
  failedEvents,  \* the reservations a NotificationFailed of which is in its topic
  disruptions

kafkaVars == <<topic, committed, position>>
effectVars == <<table, emails, sentEvents, failedEvents>>
vars == <<kafkaVars, at, caller, effectVars, disruptions>>

Processes == Reservations \cup {Worker}
Paths == {"grpc", "kafka"}
Events == [type : {"ReservationConfirmed", "ReservationCreated"}, reservation : Reservations]
InProcess == {"check", "save", "send", "processed", "duplicate", "error"}
HandlerSteps == InProcess \cup {"idle", "called", "answered", "crashed"}
WorkerSteps == InProcess \cup {"down", "poll", "commit"}

Path(p) == IF p = Worker THEN "kafka" ELSE "grpc"

\* The reservation a process is working on.
Subject(p) == IF p = Worker THEN topic[position].reservation ELSE p

Init ==
  /\ topic = <<>> /\ committed = 0 /\ position = 0
  /\ at = [p \in Processes |-> IF p = Worker THEN "down" ELSE "idle"]
  /\ caller = [r \in Reservations |-> "none"]
  /\ table = [r \in Reservations |-> "none"]
  /\ emails = [r \in Reservations |-> [q \in Paths |-> 0]]
  /\ sentEvents = [r \in Reservations |-> <<>>]
  /\ failedEvents = {}
  /\ disruptions = 0

Goto(p, step) == at' = [at EXCEPT ![p] = step]

\* One more email, or none when the sender fails.
Counted(count, fault) == {count + 1} \cup (IF fault \in Faults THEN {count} ELSE {})

\* One more event, with an event_id of its own.  It stands for the number of its
\* records in the topic notifications: without idempotence each retry of the
\* producer may write one more of the same id, and when it fails there is none.
\* What it writes after the 2 s of flush() counts as written here: only the
\* service that reads the topic could tell.
Published(events) ==
  {Append(events, n) : n \in (IF "publish_lost" \in Faults THEN 0 ELSE 1) .. 1 + Retries}

-----------------------------------------------------------------------------
(* reservation_service *)

\* The reservation is confirmed: the goroutine that calls SendConfirmation
\* starts, and so does the one that publishes ReservationConfirmed.
Confirm(r) ==
  /\ caller[r] = "none"
  /\ caller' = [caller EXCEPT ![r] = "waiting"]
  /\ Goto(r, "called")
  /\ UNCHANGED <<kafkaVars, effectVars, disruptions>>

\* An event is written to the topic; the producer's retries may write the same
\* one again, and its failure may leave it out.
Publish(r, type) ==
  /\ Len(topic) < MaxEvents
  /\ type = "ReservationConfirmed" => caller[r] # "none"
  /\ topic' = Append(topic, [type |-> type, reservation |-> r])
  /\ UNCHANGED <<committed, position, at, caller, effectVars, disruptions>>

GiveUp(r) ==
  /\ caller[r] = "waiting"
  /\ "gave_up" \in Faults \/ at[r] = "crashed"
  /\ caller' = [caller EXCEPT ![r] = "failed"]
  /\ UNCHANGED <<kafkaVars, at, effectVars, disruptions>>

-----------------------------------------------------------------------------
(* process_confirmation() *)

\* _is_duplicate(): a row of the user has this reservation and type.
CheckDuplicate(p) ==
  /\ at[p] = "check"
  /\ Goto(p, IF table[Subject(p)] # "none" THEN "duplicate" ELSE "save")
  /\ UNCHANGED <<kafkaVars, caller, effectVars, disruptions>>

SaveAfterEmail(p) ==  \* mutant: the row is saved once the email is out
  /\ at[p] = "save"
  /\ emails' = [emails EXCEPT ![Subject(p)][Path(p)] = @ + 1]
  /\ Goto(p, "send")
  /\ UNCHANGED <<kafkaVars, caller, table, sentEvents, failedEvents, disruptions>>

\* INSERT ... ON CONFLICT (reservation_id, tipo) DO NOTHING.  The row holds the
\* address of the path that wrote it first.
Inserted(p) ==
  IF table[Subject(p)] = "none" THEN [table EXCEPT ![Subject(p)] = Path(p)] ELSE table

SaveRow(p) ==
  /\ at[p] = "save"
  /\ table' = Inserted(p)
  /\ Goto(p, "send")
  /\ UNCHANGED <<kafkaVars, caller, emails, sentEvents, failedEvents, disruptions>>

\* The SELECT or the INSERT raises.
DatabaseError(p) ==
  /\ at[p] \in {"check", "save"}
  /\ \/ "db_error" \in Faults /\ UNCHANGED table
     \/ "ambiguous_save" \in Faults /\ at[p] = "save" /\ table' = Inserted(p)
  /\ Goto(p, "error")
  /\ UNCHANGED <<kafkaVars, caller, emails, sentEvents, failedEvents, disruptions>>

\* sender.send(): what Resend raises is logged and swallowed.
SendEmail(p) ==
  /\ at[p] = "send"
  /\ \E n \in Counted(emails[Subject(p)][Path(p)], "email_lost") :
       emails' = [emails EXCEPT ![Subject(p)][Path(p)] = n]
  /\ Goto(p, "processed")
  /\ UNCHANGED <<kafkaVars, caller, table, sentEvents, failedEvents, disruptions>>

Process(p) == CheckDuplicate(p) \/ SaveRow(p) \/ DatabaseError(p) \/ SendEmail(p)

-----------------------------------------------------------------------------
(* SendConfirmation() *)

\* context.is_active() is looked at here and nowhere else.
Enter(r) ==
  /\ at[r] = "called"
  /\ Goto(r, IF caller[r] = "waiting" THEN "check" ELSE "answered")
  /\ UNCHANGED <<kafkaVars, caller, effectVars, disruptions>>

AnswerAlwaysOk(r) ==  \* mutant: the exception is answered with success
  /\ at[r] \in {"processed", "duplicate", "error"}
  /\ caller' = [caller EXCEPT ![r] = IF @ = "waiting" THEN "ok" ELSE @]
  /\ Goto(r, "answered")
  /\ UNCHANGED <<kafkaVars, effectVars, disruptions>>

\* success=True for a new confirmation and for a duplicate, INTERNAL after an
\* exception; nobody hears it if the caller gave up.
Answer(r) ==
  /\ at[r] \in {"processed", "duplicate", "error"}
  /\ caller' = [caller EXCEPT ![r] =
       IF @ # "waiting" THEN @ ELSE IF at[r] = "error" THEN "failed" ELSE "ok"]
  /\ Goto(r, "answered")
  /\ UNCHANGED <<kafkaVars, effectVars, disruptions>>

-----------------------------------------------------------------------------
(* NotificationKafkaWorker *)

\* _connect_clients(): the consumer starts at the committed offset.
Connect ==
  /\ at[Worker] = "down"
  /\ position' = committed
  /\ Goto(Worker, "poll")
  /\ UNCHANGED <<topic, committed, caller, effectVars, disruptions>>

PollCommitting ==  \* mutant: the offset is committed before the event is handled
  /\ at[Worker] = "poll"
  /\ position < Len(topic)
  /\ position' = position + 1
  /\ committed' = position + 1
  /\ Goto(Worker, IF topic[position + 1].type = "ReservationConfirmed" THEN "check" ELSE "commit")
  /\ UNCHANGED <<topic, caller, effectVars, disruptions>>

\* The next event; should_process_event() skips all but ReservationConfirmed.
Poll ==
  /\ at[Worker] = "poll"
  /\ position < Len(topic)
  /\ position' = position + 1
  /\ Goto(Worker, IF topic[position + 1].type = "ReservationConfirmed" THEN "check" ELSE "commit")
  /\ UNCHANGED <<topic, committed, caller, effectVars, disruptions>>

TellTwice ==  \* mutant: a duplicate is announced as a new confirmation is
  /\ at[Worker] \in {"processed", "duplicate"}
  /\ \E events \in Published(sentEvents[Subject(Worker)]) :
       sentEvents' = [sentEvents EXCEPT ![Subject(Worker)] = events]
  /\ Goto(Worker, "commit")
  /\ UNCHANGED <<kafkaVars, caller, table, emails, failedEvents, disruptions>>

\* A new confirmation is announced as NotificationSent, status SENT.
TellSent ==
  /\ at[Worker] = "processed"
  /\ \E events \in Published(sentEvents[Subject(Worker)]) :
       sentEvents' = [sentEvents EXCEPT ![Subject(Worker)] = events]
  /\ Goto(Worker, "commit")
  /\ UNCHANGED <<kafkaVars, caller, table, emails, failedEvents, disruptions>>

\* A duplicate is not announced.
SkipDuplicate ==
  /\ at[Worker] = "duplicate"
  /\ Goto(Worker, "commit")
  /\ UNCHANGED <<kafkaVars, caller, effectVars, disruptions>>

SwallowError ==  \* mutant: the exception is logged only
  /\ at[Worker] = "error"
  /\ Goto(Worker, "commit")
  /\ UNCHANGED <<kafkaVars, caller, effectVars, disruptions>>

\* An exception becomes NotificationFailed, in the topic once or more; the event
\* is not tried again.
TellFailed ==
  /\ at[Worker] = "error"
  /\ failedEvents' \in {failedEvents \cup {Subject(Worker)}}
                         \cup (IF "publish_lost" \in Faults THEN {failedEvents} ELSE {})
  /\ Goto(Worker, "commit")
  /\ UNCHANGED <<kafkaVars, caller, table, emails, sentEvents, disruptions>>

\* _commit_message(): the position is committed, or the error is logged.
Commit ==
  /\ at[Worker] = "commit"
  /\ committed' \in {position} \cup (IF "commit_lost" \in Faults THEN {committed} ELSE {})
  /\ Goto(Worker, "poll")
  /\ UNCHANGED <<topic, position, caller, effectVars, disruptions>>

\* Polling raises (broker lost, rebalance): the clients are closed and, after
\* the back-off, connected again.
Disconnect ==
  /\ at[Worker] = "poll"
  /\ disruptions < MaxDisruptions
  /\ disruptions' = disruptions + 1
  /\ Goto(Worker, "down")
  /\ UNCHANGED <<kafkaVars, caller, effectVars>>

\* The process stops and is restarted: requests in progress are lost.
Crash ==
  /\ disruptions < MaxDisruptions
  /\ disruptions' = disruptions + 1
  /\ at' = [p \in Processes |->
       IF p = Worker THEN "down" ELSE IF at[p] \in {"idle", "answered"} THEN at[p] ELSE "crashed"]
  /\ UNCHANGED <<kafkaVars, caller, effectVars>>

WorkerStep ==
  \/ Connect \/ Poll \/ Process(Worker)
  \/ TellSent \/ SkipDuplicate \/ TellFailed \/ Commit

HandlerStep(r) == Enter(r) \/ Process(r) \/ Answer(r)

Next ==
  \/ \E r \in Reservations :
       \/ Confirm(r) \/ GiveUp(r) \/ HandlerStep(r)
       \/ \E type \in {"ReservationConfirmed", "ReservationCreated"} : Publish(r, type)
  \/ WorkerStep \/ Disconnect \/ Crash

Spec == Init /\ [][Next]_vars

\* The worker's thread never ends: it reconnects with a back-off of at most
\* 30 s, polls with a timeout of 1 s, and every call it makes returns.
FairSpec == Spec /\ WF_vars(WorkerStep)

-----------------------------------------------------------------------------
(* Properties *)

TypeOK ==
  /\ topic \in Seq(Events)
  /\ committed \in 0 .. Len(topic) /\ position \in 0 .. Len(topic)
  /\ at \in [Processes -> HandlerSteps \cup WorkerSteps]
  /\ at[Worker] \in WorkerSteps /\ \A r \in Reservations : at[r] \in HandlerSteps
  /\ caller \in [Reservations -> {"none", "waiting", "ok", "failed"}]
  /\ table \in [Reservations -> Paths \cup {"none"}]
  /\ emails \in [Reservations -> [Paths -> Nat]]
  /\ sentEvents \in [Reservations -> Seq(0 .. 1 + Retries)]
  /\ failedEvents \subseteq Reservations
  /\ disruptions \in 0 .. MaxDisruptions

\* Whatever is redelivered (after a crash, a lost commit, a producer's retry),
\* each path sends at most one email for a reservation: the row is saved before
\* the email, so what is redelivered finds it (contracts/events/README.md:93).
OneEmailPerPath == \A r \in Reservations, q \in Paths : emails[r][q] <= 1

\* At most one NotificationSent is made for a reservation, whatever is
\* redelivered, and only when its row is in the table.  All its records in the
\* topic are then copies with one event_id, which a consumer can take once:
\* "event_id es obligatorio y unico" (contracts/events/README.md:92-99).
SentOnce ==
  \A r \in Reservations :
    Len(sentEvents[r]) <= 1 /\ (sentEvents[r] # <<>> => table[r] # "none")

\* The committed offset never passes a confirmation that left no trace: it has
\* a row, or a NotificationFailed was published for it.  Crashes between any
\* two steps, and commits of a position further on, do not skip one.
CommittedIsAccounted ==
  \A i \in 1 .. committed :
    LET r == topic[i].reservation IN
      topic[i].type = "ReservationConfirmed" => table[r] # "none" \/ r \in failedEvents

\* A saga is COMPLETED only if its confirmation is in the table: OK is never
\* answered after an exception, nor by a call that found a row gone.
CompletedIsRecorded == \A r \in Reservations : caller[r] = "ok" => table[r] # "none"

\* Every confirmation in the topic is eventually recorded or reported as
\* failed, through disconnections, crashes and lost commits: the worker never
\* gets stuck behind an event.
EventsHandled ==
  \A i \in 1 .. MaxEvents : \A r \in Reservations :
    (Len(topic) >= i /\ topic[i] = [type |-> "ReservationConfirmed", reservation |-> r])
      ~> (table[r] # "none" \/ r \in failedEvents)

\* docs/Documento_Tecnico_Kafka.md:163, "usa idempotencia para evitar
\* duplicados, ya que ... la confirmacion puede llegar por gRPC y tambien por
\* Kafka": one email per reservation.
OneEmail == \A r \in Reservations : emails[r]["grpc"] + emails[r]["kafka"] <= 1
=============================================================================
