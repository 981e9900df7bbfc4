------------------------- MODULE ReservationService -------------------------
(***************************************************************************)
(* The process of reservation_service around the saga: its start against a *)
(* PostgreSQL that may not be up and a schema that an older version or an  *)
(* interrupted start left behind, the goroutines that publish its events,  *)
(* the two calls that only read, and a stop at any moment.                 *)
(*                                                                         *)
(* The saga's handlers are those of ReservationSaga; what they announce is *)
(* handed to a goroutine each.  What a statement meets while the service   *)
(* serves is in the saga's Faults, so the database changes only before.    *)
(***************************************************************************)
EXTENDS ReservationSaga, Sequences

CONSTANTS
  MaxPings,  \* 15 in the code
  MaxStops   \* bound on the stops

ASSUME ServiceAssumption == MaxPings \in Nat \ {0} /\ MaxStops \in Nat

VARIABLES
  phase,       \* where the process is
  pings,       \* pings this start has failed
  stops,
  dbUp,        \* PostgreSQL answers the process that starts
  schema,      \* tables, columns and indexes there are
  publisher,   \* none, kafka or noop
  publishing,  \* events whose goroutine is running
  topic,       \* origenx.reservations.events
  read         \* of the last read: what it did not show of what it was to
               \*   show, and whether it failed or was cut short

processVars == <<phase, pings, stops, dbUp, schema, publisher>>
serviceVars == <<processVars, publishing, topic, read>>

Objects == {"reservations", "saga_id", "idx_user_created_at", "idempotency_key",
            "idx_idempotency_key", "sagas", "saga_events", "idx_saga_events"}

StatementsKeyLast ==  \* mutant: the index before the column it is on
  <<"reservations", "saga_id", "idx_user_created_at", "idx_idempotency_key",
    "idempotency_key", "sagas", "saga_events", "idx_saga_events">>

\* The statements of initializeReservationSchema(), in their order.
Statements ==
  <<"reservations", "saga_id", "idx_user_created_at", "idempotency_key",
    "idx_idempotency_key", "sagas", "saga_events", "idx_saga_events">>

\* What must be there for a statement to succeed.
Needs(object) ==
  CASE object \in {"saga_id", "idx_user_created_at", "idempotency_key"} -> {"reservations"}
    [] object = "idx_idempotency_key" -> {"idempotency_key"}
    [] object = "saga_events" -> {"sagas"}
    [] object = "idx_saga_events" -> {"saga_events"}
    [] OTHER -> {}

\* A new volume, and those of the versions before the sagas and the keys.
Schemas == {{}, {"reservations"}, Objects \ {"idempotency_key", "idx_idempotency_key"}, Objects}

ServiceInit ==
  /\ Init
  /\ phase = "down" /\ pings = 0 /\ stops = 0 /\ dbUp = FALSE
  /\ schema \in Schemas
  /\ publisher = "none"
  /\ publishing = {} /\ topic = {}
  /\ read = [missing |-> {}, cut |-> FALSE]

-----------------------------------------------------------------------------
(* main() *)

\* docker compose starts the container, again whenever it ends.
Start ==
  /\ phase = "down"
  /\ phase' = "ping" /\ pings' = 0
  /\ UNCHANGED <<vars, stops, dbUp, schema, publisher, publishing, topic, read>>

PingFailsOffByOne ==  \* mutant: i <= 15
  /\ phase = "ping" /\ ~dbUp
  /\ pings' = pings + 1
  /\ phase' = IF pings > MaxPings THEN "down" ELSE "ping"
  /\ UNCHANGED <<vars, stops, dbUp, schema, publisher, publishing, topic, read>>

\* One ping every three seconds; after the last the process ends.
PingFails ==
  /\ phase = "ping" /\ ~dbUp
  /\ pings' = pings + 1
  /\ phase' = IF pings + 1 = MaxPings THEN "down" ELSE "ping"
  /\ UNCHANGED <<vars, stops, dbUp, schema, publisher, publishing, topic, read>>

PingAnswered ==
  /\ phase = "ping" /\ dbUp
  /\ phase' = "schema"
  /\ UNCHANGED <<vars, pings, stops, dbUp, schema, publisher, publishing, topic, read>>

Missing == {n \in 1 .. Len(Statements) : Statements[n] \notin schema}

\* The statement that fails, or makes the first of what is missing: IF NOT EXISTS
\* makes nothing of those before it, which the database must answer too.
Todo == {n \in Missing : \A m \in Missing : n <= m}

StatementFails == ~dbUp \/ \E n \in Todo : ~(Needs(Statements[n]) \subseteq schema)

StatementMakes ==
  /\ ~StatementFails
  /\ \E n \in Todo : schema' = schema \cup {Statements[n]}
  /\ UNCHANGED phase

CreateSchemaIgnoringErrors ==  \* mutant: log.Printf instead of log.Fatalf
  /\ phase = "schema"
  /\ StatementMakes \/ (StatementFails /\ phase' = "listen" /\ UNCHANGED schema)
  /\ UNCHANGED <<vars, pings, stops, dbUp, publisher, publishing, topic, read>>

\* initializeReservationSchema(): an error ends the process, also that of a
\* statement whose object is there.
CreateSchema ==
  /\ phase = "schema"
  /\ StatementMakes \/ (StatementFails /\ phase' = "down" /\ UNCHANGED schema)
  /\ UNCHANGED <<vars, pings, stops, dbUp, publisher, publishing, topic, read>>

SchemaCreated ==
  /\ phase = "schema" /\ Missing = {}
  /\ phase' = "listen"
  /\ UNCHANGED <<vars, pings, stops, dbUp, schema, publisher, publishing, topic, read>>

\* KAFKA_ENABLED: unset, or one of the spellings somebody may give it, of which
\* upper case and spaces do not count.
getEnvBool(value, fallback) ==
  CASE value = "true" -> TRUE [] value = "false" -> FALSE [] OTHER -> fallback

\* KAFKA_BOOTSTRAP_SERVERS: unset or blank, given, or separators alone.
Servers == {"", "kafka:9092", ","}

getEnv(value, fallback) == IF value = "" THEN fallback ELSE value

splitBootstrapServers(value) == {value} \ {"", ","}

\* A writer without addresses fails on every event: it is taken for a
\* NoopPublisher, which drops them.
NewPublisher(enabled, servers) ==
  IF enabled /\ splitBootstrapServers(servers) # {} THEN "kafka" ELSE "noop"

\* The rest of main(), up to Serve().
Listen ==
  /\ phase = "listen"
  /\ phase' = "serving"
  /\ \E value \in {"unset", "true", "false"}, servers \in Servers :
       publisher' = NewPublisher(getEnvBool(value, FALSE), getEnv(servers, "kafka:9092"))
  /\ UNCHANGED <<vars, pings, stops, dbUp, schema, publishing, topic, read>>

DatabaseChanges ==
  /\ phase # "serving"
  /\ dbUp' = ~dbUp
  /\ UNCHANGED <<vars, phase, pings, stops, schema, publisher, publishing, topic, read>>

StartStep == PingFails \/ PingAnswered \/ CreateSchema \/ SchemaCreated \/ Listen

-----------------------------------------------------------------------------
(* The handlers, and what they leave running *)

\* An INSERT looks at the keys only when their unique index is there.
InsertRow(a) ==
  /\ pc[a] = "insert"
  /\ a \notin cancelled
  /\ "idx_idempotency_key" \in schema => Booked(a) = {}
  /\ reservations' = reservations \cup {a}
  /\ Goto(a, "inserted")
  /\ UNCHANGED <<cancelled, tries, reply, notification, saga, announced, inventoryVars>>

\* Each event goes to a goroutine of its own.
Publishes ==
  /\ publishing' = publishing \cup (announced' \ announced)
  /\ UNCHANGED <<processVars, topic, read>>

HandleWaiting(a) ==  \* mutant: publishReservationEvent() without its goroutine
  /\ phase = "serving"
  /\ \A e \in publishing : e[1] # a
  /\ Handle(a) \/ InsertRow(a) \/ Notified(a)
  /\ Publishes

Serves(a) ==
  /\ phase = "serving"
  /\ Handle(a) \/ InsertRow(a) \/ Notified(a)
  /\ Publishes

\* What goes on around the process, up or not.
Around ==
  /\ (\E a \in Attempts : Cancel(a)) \/ (\E r \in Requests : Serve(r))
  /\ UNCHANGED serviceVars

\* The payloads: only that of a confirmation names the reservation.
ReservationCreatedPayload == [status |-> "CREATING"]
ReservationConfirmedPayload(r) == [status |-> "CONFIRMED", reservation_id |-> r]
ReservationFailedPayload == [status |-> "FAILED"]

\* What the saga announced, as it is written to the topic: the identifier of the
\* event, its key (the request's user, or the reservation) and its payload.
newEvent(e, key, payload) == [event_id |-> e, key |-> key, payload |-> payload]

NewReservationCreated(e) == newEvent(e, "user", ReservationCreatedPayload)
NewReservationConfirmed(e) == newEvent(e, e[1], ReservationConfirmedPayload(e[1]))
NewReservationFailed(e) == newEvent(e, "user", ReservationFailedPayload)

Message(e) ==
  CASE e[2] = "Created" -> NewReservationCreated(e)
    [] e[2] = "Confirmed" -> NewReservationConfirmed(e)
    [] e[2] = "Failed" -> NewReservationFailed(e)

\* Publish() under WithoutCancel and two seconds: Kafka takes the event, or it
\* is lost and logged; a NoopPublisher drops it.  The writer may write it more
\* than once; the copies are one message, by their event_id.
Publish(e) ==
  /\ e \in publishing
  /\ publishing' = publishing \ {e}
  /\ topic' \in {topic} \cup (IF publisher = "kafka" THEN {topic \cup {Message(e)}} ELSE {})
  /\ UNCHANGED <<vars, processVars, read>>

-----------------------------------------------------------------------------
(* GetReservation() and ListReservations() *)

\* The reservations somebody was told of, by an answer or by an event.
Told ==
  {r \in Attempts : \E a \in Attempts : reply[a].code = "OK" /\ reply[a].reservation = r}
    \cup {m.payload.reservation_id : m \in {n \in topic : n.payload.status = "CONFIRMED"}}

Read(rows, wanted, cut) ==
  /\ read' = [missing |-> wanted \ rows, cut |-> cut]
  /\ UNCHANGED <<vars, processVars, publishing, topic>>

GetReservation(r) ==
  /\ phase = "serving"
  /\ \/ Read(reservations \cap {r}, Told \cap {r}, FALSE)
     \/ Read({}, Told \cap {r}, TRUE)

ListCompleted ==  \* mutant: only the reservations whose saga is COMPLETED
  /\ phase = "serving"
  /\ Read({r \in reservations : saga[r].status \in Final}, Told, FALSE)

\* All the requests are one user's.  rows.Err() is not looked at: a connection
\* that breaks while the rows are read leaves some of them, answered OK.
ListReservations ==
  /\ phase = "serving"
  /\ \/ Read(reservations, Told, FALSE)
     \/ \E rows \in SUBSET reservations : Read(rows, Told, TRUE)

-----------------------------------------------------------------------------
\* The process ends, with all its goroutines.
Stop ==
  /\ phase # "down" /\ stops < MaxStops
  /\ phase' = "down" /\ publisher' = "none" /\ publishing' = {}
  /\ stops' = stops + 1
  /\ \/ Crash
     \/ /\ \A a \in Attempts : ~InProgress(a) /\ notification[a] # "sending"
        /\ UNCHANGED vars
  /\ UNCHANGED <<pings, dbUp, schema, topic, read>>

ServiceNext ==
  \/ Start \/ StartStep \/ DatabaseChanges \/ Stop \/ Around
  \/ \E a \in Attempts : Serves(a) \/ GetReservation(a)
  \/ ListReservations
  \/ \E e \in publishing : Publish(e)

ServiceSpec == ServiceInit /\ [][ServiceNext]_<<vars, serviceVars>>

\* The container is started again and a start goes on; a handler that has begun
\* and the inventory it calls go on too.  Nothing is asked of Kafka.
ServiceFairSpec ==
  /\ ServiceSpec
  /\ WF_<<vars, serviceVars>>(Start)
  /\ WF_<<vars, serviceVars>>(StartStep)
  /\ \A a \in Attempts : WF_<<vars, serviceVars>>(pc[a] # "idle" /\ Serves(a))
  /\ WF_<<vars, serviceVars>>((\E r \in Requests : Serve(r)) /\ UNCHANGED serviceVars)

-----------------------------------------------------------------------------
(* Properties *)

ServiceTypeOK ==
  /\ phase \in {"down", "ping", "schema", "listen", "serving"}
  /\ pings \in 0 .. MaxPings
  /\ stops \in 0 .. MaxStops
  /\ dbUp \in BOOLEAN
  /\ schema \subseteq Objects
  /\ publisher \in {"none", "kafka", "noop"}
  /\ publishing \subseteq announced
  /\ topic \subseteq {Message(e) : e \in announced}
  /\ read.missing \subseteq Told /\ read.cut \in BOOLEAN

\* A reservation that a request was answered with, or that a consumer of the topic
\* was told is confirmed, is found by every later read that is not cut short,
\* also after the process died and started again.
AnsweredIsFound == read.cut \/ read.missing = {}

\* Kafka may never take an event: every request that has begun still ends
\* (docs/Documento_Tecnico_Kafka.md:260, "Si Kafka falla, la operacion principal
\* no falla"), unless the process dies with it.
EndsWithoutKafka == \A a \in Attempts : pc[a] = "start" ~> pc[a] \in Finished

\* Once the database stays up the service always comes back and serves, whatever
\* an interrupted start or an older version left of the schema
\* (docker-compose.yml:190).
ComesBack == <>[]dbUp => []<>(phase = "serving")
=============================================================================
