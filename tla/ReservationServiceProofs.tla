----------------------- MODULE ReservationServiceProofs ----------------------
(***************************************************************************)
(* Proofs about the process of reservation_service around the saga, for    *)
(* any number of requests, stops and failed pings, any schema it finds and *)
(* any faults.  What the process must do for the theorems about the saga   *)
(* to be about it is one invariant: it serves no request before the unique *)
(* index on idempotency_key is there (IndexFirst).  Then every step of the *)
(* process is a step of the saga or none, and what holds of Spec holds of  *)
(* ServiceSpec.  The rest is what is told outside (the topic and the       *)
(* reads), and, last, that what one service writes the other reads.        *)
(***************************************************************************)
EXTENDS ReservationService, ReservationSagaProofs, Contracts

-----------------------------------------------------------------------------
(* The process runs the saga *)

\* The process listens only after the last statement of the schema.
IndexFirst == phase \in {"listen", "serving"} => "idx_idempotency_key" \in schema

LEMMA NextKeepsIndexFirst ==
  ASSUME IndexFirst, [ServiceNext]_<<vars, serviceVars>>
  PROVE  IndexFirst'
<1> USE DEF IndexFirst, serviceVars, processVars
<1>1. CASE SchemaCreated
  <2>1. 5 \in 1 .. Len(Statements) /\ Statements[5] = "idx_idempotency_key"
    BY DEF Statements
  <2>2. "idx_idempotency_key" \in schema
    BY <1>1, <2>1 DEF SchemaCreated, Missing
  <2> QED BY <1>1, <2>2 DEF SchemaCreated
<1>2. CASE CreateSchema
  <2>1. phase' \notin {"listen", "serving"} \/ phase' = phase
    BY <1>2 DEF CreateSchema, StatementMakes
  <2>2. schema \subseteq schema'
    BY <1>2 DEF CreateSchema, StatementMakes
  <2> QED BY <1>2, <2>1, <2>2 DEF CreateSchema
<1>3. CASE Start \/ PingFails \/ PingAnswered \/ Listen \/ DatabaseChanges \/ Stop
  BY <1>3 DEF Start, PingFails, PingAnswered, Listen, DatabaseChanges, Stop
<1>4. CASE UNCHANGED processVars
  BY <1>4
<1> QED
  BY <1>1, <1>2, <1>3, <1>4
  DEF ServiceNext, StartStep, Around, Serves, Publishes, GetReservation, ListReservations, Read, Publish

LEMMA IndexFirstHolds == ServiceSpec => []IndexFirst
<1>1. ServiceInit => IndexFirst
  BY DEF ServiceInit, IndexFirst
<1> QED BY <1>1, NextKeepsIndexFirst, PTL DEF ServiceSpec

\* With the index, the process takes the saga's steps.
LEMMA ServiceStepIsSagaStep ==
  ASSUME IndexFirst, [ServiceNext]_<<vars, serviceVars>>
  PROVE  [Next]_vars
<1>1. ASSUME NEW a \in Attempts, Serves(a)
      PROVE  Next
  <2>1. InsertRow(a) => Insert(a)
    BY <1>1 DEF Serves, InsertRow, Insert, IndexFirst
  <2> QED BY <1>1, <2>1 DEF Serves, Handle, Next
<1>2. CASE Around
  BY <1>2 DEF Around, Next
<1>3. CASE Stop
  BY <1>3 DEF Stop, Next
<1>4. CASE UNCHANGED vars
  BY <1>4
<1> QED
  BY <1>1, <1>2, <1>3, <1>4
  DEF ServiceNext, StartStep, Start, PingFails, PingAnswered, CreateSchema, SchemaCreated, Listen,
      DatabaseChanges, GetReservation, ListReservations, Read, Publish

\* Whatever schema it finds and however often it stops, the process behaves as
\* the saga: every theorem about Spec is one about the process.
THEOREM ServiceRunsTheSaga == ServiceSpec => Spec
<1>1. ServiceInit => Init
  BY DEF ServiceInit
<1>2. IndexFirst /\ [ServiceNext]_<<vars, serviceVars>> => [Next]_vars
  BY ServiceStepIsSagaStep
<1> QED BY <1>1, <1>2, IndexFirstHolds, PTL DEF ServiceSpec, Spec

\* In particular one key has one reservation, in the answers and in the table,
\* also while a schema older than the keys is being brought up to date, and a
\* confirmed reservation keeps its room across restarts.
THEOREM ServiceAnswersOnce ==
  ServiceSpec => /\ []SameKeySameAnswer
                 /\ ImplementsBooking
                 /\ InsertIsReliable => []BookedKeepsRoom
  BY ServiceRunsTheSaga, SameKeyGetsSameAnswer, SagaImplementsBooking, BookedKeepsItsRoom, PTL

-----------------------------------------------------------------------------
(* What is told outside, and what a read finds *)

\* A handler's step announces one event at most, of its own, and a
\* confirmation only for the row it has inserted.
LEMMA HandleAnnounces ==
  ASSUME NEW a \in Attempts, Handle(a)
  PROVE  \/ announced' = announced
         \/ \E type \in {"Created", "Failed"} : announced' = announced \cup {<<a, type>>}
         \/ pc[a] = "inserted" /\ announced' = announced \cup {<<a, "Confirmed">>}
<1> USE DEF dbVars, Announce
<1>1. CASE Confirm(a)
  BY <1>1 DEF Confirm
<1>2. CASE StartSaga(a)
  BY <1>2 DEF StartSaga
<1>3. CASE InsertFails(a)
  BY <1>3 DEF InsertFails, InsertError
<1>4. ASSUME NEW state, NEW code, Fail(a, state, code)
      PROVE  announced' = announced \cup {<<a, "Failed">>}
  BY <1>4 DEF Fail
<1>5. CASE UserRejected(a) \/ LockNotSent(a) \/ LockRefused(a) \/ LockAbandoned(a)
  BY <1>4, <1>5 DEF UserRejected, LockNotSent, LockRefused, LockAbandoned
<1>6. CASE UNCHANGED announced
  BY <1>6
<1> QED
  BY <1>1, <1>2, <1>3, <1>5, <1>6
  DEF Handle, Replay, Begin, StartSaga, StartSagaFails, UserValidated, SendLock, Locked, Insert,
      SendRelease, ReleaseNotSent, Released, ReleaseUnsuccessful, FinishFailed

\* Nothing announced, booked or answered OK is taken back.
LEMMA NothingTakenBack ==
  ASSUME Base, [Next]_vars
  PROVE  /\ announced \subseteq announced'
         /\ reservations \subseteq reservations'
         /\ \A a \in Attempts : reply[a].code = "OK" => reply'[a] = reply[a]
         /\ \A e \in announced' \ announced : e[2] = "Confirmed" => e[1] \in reservations
<1>1. BookingStep
  BY NextIsBookingStep
<1>2. reservations \subseteq reservations'
  BY <1>1 DEF BookingStep
<1>3. \A a \in Attempts : reply[a].code = "OK" => reply'[a] = reply[a]
  BY <1>1 DEF BookingStep, Base, HandlerTyped
<1>4. ASSUME NEW a \in Attempts, Handle(a)
      PROVE  /\ announced \subseteq announced'
             /\ \A e \in announced' \ announced : e[2] = "Confirmed" => e[1] \in reservations
  BY <1>4, HandleAnnounces DEF Base, Positions
<1>5. CASE UNCHANGED announced
  BY <1>2, <1>3, <1>5
<1> QED
  BY <1>2, <1>3, <1>4, <1>5
  DEF Next, Notified, Cancel, Serve, Apply, Refuse, Crash, vars, handlerVars, dbVars

\* Who was told of a reservation finds its row: the topic holds announced
\* events only, and a confirmation is announced after the INSERT.
ToldIsBooked ==
  /\ \A e \in announced : e[2] = "Confirmed" => e[1] \in reservations
  /\ publishing \subseteq announced
  /\ topic \subseteq {Message(e) : e \in announced}

\* Only the message of a confirmation names a reservation.
LEMMA ToldAreBooked ==
  ASSUME Base, Answers, ToldIsBooked
  PROVE  Told \subseteq reservations
<1> SUFFICES ASSUME NEW r \in Told PROVE r \in reservations
  OBVIOUS
<1>1. CASE \E a \in Attempts : reply[a].code = "OK" /\ reply[a].reservation = r
  BY <1>1 DEF Answers
<1>2. CASE r \in {m.payload.reservation_id : m \in {n \in topic : n.payload.status = "CONFIRMED"}}
  <2>1. PICK e \in announced :
          /\ Message(e).payload.status = "CONFIRMED"
          /\ r = Message(e).payload.reservation_id
    BY <1>2 DEF ToldIsBooked
  <2>2. e[2] \in {"Created", "Confirmed", "Failed"}
    BY DEF Base, HandlerTyped
  <2>3. e[2] = "Confirmed" /\ Message(e) = NewReservationConfirmed(e)
    BY <2>1, <2>2 DEF Message, NewReservationCreated, NewReservationFailed, newEvent,
       ReservationCreatedPayload, ReservationFailedPayload
  <2>4. r = e[1]
    BY <2>1, <2>3 DEF NewReservationConfirmed, newEvent, ReservationConfirmedPayload
  <2> QED BY <2>3, <2>4 DEF ToldIsBooked
<1> QED BY <1>1, <1>2 DEF Told

\* The last read, which may be older than what is told now.
ReadTold == read.missing \subseteq Told /\ read.cut \in BOOLEAN

LEMMA ServiceKeepsTold ==
  ASSUME IndexFirst, Base, Answers, ToldIsBooked, ReadTold, AnsweredIsFound,
         [ServiceNext]_<<vars, serviceVars>>
  PROVE  ToldIsBooked' /\ ReadTold' /\ AnsweredIsFound'
<1>0. [Next]_vars
  BY ServiceStepIsSagaStep
<1>1. /\ announced \subseteq announced'
      /\ reservations \subseteq reservations'
      /\ \A a \in Attempts : reply[a].code = "OK" => reply'[a] = reply[a]
      /\ \A e \in announced' \ announced : e[2] = "Confirmed" => e[1] \in reservations
  BY <1>0, NothingTakenBack
<1>2. \A e \in announced' : e[2] = "Confirmed" => e[1] \in reservations'
  BY <1>1 DEF ToldIsBooked
<1>3. ASSUME topic \subseteq topic'
      PROVE  Told \subseteq Told'
  BY <1>1, <1>3 DEF Told
<1>4. ASSUME publishing' \subseteq publishing \cup announced', UNCHANGED <<topic, read>>
      PROVE  ToldIsBooked' /\ ReadTold' /\ AnsweredIsFound'
  <2>1. ToldIsBooked'
    BY <1>1, <1>2, <1>4 DEF ToldIsBooked
  <2> QED BY <1>3, <1>4, <2>1 DEF ReadTold, AnsweredIsFound
<1>5. ASSUME NEW e \in publishing, Publish(e)
      PROVE  ToldIsBooked' /\ ReadTold' /\ AnsweredIsFound'
  <2>1. topic \subseteq topic' /\ topic' \subseteq topic \cup {Message(e)} /\ UNCHANGED read
    BY <1>5 DEF Publish
  <2>2. e \in announced'
    BY <1>1 DEF ToldIsBooked
  <2>3. topic' \subseteq {Message(d) : d \in announced'}
    <3>1. \A d \in announced' : Message(d)' = Message(d)
      BY DEF Message, NewReservationCreated, NewReservationConfirmed, NewReservationFailed, newEvent
    <3> QED BY <1>1, <2>1, <2>2 DEF ToldIsBooked
  <2>4. publishing' \subseteq announced'
    BY <1>1, <1>5 DEF Publish, ToldIsBooked
  <2>5. ToldIsBooked'
    BY <1>2, <2>3, <2>4 DEF ToldIsBooked
  <2> QED BY <1>3, <2>1, <2>5 DEF ReadTold, AnsweredIsFound
<1>6. ASSUME NEW rows, NEW wanted \in SUBSET Told, NEW cut \in BOOLEAN, Read(rows, wanted, cut),
             cut \/ wanted \subseteq rows
      PROVE  ToldIsBooked' /\ ReadTold' /\ AnsweredIsFound'
  <2>1. /\ read' = [missing |-> wanted \ rows, cut |-> cut]
        /\ UNCHANGED <<publishing, topic, vars>>
    BY <1>6 DEF Read
  <2>2. read'.missing \subseteq Told' /\ read'.cut \in BOOLEAN
    BY <1>3, <2>1
  <2>3. read'.cut \/ read'.missing = {}
    BY <1>6, <2>1
  <2>4. ToldIsBooked'
    BY <1>1, <1>2, <2>1 DEF ToldIsBooked
  <2> QED BY <2>2, <2>3, <2>4 DEF ReadTold, AnsweredIsFound
<1>7. Told \subseteq reservations
  BY ToldAreBooked
<1>8. ASSUME NEW r \in Attempts, GetReservation(r)
      PROVE  ToldIsBooked' /\ ReadTold' /\ AnsweredIsFound'
  <2>1. Told \cap {r} \in SUBSET Told /\ Told \cap {r} \subseteq reservations \cap {r}
    BY <1>7
  <2> QED BY <1>6, <1>8, <2>1 DEF GetReservation
<1>9. CASE ListReservations
  BY <1>6, <1>7, <1>9 DEF ListReservations
<1>10. CASE UNCHANGED <<topic, read>> /\ publishing' \subseteq publishing \cup announced'
  BY <1>4, <1>10
<1> QED
  BY <1>5, <1>8, <1>9, <1>10
  DEF ServiceNext, StartStep, Start, PingFails, PingAnswered, CreateSchema, SchemaCreated, Listen,
      DatabaseChanges, Stop, Around, Serves, Publishes, serviceVars

LEMMA ServiceToldHolds == ServiceSpec => [](ToldIsBooked /\ ReadTold /\ AnsweredIsFound)
<1>1. ServiceInit => ToldIsBooked /\ ReadTold /\ AnsweredIsFound
  BY DEF ServiceInit, Init, ToldIsBooked, ReadTold, AnsweredIsFound
<1>2. IndexFirst /\ Base /\ Answers /\ ToldIsBooked /\ ReadTold /\ AnsweredIsFound
        /\ [ServiceNext]_<<vars, serviceVars>>
          => (ToldIsBooked /\ ReadTold /\ AnsweredIsFound)'
  BY ServiceKeepsTold
<1> QED
  BY <1>1, <1>2, IndexFirstHolds, ServiceRunsTheSaga, BaseHolds, AnswersHold, PTL DEF ServiceSpec

\* A reservation that anybody was told of, by an answer or on the topic, is found
\* by every read that is not cut short, also after restarts, whatever fails and
\* whatever Kafka does with the events.
THEOREM WhatIsAnsweredIsFound == ServiceSpec => []AnsweredIsFound
  BY ServiceToldHolds, PTL

\* The start counts its pings, and the process its stops, within their bounds.
ProcessTyped ==
  /\ phase \in {"down", "ping", "schema", "listen", "serving"}
  /\ pings \in 0 .. MaxPings
  /\ phase = "ping" => pings < MaxPings
  /\ stops \in 0 .. MaxStops
  /\ dbUp \in BOOLEAN
  /\ schema \subseteq Objects
  /\ publisher \in {"none", "kafka", "noop"}

LEMMA ServiceKeepsProcessTyped ==
  ASSUME ProcessTyped, [ServiceNext]_<<vars, serviceVars>>
  PROVE  ProcessTyped'
<1> USE ServiceAssumption DEF ServiceAssumption, ProcessTyped
<1>1. CASE Start
  BY <1>1 DEF Start
<1>2. CASE PingFails
  BY <1>2 DEF PingFails
<1>3. CASE PingAnswered
  BY <1>3 DEF PingAnswered
<1>4. CASE CreateSchema
  <2>1. CASE StatementMakes
    <3>1. PICK n \in Missing : schema' = schema \cup {Statements[n]}
      BY <2>1 DEF StatementMakes, Todo
    <3>2. Statements[n] \in Objects
      BY <3>1 DEF Missing, Statements, Objects
    <3>3. schema' \subseteq Objects /\ phase' = phase
      BY <2>1, <3>1, <3>2 DEF StatementMakes
    <3> QED BY <1>4, <3>3 DEF CreateSchema
  <2>2. CASE phase' = "down" /\ UNCHANGED schema
    BY <1>4, <2>2 DEF CreateSchema
  <2> QED BY <1>4, <2>1, <2>2 DEF CreateSchema
<1>5. CASE SchemaCreated
  BY <1>5 DEF SchemaCreated
<1>6. CASE Listen
  BY <1>6 DEF Listen, NewPublisher
<1>7. CASE DatabaseChanges
  BY <1>7 DEF DatabaseChanges
<1>8. CASE Stop
  BY <1>8 DEF Stop
<1>9. CASE UNCHANGED processVars
  BY <1>9 DEF processVars
<1> QED
  BY <1>1, <1>2, <1>3, <1>4, <1>5, <1>6, <1>7, <1>8, <1>9
  DEF ServiceNext, StartStep, Around, Serves, Publishes, GetReservation, ListReservations, Read,
      Publish, serviceVars

\* The types of the process, with what is published and what a read may miss.
THEOREM ServiceTypeCorrect == ServiceSpec => []ServiceTypeOK
<1>1. ServiceInit => ProcessTyped
  <2> SUFFICES ASSUME ServiceInit PROVE ProcessTyped
    OBVIOUS
  <2>1. schema \subseteq Objects
    <3>1. {"reservations"} \subseteq Objects
      BY DEF Objects
    <3>2. schema \in {{}, {"reservations"}, Objects \ {"idempotency_key", "idx_idempotency_key"}, Objects}
      BY DEF ServiceInit, Schemas
    <3> HIDE DEF Objects
    <3> QED BY <3>1, <3>2
  <2>2. /\ phase = "down" /\ publisher = "none"
        /\ pings \in 0 .. MaxPings /\ stops \in 0 .. MaxStops
    BY ServiceAssumption DEF ServiceAssumption, ServiceInit
  <2>3. dbUp \in BOOLEAN
    BY DEF ServiceInit
  <2>4. phase # "ping"
    BY <2>2
  <2>5. /\ phase \in {"down", "ping", "schema", "listen", "serving"}
        /\ publisher \in {"none", "kafka", "noop"}
    BY <2>2
  <2> QED BY <2>1, <2>2, <2>3, <2>4, <2>5, Zenon DEF ProcessTyped
<1>2. ProcessTyped /\ ToldIsBooked /\ ReadTold => ServiceTypeOK
  BY DEF ProcessTyped, ToldIsBooked, ReadTold, ServiceTypeOK
<1> QED BY <1>1, <1>2, ServiceKeepsProcessTyped, ServiceToldHolds, PTL DEF ServiceSpec

-----------------------------------------------------------------------------
(* The messages between the services *)

(***************************************************************************)
(* A field both copies have is read as it was written, for every value:    *)
(* the two numbers of its name are one, and so are the two types.          *)
(***************************************************************************)
LEMMA FieldArrives ==
  ASSUME NEW s, NEW r, NEW m, NEW f \in Fields(s) \cap Fields(r),
         Compatible(s, r), Compatible(r, r)
  PROVE  Decode(r, Encode(s, m))[f] = m[f]
<1> DEFINE wire == Encode(s, m)
           n == CHOOSE k \in DOMAIN r : r[k].name = f
<1>1. n \in DOMAIN r /\ r[n].name = f
  BY DEF Fields
<1>2. PICK j \in DOMAIN s : s[j].name = f
  BY DEF Fields
<1>3. j = n /\ WireType(s[j].type) = WireType(r[n].type)
  BY <1>1, <1>2 DEF Compatible
<1>4. Decode(r, wire)[f] = IF n \in DOMAIN wire /\ wire[n].type = WireType(r[n].type)
                           THEN wire[n].value ELSE Zero
  BY DEF Decode
<1>5. n \in DOMAIN wire <=> m[f] # Zero
  BY <1>2, <1>3 DEF Encode
<1>6. CASE m[f] # Zero
  <2>1. wire[n] = [type |-> WireType(s[n].type), value |-> m[s[n].name]]
    BY <1>5, <1>6 DEF Encode
  <2>2. wire[n].type = WireType(r[n].type) /\ wire[n].value = m[f]
    BY <2>1, <1>2, <1>3
  <2> QED BY <1>4, <1>5, <1>6, <2>2
<1>7. CASE m[f] = Zero
  BY <1>4, <1>5, <1>7
<1> QED BY <1>6, <1>7

(***************************************************************************)
(* Compatible has no direction: it serves the answer as it does the call.  *)
(***************************************************************************)
LEMMA CompatibleBothWays ==
  ASSUME NEW s, NEW r, Compatible(s, r)
  PROVE  Compatible(r, s)
BY DEF Compatible

(***************************************************************************)
(* Of every call between two of the services, the callee reads the request *)
(* the caller wrote and the caller the answer the callee wrote, field by   *)
(* field and whatever the values, although their .proto files are separate *)
(* copies (mi-servicio/pb, inventario-service/proto/gen, user.proto,       *)
(* notifications.proto, api-gateway/proto/servicio.proto).                 *)
(***************************************************************************)
THEOREM MessagesArrive ==
  ASSUME NEW link \in Links, NEW name \in Carried(link), NEW m
  PROVE  LET caller == link.caller[name]
             callee == link.callee[name]
         IN  /\ Decode(callee, Encode(caller, m)) = [f \in Fields(callee) |-> m[f]]
             /\ Decode(caller, Encode(callee, m)) = [f \in Fields(caller) |-> m[f]]
<1> DEFINE caller == link.caller[name]
           callee == link.callee[name]
<1>1. /\ Fields(caller) = Fields(callee)
      /\ Compatible(caller, caller)
      /\ Compatible(callee, callee)
      /\ Compatible(caller, callee)
  BY CopiesAgree DEF CopiesAgree
<1>2. Compatible(callee, caller)
  BY <1>1, CompatibleBothWays
<1> HIDE DEF caller, callee
<1>3. Decode(callee, Encode(caller, m)) = [f \in Fields(callee) |-> m[f]]
  <2>1. \A f \in Fields(callee) : Decode(callee, Encode(caller, m))[f] = m[f]
    BY <1>1, FieldArrives
  <2>2. DOMAIN Decode(callee, Encode(caller, m)) = Fields(callee)
        /\ Decode(callee, Encode(caller, m))
             = [f \in Fields(callee) |-> Decode(callee, Encode(caller, m))[f]]
    BY DEF Decode
  <2> QED BY <2>1, <2>2
<1>4. Decode(caller, Encode(callee, m)) = [f \in Fields(caller) |-> m[f]]
  <2>1. \A f \in Fields(caller) : Decode(caller, Encode(callee, m))[f] = m[f]
    BY <1>1, <1>2, FieldArrives
  <2>2. Decode(caller, Encode(callee, m))
          = [f \in Fields(caller) |-> Decode(caller, Encode(callee, m))[f]]
    BY DEF Decode
  <2> QED BY <2>1, <2>2
<1> QED BY <1>3, <1>4 DEF caller, callee
=============================================================================
