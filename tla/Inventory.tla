------------------------------ MODULE Inventory ------------------------------
(***************************************************************************)
(* inventario_service as the Dockerfile builds it (main.go): its start     *)
(* against a PostgreSQL that may not be up, its tables and their first     *)
(* rows, SearchAvailableRooms, and UpdateStock with its event, which is    *)
(* published before the call is answered.  InventoryLayers adds the second *)
(* build of the repository over the same tables.                           *)
(***************************************************************************)
EXTENDS Integers

CONSTANTS
  RoomTypes,    \* the types the first start inserts: rt1, rt2, rt3
  Seed,         \* their stock_total
  UnknownType,  \* a room_type_id that is in no row
  Calls,        \* calls of UpdateStock
  Arguments,    \* what they may be called with; cantidad is an int32 nobody checks
  Searches,     \* calls of SearchAvailableRooms
  MaxPings,     \* 15 in the code
  MaxCrashes,   \* bound on the crashes nothing in the code provokes
  MaxAttempts,  \* how often kafka.Writer tries to write one message, 10 unless set
  Faults        \* the faults a model lets happen

Actions == {"BLOQUEAR", "LIBERAR", "other"}

\* db_error: a statement fails although the database is up.
\* ambiguous_update: an UPDATE fails for its caller, but commits.
\* cut: the connection breaks while the rows of a SELECT are read.
\* event_lost: Kafka does not take an event within two seconds.
FaultKinds == {"db_error", "ambiguous_update", "cut", "event_lost"}

ASSUME SeedAssumption ==
  RoomTypes # {} /\ Seed \in [RoomTypes -> Nat] /\ UnknownType \notin RoomTypes
ASSUME ArgumentsAssumption ==
  Arguments \subseteq [action : Actions, type : RoomTypes \cup {UnknownType}, quantity : Int]
ASSUME StartAssumption == MaxPings \in Nat \ {0} /\ MaxCrashes \in Nat
ASSUME AttemptsAssumption == MaxAttempts \in Nat \ {0}
ASSUME FaultsAssumption == Faults \subseteq FaultKinds

VARIABLES
  build,        \* the program that runs: main or layers
  phase,        \* where its process is
  pings,        \* pings this start has failed
  crashes,
  dbUp,         \* PostgreSQL answers
  publisher,    \* none, kafka or noop
  tables,       \* CREATE TABLE statements that have committed
  hotels,       \* the rows of hotels are there
  stock,        \* stock_total of the rows of room_types
  interrupted,  \* the first rows were cut short: hotels may be there alone
  call,         \* of each call of UpdateStock: step, arguments and answer
  applied,      \* the calls whose UPDATE changed a row
  topic,        \* the records of origenx.inventory.events
  found         \* what each search answered

processVars == <<build, phase, pings, crashes, dbUp, publisher>>
tableVars == <<tables, hotels, stock, interrupted>>
callVars == <<call, applied, topic, found>>
vars == <<processVars, tableVars, callVars>>

StartPhases == {"ping", "tables", "count", "hotels", "rooms", "connect"}
Codes == {"none", "OK", "False", "ResourceExhausted", "NotFound", "InvalidArgument", "Internal"}

NoCall == [step |-> "none", action |-> "other", type |-> UnknownType, quantity |-> 0, code |-> "none"]
NoSearch == [step |-> "none", rooms |-> <<>>, since |-> {}]

\* The volume is new, or an earlier process has used it.
Init ==
  /\ build \in {"main", "layers"}
  /\ phase = "down" /\ pings = 0 /\ crashes = 0
  /\ dbUp = FALSE /\ publisher = "none"
  /\ \/ tables = 0 /\ hotels = FALSE /\ stock = <<>>
     \/ tables = 2 /\ hotels = TRUE /\ stock = Seed
  /\ interrupted = FALSE
  /\ call = [c \in Calls |-> NoCall]
  /\ applied = {} /\ topic = {}
  /\ found = [s \in Searches |-> NoSearch]

-----------------------------------------------------------------------------
(* main() *)

\* docker compose starts the container, again whenever it ends.
Start ==
  /\ phase = "down"
  /\ phase' = IF build = "main" THEN "ping" ELSE "connect"
  /\ pings' = 0
  /\ UNCHANGED <<build, crashes, dbUp, publisher, tableVars, callVars>>

Goto(next) ==
  /\ phase' = next
  /\ publisher' = IF next = "down" THEN "none" ELSE publisher
  /\ UNCHANGED <<build, pings, crashes, dbUp, callVars>>

PingFailsOffByOne ==  \* mutant: i <= 15
  /\ phase = "ping" /\ ~dbUp
  /\ pings' = pings + 1
  /\ phase' = IF pings > MaxPings THEN "down" ELSE "ping"
  /\ UNCHANGED <<build, crashes, dbUp, publisher, tableVars, callVars>>

\* One ping every three seconds; after the last the process ends.
PingFails ==
  /\ phase = "ping" /\ ~dbUp
  /\ pings' = pings + 1
  /\ phase' = IF pings + 1 = MaxPings THEN "down" ELSE "ping"
  /\ UNCHANGED <<build, crashes, dbUp, publisher, tableVars, callVars>>

\* KAFKA_ENABLED: unset, or one of the spellings somebody may give it.
getEnvBool(value, fallback) == IF value = "unset" THEN fallback ELSE value \in {"true", "TRUE"}

\* KAFKA_BOOTSTRAP_SERVERS: unset or blank, given, or separators alone.
Servers == {"", "kafka:9092", ","}

getEnv(value, fallback) == IF value = "" THEN fallback ELSE value

splitBootstrapServers(value) == {value} \ {"", ","}

\* A writer without addresses fails on every event: it is taken for a
\* NoopPublisher, which drops them.
NewPublisher(enabled, servers) ==
  IF enabled /\ splitBootstrapServers(servers) # {} THEN "kafka" ELSE "noop"

PingAnswered ==
  /\ phase = "ping" /\ dbUp
  /\ phase' = "tables" /\ pings' = 0
  /\ \E value \in {"unset", "true", "TRUE", "True", "false"}, servers \in Servers :
       publisher' = NewPublisher(getEnvBool(value, FALSE), getEnv(servers, "kafka:9092"))
  /\ UNCHANGED <<build, crashes, dbUp, tableVars, callVars>>

StatementFails == ~dbUp \/ "db_error" \in Faults

\* initializeDB(): an error of CREATE TABLE IF NOT EXISTS ends the process.
CreateTable ==
  /\ phase = "tables"
  /\ \/ /\ dbUp
        /\ tables' = IF tables < 2 THEN tables + 1 ELSE 2
        /\ Goto(IF tables' = 2 THEN "count" ELSE "tables")
     \/ StatementFails /\ Goto("down") /\ UNCHANGED tables
  /\ UNCHANGED <<hotels, stock, interrupted>>

CountHotelsTrusting ==  \* mutant: an error is taken for a table that has rows
  /\ phase = "count"
  /\ \/ dbUp /\ Goto(IF hotels THEN "serving" ELSE "hotels")
     \/ StatementFails /\ Goto("serving")
  /\ UNCHANGED tableVars

\* SELECT COUNT(*) FROM hotels: its error is ignored, and leaves 0.
CountHotels ==
  /\ phase = "count"
  /\ \/ dbUp /\ Goto(IF hotels THEN "serving" ELSE "hotels")
     \/ StatementFails /\ Goto("hotels")
  /\ UNCHANGED tableVars

\* The two INSERTs, whose errors are ignored too: one that commits and reports
\* an error is one that succeeds.  The first cannot repeat its keys.
InsertHotels ==
  /\ phase = "hotels"
  /\ \/ dbUp /\ hotels' = TRUE /\ UNCHANGED interrupted
     \/ StatementFails /\ interrupted' = TRUE /\ UNCHANGED hotels
  /\ Goto("rooms")
  /\ UNCHANGED <<tables, stock>>

InsertRoomsAgain ==  \* mutant: ON CONFLICT (id) DO UPDATE SET stock_total
  /\ phase = "rooms"
  /\ \/ dbUp /\ hotels /\ stock' = Seed /\ UNCHANGED interrupted
     \/ StatementFails /\ interrupted' = TRUE /\ UNCHANGED stock
  /\ Goto("serving")
  /\ UNCHANGED <<tables, hotels>>

\* The second needs its hotels and cannot repeat its keys either.
InsertRooms ==
  /\ phase = "rooms"
  /\ \/ /\ dbUp
        /\ stock' = IF hotels /\ stock = <<>> THEN Seed ELSE stock
        /\ UNCHANGED interrupted
     \/ StatementFails /\ interrupted' = TRUE /\ UNCHANGED stock
  /\ Goto("serving")
  /\ UNCHANGED <<tables, hotels>>

-----------------------------------------------------------------------------
(* SearchAvailableRooms() *)

Wanted == SUBSET RoomTypes

OfferedAll(wanted) ==  \* mutant: no WHERE rt.stock_total > 0
  [t \in wanted \cap DOMAIN stock |-> stock[t]]

\* The rows the SELECT finds; the filters of the request leave some types.
Offered(wanted) == [t \in {r \in wanted \cap DOMAIN stock : stock[r] > 0} |-> stock[t]]

\* What is recorded of an answer: its rooms, and the calls applied until then.
SearchAnswer(s, rooms) ==
  /\ found' = [found EXCEPT ![s] = [step |-> "OK", rooms |-> rooms, since |-> applied]]
  /\ UNCHANGED <<processVars, tableVars, call, applied, topic>>

SearchError(s) ==
  /\ found' = [found EXCEPT ![s].step = "Internal"]
  /\ UNCHANGED <<processVars, tableVars, call, applied, topic>>

Serving(program) == phase = "serving" /\ build = program

\* rows.Err() is not looked at: a connection that breaks while the rows are
\* read leaves the first of them, answered OK.
SearchAvailableRooms(s) ==
  /\ Serving("main")
  /\ found[s].step = "none"
  /\ \/ /\ dbUp
        /\ \E wanted \in Wanted : \E read \in SUBSET DOMAIN Offered(wanted) :
             /\ "cut" \in Faults \/ read = DOMAIN Offered(wanted)
             /\ SearchAnswer(s, [t \in read |-> stock[t]])
     \/ StatementFails /\ SearchError(s)

-----------------------------------------------------------------------------
(* UpdateStock() *)

\* A call that has arrived and changed nothing yet is one to come.
Running(c, program) == Serving(program) /\ call[c].step = "none"

\* The UPDATE finds a row it may change.
Matches(a, block) ==
  /\ a.type \in DOMAIN stock
  /\ block => stock[a.type] >= a.quantity

Apply(c, a, block) ==
  /\ Matches(a, block)
  /\ stock' = [stock EXCEPT ![a.type] = IF block THEN @ - a.quantity ELSE @ + a.quantity]
  /\ applied' = applied \cup {c}

NotApplied == UNCHANGED <<stock, applied>>

\* The answer is ready; main.go publishes its event first.
Then(c, a, step, code) ==
  /\ call' = [call EXCEPT ![c] = [step |-> step, action |-> a.action, type |-> a.type,
                                  quantity |-> a.quantity, code |-> code]]
  /\ UNCHANGED <<processVars, tables, hotels, interrupted, topic, found>>

InvalidAction(c, a) ==
  /\ Running(c, "main")
  /\ a.action = "other"
  /\ Then(c, a, "publishing", "InvalidArgument")
  /\ NotApplied

\* With a negative quantity Add() of the counter panics after the UPDATE.
UpdateApplied(c, a) ==
  /\ Running(c, "main")
  /\ a.action # "other"
  /\ dbUp
  /\ Apply(c, a, a.action = "BLOQUEAR")
  /\ \/ Then(c, a, IF a.quantity < 0 THEN "panicking" ELSE "publishing", "OK")
     \/ "ambiguous_update" \in Faults /\ Then(c, a, "publishing", "Internal")

UpdateWithoutRows(c, a) ==
  /\ Running(c, "main")
  /\ a.action # "other"
  /\ dbUp
  /\ ~Matches(a, a.action = "BLOQUEAR")
  /\ Then(c, a, "publishing", IF a.action = "BLOQUEAR" THEN "ResourceExhausted" ELSE "False")
  /\ NotApplied

UpdateFails(c, a) ==
  /\ Running(c, "main")
  /\ a.action # "other"
  /\ StatementFails
  /\ Then(c, a, "publishing", "Internal")
  /\ NotApplied

\* What an event says of its call; the hotel, which a SELECT of its own adds, is
\* left out.  An invalid action is told as it came.
stockData(c) ==
  [room |-> call[c].type, quantity |-> call[c].quantity,
   operation |-> CASE call[c].action = "BLOQUEAR" -> "BLOCK"
                   [] call[c].action = "LIBERAR" -> "RELEASE"
                   [] OTHER -> call[c].action]

EventTypes == {"InventoryStockBlocked", "InventoryStockReleased", "InventoryStockFailed"}

\* The call stands for the identifier the event is given.
newEvent(c, type) == [call |-> c, event_type |-> type, data |-> stockData(c)]

EventOfAction(c) ==  \* mutant: the event is chosen before the rows are counted
  newEvent(c, IF call[c].action = "LIBERAR" THEN "InventoryStockReleased" ELSE "InventoryStockBlocked")

Event(c) ==
  newEvent(c, IF call[c].code # "OK" THEN "InventoryStockFailed"
              ELSE IF call[c].action = "LIBERAR" THEN "InventoryStockReleased"
              ELSE "InventoryStockBlocked")

Enabled == publisher = "kafka"

\* A record of the topic: an event and which of its copies it is.
Record(c, n) == [event |-> Event(c), copy |-> n]

\* WriteMessages() writes the record, and again after an acknowledgement that is
\* lost: no idempotence, and one broker's acknowledgement is enough.  What it
\* writes once the caller's two seconds are over counts as written before: no
\* action here reads the topic.
Write(c) ==
  /\ Serving("main")
  /\ call[c].step = "publishing" /\ Enabled
  /\ \E n \in 1 .. MaxAttempts :
       /\ \A before \in 1 .. n - 1 : Record(c, before) \in topic
       /\ Record(c, n) \notin topic
       /\ topic' = topic \cup {Record(c, n)}
  /\ UNCHANGED <<processVars, tableVars, call, applied, found>>

\* publishInventoryEvent() waits for Kafka, two seconds at most, and the call is
\* answered whatever became of the event.
Publish(c) ==
  /\ Serving("main")
  /\ call[c].step = "publishing"
  /\ ~Enabled \/ Record(c, 1) \in topic \/ "event_lost" \in Faults
  /\ call' = [call EXCEPT ![c].step = "answered"]
  /\ UNCHANGED <<processVars, tableVars, applied, topic, found>>

-----------------------------------------------------------------------------
(* The process ends *)

\* Nobody answers the calls it was running, whose events may be written.
Dies ==
  /\ phase' = "down"
  /\ call' = [c \in Calls |->
       IF call[c].step \in {"publishing", "panicking"} THEN [call[c] EXCEPT !.step = "lost"] ELSE call[c]]
  /\ interrupted' = (interrupted \/ phase = "rooms")
  /\ publisher' = "none"
  /\ UNCHANGED <<build, pings, dbUp, tables, hotels, stock, applied, topic, found>>

Panic ==
  /\ \E c \in Calls : call[c].step = "panicking"
  /\ Dies
  /\ UNCHANGED crashes

Crash ==
  /\ phase # "down" /\ crashes < MaxCrashes
  /\ crashes' = crashes + 1
  /\ Dies

\* PostgreSQL starts, stops, or cannot be reached for a while.
DatabaseChanges ==
  /\ dbUp' = ~dbUp
  /\ UNCHANGED <<build, phase, pings, crashes, publisher, tableVars, callVars>>

StartStep ==
  PingFails \/ PingAnswered \/ CreateTable \/ CountHotels \/ InsertHotels \/ InsertRooms

UpdateStock(c) ==
  \/ \E a \in Arguments :
       InvalidAction(c, a) \/ UpdateApplied(c, a) \/ UpdateWithoutRows(c, a) \/ UpdateFails(c, a)
  \/ Write(c) \/ Publish(c)
=============================================================================
