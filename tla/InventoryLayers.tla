--------------------------- MODULE InventoryLayers ---------------------------
(***************************************************************************)
(* The second build of inventario_service (cmd/server and internal/, what  *)
(* `make run` starts): handler, service and repository in layers, with     *)
(* quantities checked and no events.  It neither waits for the database    *)
(* nor creates its tables.  A specification of either build: Init chooses. *)
(***************************************************************************)
EXTENDS Inventory, FiniteSetsExt

\* It tries once; gorm.Open() pings.
ConnectDB == dbUp

\* main(): an error of ConnectDB() ends the process.
Connect ==
  /\ phase = "connect"
  /\ Goto(IF ConnectDB THEN "serving" ELSE "down")
  /\ UNCHANGED tableVars

\* A query fails without the database, past its five seconds, or when nobody
\* has created the tables.
QueryFails == StatementFails \/ tables < 2

\* Find() reports a connection that breaks: the search fails as a whole.
LayersSearch(s) ==
  /\ Serving("layers")
  /\ found[s].step = "none"
  /\ \/ /\ dbUp /\ tables = 2
        /\ \E wanted \in Wanted : SearchAnswer(s, Offered(wanted))
     \/ (QueryFails \/ "cut" \in Faults) /\ SearchError(s)

\* Anything but LIBERAR is BLOQUEAR.
Blocks(a) == a.action # "LIBERAR"

\* The status a call is answered with.  ErrInvalidAction is never met: the handler
\* has replaced the action.
StatusOf(error) ==
  CASE error = "ErrInsufficientStock" -> "ResourceExhausted"
    [] error = "ErrRoomTypeNotFound" -> "NotFound"
    [] error = "ErrInvalidQuantity" -> "InvalidArgument"
    [] OTHER -> "Internal"

AnswerError(c, a, error) == Then(c, a, "answered", StatusOf(error))

InvalidQuantity(c, a) ==
  /\ Running(c, "layers")
  /\ a.quantity <= 0
  /\ AnswerError(c, a, "ErrInvalidQuantity")
  /\ NotApplied

\* The transaction commits, perhaps without its caller getting to know.
Committed(c, a) ==
  /\ Running(c, "layers")
  /\ a.quantity > 0
  /\ dbUp /\ tables = 2
  /\ Apply(c, a, Blocks(a))
  /\ \/ Then(c, a, "answered", "OK")
     \/ "ambiguous_update" \in Faults /\ AnswerError(c, a, "other")

\* No row changed.  The COUNT that tells a type without rooms from one that is
\* not there leaves 0 when it fails, and its error is ignored.
RolledBack(c, a) ==
  /\ Running(c, "layers")
  /\ a.quantity > 0
  /\ dbUp /\ tables = 2
  /\ ~Matches(a, Blocks(a))
  /\ \/ a.type \in DOMAIN stock /\ AnswerError(c, a, "ErrInsufficientStock")
     \/ a.type \notin DOMAIN stock /\ AnswerError(c, a, "ErrRoomTypeNotFound")
     \/ Blocks(a) /\ "db_error" \in Faults /\ AnswerError(c, a, "ErrRoomTypeNotFound")
  /\ NotApplied

TransactionFails(c, a) ==
  /\ Running(c, "layers")
  /\ a.quantity > 0
  /\ QueryFails
  /\ AnswerError(c, a, "other")
  /\ NotApplied

LayersUpdateStock(c) ==
  \E a \in Arguments :
    InvalidQuantity(c, a) \/ Committed(c, a) \/ RolledBack(c, a) \/ TransactionFails(c, a)

-----------------------------------------------------------------------------
Next ==
  \/ Start \/ StartStep \/ Connect \/ Panic \/ Crash \/ DatabaseChanges
  \/ \E s \in Searches : SearchAvailableRooms(s) \/ LayersSearch(s)
  \/ \E c \in Calls : UpdateStock(c) \/ LayersUpdateStock(c)

Spec == Init /\ [][Next]_vars

-----------------------------------------------------------------------------
(* Properties *)

Quantities == {a.quantity : a \in Arguments}

InventoryTypeOK ==
  /\ build \in {"main", "layers"}
  /\ phase \in {"down", "serving"} \cup StartPhases
  /\ pings \in 0 .. MaxPings
  /\ publisher \in {"none", "kafka", "noop"}
  /\ crashes \in 0 .. MaxCrashes
  /\ {dbUp, hotels, interrupted} \subseteq BOOLEAN
  /\ tables \in 0 .. 2
  /\ stock = <<>> \/ stock \in [RoomTypes -> Int]
  /\ call \in [Calls -> [step : {"none", "publishing", "panicking", "answered", "lost"},
                         action : Actions, type : RoomTypes \cup {UnknownType},
                         quantity : {0} \cup Quantities, code : Codes]]
  /\ applied \subseteq Calls
  /\ topic \subseteq [event : [call : Calls, event_type : EventTypes,
                                data : [room : RoomTypes \cup {UnknownType}, quantity : Quantities,
                                        operation : {"BLOCK", "RELEASE", "other"}]],
                       copy : 1 .. MaxAttempts]
  /\ \A s \in Searches :
       /\ found[s].step \in {"none", "OK", "Internal"}
       /\ DOMAIN found[s].rooms \subseteq RoomTypes
       /\ found[s].since \subseteq applied

\* Both builds keep the promise of StockCounter: whatever crashes, restarts,
\* first rows inserted late or again and ambiguous errors do, each call changes
\* the stock at most once, BLOQUEAR takes no room that is not there, OK is
\* answered to what was applied and a refusal to what was not
\* (inventario-service/README.md:53-54).
StockAnswer(c) ==
  IF call[c].step # "answered" THEN "none"
  ELSE CASE call[c].code = "OK" -> "OK"
         [] call[c].code = "Internal" -> "error"
         [] OTHER -> "refused"

Promise ==
  INSTANCE StockCounter WITH
    stock <- [t \in RoomTypes |-> IF t \in DOMAIN stock THEN stock[t] ELSE Seed[t]],
    answer <- [c \in Calls |-> StockAnswer(c)]

ImplementsStock == Promise!Spec

\* The topic agrees with the table, also about calls nobody was answered, for a
\* consumer that takes each event_id once (contracts/events/README.md:92-99):
\* Blocked and Released are about a change that was made, Failed about one only
\* when the UPDATE ended in an ambiguous error, the copies of an event and the
\* events of a call do not contradict each other, and the quantities add up to
\* the stock unless an event is missing (inventario-service/README.md:90-92).
Facts == {record.event : record \in topic}

Changes == {e \in Facts : e.event_type # "InventoryStockFailed"}

Added(e) == IF e.event_type = "InventoryStockBlocked" THEN -e.data.quantity ELSE e.data.quantity

EventsTellTruth ==
  /\ \A e \in Facts :
       /\ e \in Changes => e.call \in applied
       /\ e \notin Changes /\ e.call \in applied => call[e.call].code = "Internal"
       /\ \A f \in Facts : f.call = e.call => f = e
  /\ {e.call : e \in Changes} = applied =>
       \A t \in DOMAIN stock :
         stock[t] = Seed[t] + MapThenSumSet(Added, {e \in Changes : e.data.room = t})

\* What a search offered can be blocked until a call for that type is applied,
\* however often the service dies and starts again in between.
OfferHolds ==
  \A s \in Searches : \A t \in DOMAIN found[s].rooms :
    (\A c \in applied \ found[s].since : call[c].type # t) =>
      t \in DOMAIN stock /\ stock[t] = found[s].rooms[t] /\ stock[t] > 0

\* main.go serves with its rooms in the table, unless an INSERT of the first
\* rows failed or the process died between the two: only that leaves hotels
\* without rooms, and a service that offers nothing after every later start
\* (EXPLICACION_PROYECTO.md:154).
ServesRooms ==
  phase = "serving" /\ build = "main" /\ ~interrupted => stock # <<>>
=============================================================================
