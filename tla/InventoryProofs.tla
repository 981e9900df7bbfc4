--------------------------- MODULE InventoryProofs --------------------------
(***************************************************************************)
(* What both builds of inventario_service promise, for any types, first    *)
(* stock, calls, arguments and faults, and any number of crashes.          *)
(*                                                                         *)
(* The steps are first reduced to what they do to the stock, the calls and *)
(* the searches (StockStep).  The invariant Consistent says what the code  *)
(* of a call that has begun tells of the table; Told and Balanced what the *)
(* topic and the sum of the changes tell of it.                            *)
(***************************************************************************)
EXTENDS InventoryLayers, FiniteSetTheorems, TLAPS

Refusals == {"False", "ResourceExhausted", "NotFound", "InvalidArgument"}

Answering == {"publishing", "answered"}

Asked(c, a, step, code) ==
  call' = [call EXCEPT ![c] = [step |-> step, action |-> a.action, type |-> a.type,
                               quantity |-> a.quantity, code |-> code]]

\* The ways a step can touch the stock, the calls and the searches.
TakesEffect(c, a, step, code) ==
  /\ call[c].step = "none"
  /\ Apply(c, a, Blocks(a))
  /\ Asked(c, a, step, code)
  /\ UNCHANGED found

HasNoEffect(c, a, step, code) ==
  /\ call[c].step = "none"
  /\ Asked(c, a, step, code)
  /\ UNCHANGED <<stock, applied, found>>

Answers(c) ==
  /\ call[c].step = "publishing"
  /\ call' = [call EXCEPT ![c].step = "answered"]
  /\ UNCHANGED <<stock, applied, found>>

Abandons ==
  /\ call' = [c \in Calls |->
       IF call[c].step \in {"publishing", "panicking"} THEN [call[c] EXCEPT !.step = "lost"] ELSE call[c]]
  /\ UNCHANGED <<stock, applied, found>>

Seeds ==
  /\ stock = <<>> /\ stock' = Seed
  /\ UNCHANGED <<call, applied, found>>

Shows(s) ==
  /\ \E read \in SUBSET RoomTypes :
       /\ \A t \in read : t \in DOMAIN stock /\ stock[t] > 0
       /\ found' = [found EXCEPT ![s] = [step |-> "OK", rooms |-> [t \in read |-> stock[t]], since |-> applied]]
  /\ UNCHANGED <<stock, call, applied>>

Cuts(s) ==
  /\ found' = [found EXCEPT ![s].step = "Internal"]
  /\ UNCHANGED <<stock, call, applied>>

StockStep ==
  \/ \E c \in Calls, a \in Arguments :
       \/ \E step \in Answering \cup {"panicking"}, code \in {"OK", "Internal"} :
            TakesEffect(c, a, step, code)
       \/ \E step \in Answering, code \in Refusals \cup {"Internal"} : HasNoEffect(c, a, step, code)
  \/ \E c \in Calls : Answers(c)
  \/ Abandons
  \/ Seeds
  \/ \E s \in Searches : Shows(s) \/ Cuts(s)
  \/ UNCHANGED <<stock, call, applied, found>>

Typed ==
  /\ stock = <<>> \/ stock \in [RoomTypes -> Int]
  /\ call \in [Calls -> [step : {"none", "publishing", "panicking", "answered", "lost"},
                         action : Actions, type : RoomTypes \cup {UnknownType},
                         quantity : Int, code : Codes]]
  /\ applied \subseteq Calls
  /\ stock = <<>> => applied = {}
  /\ DOMAIN found = Searches

\* A call that is to come has changed nothing; what is answered, would be, or would
\* have been, says OK only of a change and refuses only without one.
Consistent ==
  \A c \in Calls :
    /\ call[c].step = "none" => c \notin applied
    /\ call[c].step # "none" /\ call[c].code = "OK" => c \in applied
    /\ call[c].step # "none" /\ call[c].code \in Refusals => c \notin applied
    /\ call[c].step # "none" => call[c].code # "none"

-----------------------------------------------------------------------------
(* Every step is one of these *)

LEMMA UpdateStockIsStep ==
  ASSUME NEW c \in Calls, UpdateStock(c)
  PROVE  StockStep
<1> USE DEF Answering, Refusals
<1>1. ASSUME NEW a \in Arguments, InvalidAction(c, a)
      PROVE  HasNoEffect(c, a, "publishing", "InvalidArgument")
  BY <1>1 DEF InvalidAction, Running, Then, NotApplied, HasNoEffect, Asked
<1>2. ASSUME NEW a \in Arguments, UpdateApplied(c, a)
      PROVE  \/ TakesEffect(c, a, "publishing", "OK") \/ TakesEffect(c, a, "panicking", "OK")
             \/ TakesEffect(c, a, "publishing", "Internal")
  <2>1. Apply(c, a, Blocks(a))
    BY <1>2, ArgumentsAssumption DEF UpdateApplied, Blocks, ArgumentsAssumption, Actions
  <2>2. \/ Then(c, a, "publishing", "OK") \/ Then(c, a, "panicking", "OK")
        \/ Then(c, a, "publishing", "Internal")
    BY <1>2 DEF UpdateApplied
  <2> QED BY <1>2, <2>1, <2>2 DEF UpdateApplied, Running, Then, TakesEffect, Asked
<1>3. ASSUME NEW a \in Arguments, UpdateWithoutRows(c, a)
      PROVE  \/ HasNoEffect(c, a, "publishing", "ResourceExhausted")
             \/ HasNoEffect(c, a, "publishing", "False")
  BY <1>3 DEF UpdateWithoutRows, Running, Then, NotApplied, HasNoEffect, Asked
<1>4. ASSUME NEW a \in Arguments, UpdateFails(c, a)
      PROVE  HasNoEffect(c, a, "publishing", "Internal")
  BY <1>4 DEF UpdateFails, Running, Then, NotApplied, HasNoEffect, Asked
<1>5. CASE Publish(c)
  BY <1>5 DEF Publish, Answers, tableVars, StockStep
<1>6. CASE Write(c)
  BY <1>6 DEF Write, tableVars, StockStep
<1> QED
  BY <1>1, <1>2, <1>3, <1>4, <1>5, <1>6 DEF UpdateStock, StockStep

LEMMA LayersUpdateStockIsStep ==
  ASSUME NEW c \in Calls, LayersUpdateStock(c)
  PROVE  StockStep
<1> USE DEF Answering, Refusals, AnswerError, StatusOf
<1>1. ASSUME NEW a \in Arguments, InvalidQuantity(c, a)
      PROVE  HasNoEffect(c, a, "answered", "InvalidArgument")
  BY <1>1 DEF InvalidQuantity, Running, Then, NotApplied, HasNoEffect, Asked
<1>2. ASSUME NEW a \in Arguments, Committed(c, a)
      PROVE  TakesEffect(c, a, "answered", "OK") \/ TakesEffect(c, a, "answered", "Internal")
  <2>1. Apply(c, a, Blocks(a))
    BY <1>2 DEF Committed
  <2>2. Then(c, a, "answered", "OK") \/ Then(c, a, "answered", "Internal")
    BY <1>2 DEF Committed
  <2> QED BY <1>2, <2>1, <2>2 DEF Committed, Running, Then, TakesEffect, Asked
<1>3. ASSUME NEW a \in Arguments, RolledBack(c, a)
      PROVE  \/ HasNoEffect(c, a, "answered", "ResourceExhausted")
             \/ HasNoEffect(c, a, "answered", "NotFound")
  <2>1. Then(c, a, "answered", "ResourceExhausted") \/ Then(c, a, "answered", "NotFound")
    BY <1>3 DEF RolledBack
  <2> QED BY <1>3, <2>1 DEF RolledBack, Running, Then, NotApplied, HasNoEffect, Asked
<1>4. ASSUME NEW a \in Arguments, TransactionFails(c, a)
      PROVE  HasNoEffect(c, a, "answered", "Internal")
  BY <1>4 DEF TransactionFails, Running, Then, NotApplied, HasNoEffect, Asked
<1> QED
  BY <1>1, <1>2, <1>3, <1>4 DEF LayersUpdateStock, StockStep

LEMMA SearchIsStep ==
  ASSUME NEW s \in Searches, SearchAvailableRooms(s) \/ LayersSearch(s)
  PROVE  StockStep
<1> USE DEF StockStep, tableVars
<1>1. ASSUME NEW read \in SUBSET RoomTypes, \A t \in read : t \in DOMAIN stock /\ stock[t] > 0,
             SearchAnswer(s, [t \in read |-> stock[t]])
      PROVE  Shows(s)
  BY <1>1 DEF SearchAnswer, Shows
<1>2. CASE SearchError(s)
  BY <1>2 DEF SearchError, Cuts
<1>3. ASSUME NEW wanted \in Wanted
      PROVE  /\ DOMAIN Offered(wanted) \in SUBSET RoomTypes
             /\ \A t \in DOMAIN Offered(wanted) : t \in DOMAIN stock /\ stock[t] > 0
             /\ Offered(wanted) = [t \in DOMAIN Offered(wanted) |-> stock[t]]
  BY DEF Offered, Wanted
<1>4. CASE SearchAvailableRooms(s)
  <2>1. CASE SearchError(s)
    BY <2>1, <1>2
  <2>2. CASE \E wanted \in Wanted : \E read \in SUBSET DOMAIN Offered(wanted) :
               SearchAnswer(s, [t \in read |-> stock[t]])
    BY <2>2, <1>1, <1>3
  <2> QED BY <1>4, <2>1, <2>2 DEF SearchAvailableRooms
<1>5. CASE LayersSearch(s)
  <2>1. CASE SearchError(s)
    BY <2>1, <1>2
  <2>2. ASSUME NEW wanted \in Wanted, SearchAnswer(s, Offered(wanted))
        PROVE  StockStep
    BY <2>2, <1>1, <1>3
  <2> QED BY <1>5, <2>1, <2>2 DEF LayersSearch
<1> QED BY <1>4, <1>5

LEMMA NextIsStockStep ==
  ASSUME [Next]_vars
  PROVE  StockStep
<1> USE DEF StockStep, callVars, tableVars
<1>1. CASE Start
  BY <1>1 DEF Start
<1>2. CASE StartStep
  <2>1. CASE InsertRooms
    BY <2>1 DEF InsertRooms, Goto, Seeds
  <2>2. CASE PingFails \/ PingAnswered \/ CreateTable \/ CountHotels \/ InsertHotels
    BY <2>2 DEF PingFails, PingAnswered, CreateTable, CountHotels, InsertHotels, Goto
  <2> QED BY <1>2, <2>1, <2>2 DEF StartStep
<1>3. CASE Connect
  BY <1>3 DEF Connect, Goto
<1>4. CASE Panic \/ Crash
  BY <1>4 DEF Panic, Crash, Dies, Abandons
<1>5. CASE DatabaseChanges
  BY <1>5 DEF DatabaseChanges
<1>6. CASE UNCHANGED vars
  BY <1>6 DEF vars
<1> HIDE DEF StockStep
<1> QED
  BY <1>1, <1>2, <1>3, <1>4, <1>5, <1>6, SearchIsStep, UpdateStockIsStep, LayersUpdateStockIsStep DEF Next

-----------------------------------------------------------------------------
(* Types and answers *)

\* An UPDATE finds its row only once there are rows.
LEMMA ApplyChanges ==
  ASSUME Typed, NEW c \in Calls, NEW a \in Arguments, NEW block \in BOOLEAN, Apply(c, a, block)
  PROVE  /\ stock \in [RoomTypes -> Int] /\ a.type \in RoomTypes /\ a.quantity \in Int
         /\ stock' = [stock EXCEPT ![a.type] = IF block THEN @ - a.quantity ELSE @ + a.quantity]
         /\ stock' \in [RoomTypes -> Int]
         /\ block => stock[a.type] >= a.quantity
         /\ applied' = applied \cup {c}
<1>1. a.type \in DOMAIN stock /\ (block => stock[a.type] >= a.quantity)
  BY DEF Apply, Matches
<1>2. stock \in [RoomTypes -> Int]
  <2>1. CASE stock = <<>>
    BY <1>1, <2>1
  <2> QED BY <2>1 DEF Typed
<1>3. a.type \in RoomTypes /\ a.quantity \in Int
  BY <1>1, <1>2, ArgumentsAssumption DEF ArgumentsAssumption
<1>4. stock' = [stock EXCEPT ![a.type] = IF block THEN @ - a.quantity ELSE @ + a.quantity]
      /\ applied' = applied \cup {c}
  BY DEF Apply
<1> QED BY <1>1, <1>2, <1>3, <1>4

LEMMA RoomsAreRows ==
  ASSUME NEW rows \in [RoomTypes -> Int]
  PROVE  rows # <<>>
<1>1. PICK t : t \in RoomTypes
  BY SeedAssumption DEF SeedAssumption
<1>2. t \in DOMAIN rows
  BY <1>1
<1> QED BY <1>2

LEMMA TypedHolds == Spec => []Typed
<1>1. Init => Typed
  <2> SUFFICES ASSUME Init PROVE Typed
    OBVIOUS
  <2>1. UnknownType \in RoomTypes \cup {UnknownType} /\ Seed \in [RoomTypes -> Int]
    BY SeedAssumption DEF SeedAssumption
  <2>2. stock = <<>> \/ stock \in [RoomTypes -> Int]
    BY <2>1 DEF Init
  <2>3. call \in [Calls -> [step : {"none", "publishing", "panicking", "answered", "lost"},
                            action : Actions, type : RoomTypes \cup {UnknownType},
                            quantity : Int, code : Codes]]
    BY <2>1 DEF Init, NoCall, Actions, Codes
  <2> QED BY <2>2, <2>3 DEF Init, Typed
<1>2. Typed /\ [Next]_vars => Typed'
  <2> SUFFICES ASSUME Typed, StockStep PROVE Typed'
    BY NextIsStockStep
  <2>1. ASSUME NEW c \in Calls, NEW a \in Arguments, NEW step \in Answering \cup {"panicking"},
               NEW code \in Refusals \cup {"OK", "Internal"}, Asked(c, a, step, code)
        PROVE  call' \in [Calls -> [step : {"none", "publishing", "panicking", "answered", "lost"},
                                    action : Actions, type : RoomTypes \cup {UnknownType},
                                    quantity : Int, code : Codes]]
    <3>1. a.action \in Actions /\ a.type \in RoomTypes \cup {UnknownType} /\ a.quantity \in Int
      BY ArgumentsAssumption DEF ArgumentsAssumption
    <3> QED BY <2>1, <3>1 DEF Typed, Asked, Answering, Refusals, Codes
  <2>2. ASSUME NEW c \in Calls, NEW a \in Arguments, NEW step \in Answering \cup {"panicking"},
               NEW code \in {"OK", "Internal"}, TakesEffect(c, a, step, code)
        PROVE  Typed'
    <3>1. PICK block \in BOOLEAN : Apply(c, a, block)
      BY <2>2 DEF TakesEffect, Blocks
    <3>2. stock' \in [RoomTypes -> Int] /\ applied' = applied \cup {c}
      BY <3>1, ApplyChanges
    <3>3. stock' # <<>>
      BY <3>2, RoomsAreRows
    <3> QED BY <2>1, <2>2, <3>2, <3>3 DEF Typed, TakesEffect
  <2>3. ASSUME NEW c \in Calls, NEW a \in Arguments, NEW step \in Answering,
               NEW code \in Refusals \cup {"Internal"}, HasNoEffect(c, a, step, code)
        PROVE  Typed'
    BY <2>1, <2>3 DEF Typed, HasNoEffect
  <2>4. ASSUME NEW c \in Calls, Answers(c)
        PROVE  Typed'
    BY <2>4 DEF Typed, Answers
  <2>5. CASE Abandons
    BY <2>5 DEF Typed, Abandons, Codes
  <2>6. CASE Seeds
    <3>1. Seed \in [RoomTypes -> Int]
      BY SeedAssumption DEF SeedAssumption
    <3>2. Seed # <<>>
      BY <3>1, RoomsAreRows
    <3> QED BY <2>6, <3>1, <3>2 DEF Typed, Seeds
  <2>7. ASSUME NEW s \in Searches, Shows(s) \/ Cuts(s)
        PROVE  Typed'
    BY <2>7 DEF Typed, Shows, Cuts
  <2>8. CASE UNCHANGED <<stock, call, applied, found>>
    BY <2>8 DEF Typed
  <2> QED BY <2>2, <2>3, <2>4, <2>5, <2>6, <2>7, <2>8 DEF StockStep
<1> QED BY <1>1, <1>2, PTL DEF Spec

LEMMA ConsistentHolds == Spec => []Consistent
<1>1. Init => Consistent
  BY DEF Init, NoCall, Consistent, Answering
<1>2. Typed /\ Consistent /\ [Next]_vars => Consistent'
  <2> SUFFICES ASSUME Typed, Consistent, StockStep PROVE Consistent'
    BY NextIsStockStep
  <2> USE DEF Answering, Refusals
  <2>1. ASSUME NEW c \in Calls, NEW a \in Arguments, NEW step \in Answering \cup {"panicking"},
               NEW code \in {"OK", "Internal"}, TakesEffect(c, a, step, code)
        PROVE  Consistent'
    <3>1. PICK block \in BOOLEAN : Apply(c, a, block)
      BY <2>1 DEF TakesEffect, Blocks
    <3>2. applied' = applied \cup {c}
      BY <3>1 DEF Apply
    <3> QED BY <2>1, <3>2 DEF Typed, Consistent, TakesEffect, Asked
  <2>2. ASSUME NEW c \in Calls, NEW a \in Arguments, NEW step \in Answering,
               NEW code \in Refusals \cup {"Internal"}, HasNoEffect(c, a, step, code)
        PROVE  Consistent'
    BY <2>2 DEF Typed, Consistent, HasNoEffect, Asked
  <2>3. ASSUME NEW c \in Calls, Answers(c)
        PROVE  Consistent'
    BY <2>3 DEF Typed, Consistent, Answers
  <2>4. CASE Abandons
    BY <2>4 DEF Typed, Consistent, Abandons
  <2>5. CASE Seeds
    BY <2>5 DEF Consistent, Seeds
  <2>6. ASSUME NEW s \in Searches, Shows(s) \/ Cuts(s)
        PROVE  Consistent'
    BY <2>6 DEF Consistent, Shows, Cuts
  <2>7. CASE UNCHANGED <<stock, call, applied, found>>
    BY <2>7 DEF Consistent
  <2> QED BY <2>1, <2>2, <2>3, <2>4, <2>5, <2>6, <2>7 DEF StockStep
<1> QED BY <1>1, <1>2, TypedHolds, PTL DEF Spec

-----------------------------------------------------------------------------
(* The counter *)

Rooms == [t \in RoomTypes |-> IF t \in DOMAIN stock THEN stock[t] ELSE Seed[t]]

Answered == [c \in Calls |-> StockAnswer(c)]

\* An UPDATE is a change of the counter, whatever its caller gets to know.
LEMMA EffectIsChange ==
  ASSUME Typed, Consistent, NEW c \in Calls, NEW a \in Arguments, NEW block \in BOOLEAN,
         call[c].step = "none", Apply(c, a, block)
  PROVE  /\ Answered[c] = "none"
         /\ \E t \in RoomTypes, q \in Quantities :
              Promise!Block(c, t, q) \/ Promise!Release(c, t, q)
<1>1. /\ stock \in [RoomTypes -> Int] /\ a.type \in RoomTypes /\ a.quantity \in Int
      /\ stock' = [stock EXCEPT ![a.type] = IF block THEN @ - a.quantity ELSE @ + a.quantity]
      /\ stock' \in [RoomTypes -> Int]
      /\ block => stock[a.type] >= a.quantity
      /\ applied' = applied \cup {c}
  BY ApplyChanges
<1>2. Rooms = stock /\ Rooms' = stock'
  BY <1>1 DEF Rooms
<1>3. a.quantity \in Quantities
  BY DEF Quantities
<1>4. Answered[c] = "none" /\ c \notin applied
  BY DEF Answered, StockAnswer, Consistent
<1>5. CASE block
  <2>1. Rooms' = [Rooms EXCEPT ![a.type] = @ + (-a.quantity)]
    BY <1>1, <1>2, <1>5
  <2>2. Promise!Block(c, a.type, a.quantity)
    BY <1>1, <1>2, <1>4, <1>5, <2>1 DEF Promise!Block, Promise!Change, Rooms, Answered
  <2> QED BY <1>1, <1>3, <1>4, <2>2
<1>6. CASE ~block
  <2>1. Rooms' = [Rooms EXCEPT ![a.type] = @ + a.quantity]
    BY <1>1, <1>2, <1>6
  <2>2. Promise!Release(c, a.type, a.quantity)
    BY <1>1, <1>4, <2>1 DEF Promise!Release, Promise!Change, Rooms, Answered
  <2> QED BY <1>1, <1>3, <1>4, <2>2
<1> QED BY <1>5, <1>6

\* What is said of one call is said of no other.
LEMMA OneIsAnswered ==
  ASSUME Typed, NEW c \in Calls, NEW record, call' = [call EXCEPT ![c] = record]
  PROVE  Answered' = [Answered EXCEPT ![c] = StockAnswer(c)']
<1>1. \A d \in Calls \ {c} : call'[d] = call[d]
  BY DEF Typed
<1>2. \A d \in Calls \ {c} : StockAnswer(d)' = StockAnswer(d)
  BY <1>1 DEF StockAnswer
<1> QED BY <1>2 DEF Answered

\* Both builds implement the counter of StockCounter: however the process dies,
\* starts and inserts its first rows, and whatever of a statement is ambiguous,
\* each call changes the stock at most once, takes no room that is not there,
\* and is answered accordingly (main.go:197-259, internal/).
THEOREM InventoryImplementsStock == Spec => ImplementsStock
<1>1. Init => Promise!Init
  <2> SUFFICES ASSUME Init PROVE Promise!Init
    OBVIOUS
  <2>1. Rooms = Seed
    BY SeedAssumption DEF SeedAssumption, Init, Rooms
  <2>2. Answered = [c \in Calls |-> "none"]
    BY DEF Init, NoCall, Answered, StockAnswer
  <2> QED BY <2>1, <2>2 DEF Init, Promise!Init, Rooms, Answered
<1>2. Typed /\ Consistent /\ [Next]_vars => [Promise!Next]_<<Rooms, applied, Answered>>
  <2> SUFFICES ASSUME Typed, Consistent, StockStep
               PROVE  Promise!Next \/ UNCHANGED <<Rooms, applied, Answered>>
    BY NextIsStockStep
  <2>1. ASSUME NEW c \in Calls, NEW a \in Arguments, NEW step \in Answering \cup {"panicking"},
               NEW code \in {"OK", "Internal"}, TakesEffect(c, a, step, code)
        PROVE  Promise!Next
    <3>1. PICK block \in BOOLEAN : Apply(c, a, block)
      BY <2>1 DEF TakesEffect, Blocks
    <3>2. /\ Answered[c] = "none"
          /\ \E t \in RoomTypes, q \in Quantities : Promise!Block(c, t, q) \/ Promise!Release(c, t, q)
      BY <2>1, <3>1, EffectIsChange DEF TakesEffect
    <3>3. Answered' = [Answered EXCEPT ![c] = StockAnswer(c)']
      BY <2>1, OneIsAnswered DEF TakesEffect, Asked
    <3>4. StockAnswer(c)' \in {"none", "OK", "error"}
      BY <2>1 DEF TakesEffect, Asked, StockAnswer, Typed
    <3>5. UNCHANGED Answered \/ Promise!Say(c, "OK") \/ Promise!Say(c, "error")
      <4>1. CASE StockAnswer(c)' = "none"
        BY <3>2, <3>3, <4>1 DEF Answered
      <4>2. CASE StockAnswer(c)' # "none"
        BY <3>2, <3>3, <3>4, <4>2 DEF Answered, Promise!Say
      <4> QED BY <4>1, <4>2
    <3> QED BY <3>2, <3>5 DEF Promise!Next, Promise!Effect, Answered
  <2>2. ASSUME NEW c \in Calls, Answered' = [Answered EXCEPT ![c] = StockAnswer(c)'],
               Answered[c] = "none", UNCHANGED <<stock, applied>>,
               StockAnswer(c)' \in {"none", "OK", "refused", "error"},
               StockAnswer(c)' = "OK" => c \in applied,
               StockAnswer(c)' = "refused" => c \notin applied
        PROVE  Promise!Next \/ UNCHANGED <<Rooms, applied, Answered>>
    <3>1. UNCHANGED Rooms
      BY <2>2 DEF Rooms
    <3>2. CASE StockAnswer(c)' = "none"
      BY <2>2, <3>1, <3>2 DEF Answered
    <3>3. CASE StockAnswer(c)' # "none"
      <4>1. Promise!Answer(c)
        BY <2>2, <3>1, <3>3 DEF Promise!Answer, Promise!Say, Answered, Rooms
      <4> QED BY <4>1 DEF Promise!Next
    <3> QED BY <3>2, <3>3
  <2>3. ASSUME NEW c \in Calls, NEW a \in Arguments, NEW step \in Answering,
               NEW code \in Refusals \cup {"Internal"}, HasNoEffect(c, a, step, code)
        PROVE  Promise!Next \/ UNCHANGED <<Rooms, applied, Answered>>
    <3>1. Answered' = [Answered EXCEPT ![c] = StockAnswer(c)']
      BY <2>3, OneIsAnswered DEF HasNoEffect, Asked
    <3>2. Answered[c] = "none" /\ c \notin applied
      BY <2>3 DEF HasNoEffect, Answered, StockAnswer, Consistent
    <3>3. StockAnswer(c)' \in {"none", "refused", "error"}
      BY <2>3 DEF HasNoEffect, Asked, StockAnswer, Typed, Refusals
    <3> QED BY <2>2, <2>3, <3>1, <3>2, <3>3 DEF HasNoEffect
  <2>4. ASSUME NEW c \in Calls, Answers(c)
        PROVE  Promise!Next \/ UNCHANGED <<Rooms, applied, Answered>>
    <3>1. call' = [call EXCEPT ![c] = [call[c] EXCEPT !.step = "answered"]]
      BY <2>4 DEF Answers
    <3>2. Answered' = [Answered EXCEPT ![c] = StockAnswer(c)']
      BY <3>1, OneIsAnswered
    <3>3. Answered[c] = "none"
      BY <2>4 DEF Answers, Answered, StockAnswer
    <3>4. call'[c].step = "answered" /\ call'[c].code = call[c].code /\ call[c].code \in Codes
      BY <3>1 DEF Typed
    <3>5. /\ StockAnswer(c)' \in {"none", "OK", "refused", "error"}
          /\ StockAnswer(c)' = "OK" => c \in applied
          /\ StockAnswer(c)' = "refused" => c \notin applied
      BY <2>4, <3>4 DEF Answers, Answering, Refusals, Consistent, StockAnswer, Codes
    <3> QED BY <2>2, <2>4, <3>2, <3>3, <3>5 DEF Answers
  <2>5. CASE Abandons
    <3>1. \A c \in Calls : StockAnswer(c)' = StockAnswer(c)
      BY <2>5 DEF Abandons, StockAnswer, Typed
    <3> QED BY <2>5, <3>1 DEF Abandons, Rooms, Answered
  <2>6. CASE Seeds
    <3>1. Rooms = Seed /\ Rooms' = Seed
      BY <2>6, SeedAssumption DEF SeedAssumption, Seeds, Rooms
    <3> QED BY <2>6, <3>1 DEF Seeds, Answered, StockAnswer
  <2>7. CASE UNCHANGED <<stock, call, applied>>
    BY <2>7 DEF Rooms, Answered, StockAnswer
  <2> QED BY <2>1, <2>3, <2>4, <2>5, <2>6, <2>7 DEF StockStep, Shows, Cuts
<1> QED
  BY <1>1, <1>2, TypedHolds, ConsistentHolds, PTL
     DEF Spec, ImplementsStock, Promise!Spec, Rooms, Answered

-----------------------------------------------------------------------------
(* What a search offered *)

\* A search remembers the calls before it; what one of a later call changed is
\* not claimed.
Remembered ==
  \A s \in Searches :
    DOMAIN found[s] = {"step", "rooms", "since"} /\ found[s].since \subseteq applied

LEMMA OffersPreserved ==
  ASSUME Typed, Consistent, Remembered, OfferHolds, StockStep
  PROVE  Remembered' /\ OfferHolds'
<1> USE DEF Typed, Remembered, OfferHolds
<1>1. ASSUME NEW c \in Calls, NEW a \in Arguments, NEW step \in Answering \cup {"panicking"},
             NEW code \in {"OK", "Internal"}, TakesEffect(c, a, step, code)
      PROVE  Remembered' /\ OfferHolds'
  <2>1. PICK block \in BOOLEAN : Apply(c, a, block)
    BY <1>1 DEF TakesEffect, Blocks
  <2>2. /\ stock \in [RoomTypes -> Int] /\ a.type \in RoomTypes
        /\ stock' = [stock EXCEPT ![a.type] = IF block THEN @ - a.quantity ELSE @ + a.quantity]
        /\ applied' = applied \cup {c}
    BY <2>1, ApplyChanges
  <2>3. c \notin applied /\ UNCHANGED found
    BY <1>1 DEF TakesEffect, Consistent
  <2>4. call'[c].type = a.type /\ \A d \in Calls \ {c} : call'[d] = call[d]
    BY <1>1 DEF TakesEffect, Asked
  <2>5. ASSUME NEW s \in Searches, NEW t \in DOMAIN found[s].rooms,
               \A d \in applied' \ found[s].since : call'[d].type # t
        PROVE  t \in DOMAIN stock' /\ stock'[t] = found[s].rooms[t] /\ stock'[t] > 0
    <3>1. t # a.type
      BY <2>2, <2>3, <2>4, <2>5
    <3>2. \A d \in applied \ found[s].since : call[d].type # t
      BY <2>2, <2>3, <2>4, <2>5
    <3>3. t \in DOMAIN stock /\ stock[t] = found[s].rooms[t] /\ stock[t] > 0
      BY <3>2
    <3> QED BY <2>2, <3>1, <3>3
  <2> QED BY <2>2, <2>3, <2>5
<1>2. ASSUME UNCHANGED <<stock, applied, found>>, \A d \in applied : call'[d].type = call[d].type
      PROVE  Remembered' /\ OfferHolds'
  BY <1>2
<1>3. ASSUME NEW c \in Calls, NEW a \in Arguments, NEW step \in Answering,
             NEW code \in Refusals \cup {"Internal"}, HasNoEffect(c, a, step, code)
      PROVE  Remembered' /\ OfferHolds'
  <2>1. \A d \in applied : call'[d].type = call[d].type
    BY <1>3 DEF HasNoEffect, Asked, Consistent
  <2> QED BY <1>2, <1>3, <2>1 DEF HasNoEffect
<1>4. ASSUME NEW c \in Calls, Answers(c)
      PROVE  Remembered' /\ OfferHolds'
  <2>1. \A d \in applied : call'[d].type = call[d].type
    BY <1>4 DEF Answers
  <2> QED BY <1>2, <1>4, <2>1 DEF Answers
<1>5. CASE Abandons
  <2>1. \A d \in applied : call'[d].type = call[d].type
    BY <1>5 DEF Abandons
  <2> QED BY <1>2, <1>5, <2>1 DEF Abandons
<1>6. CASE Seeds
  <2>1. \A s \in Searches : DOMAIN found[s].rooms = {}
    BY <1>6 DEF Seeds
  <2> QED BY <1>6, <2>1 DEF Seeds
<1>7. ASSUME NEW s \in Searches, Shows(s)
      PROVE  Remembered' /\ OfferHolds'
  <2>1. PICK read \in SUBSET RoomTypes :
          /\ \A t \in read : t \in DOMAIN stock /\ stock[t] > 0
          /\ found' = [found EXCEPT ![s] = [step |-> "OK", rooms |-> [t \in read |-> stock[t]], since |-> applied]]
    BY <1>7 DEF Shows
  <2>2. UNCHANGED <<stock, call, applied>>
    BY <1>7 DEF Shows
  <2>3. found'[s].rooms = [t \in read |-> stock[t]] /\ found'[s].since = applied
    BY <2>1
  <2>4. \A r \in Searches \ {s} : found'[r] = found[r]
    BY <2>1
  <2>5. Remembered'
    BY <2>1, <2>2, <2>4
  <2>6. \A t \in DOMAIN found'[s].rooms : stock[t] = found'[s].rooms[t] /\ t \in DOMAIN stock /\ stock[t] > 0
    BY <2>1, <2>3
  <2> QED BY <2>2, <2>4, <2>5, <2>6
<1>8. ASSUME NEW s \in Searches, Cuts(s)
      PROVE  Remembered' /\ OfferHolds'
  <2>1. UNCHANGED <<stock, call, applied>>
    BY <1>8 DEF Cuts
  <2>2. \A r \in Searches : /\ DOMAIN found'[r] = {"step", "rooms", "since"}
                            /\ found'[r].rooms = found[r].rooms /\ found'[r].since = found[r].since
    BY <1>8 DEF Cuts
  <2> QED BY <2>1, <2>2
<1>9. CASE UNCHANGED <<stock, call, applied, found>>
  BY <1>2, <1>9
<1> HIDE DEF Typed, Remembered, OfferHolds
<1> QED BY <1>1, <1>3, <1>4, <1>5, <1>6, <1>7, <1>8, <1>9 DEF StockStep

\* Of either build: what a search offered is in the table, with that stock, until
\* a later call for its type takes effect (main.go:144-195).
THEOREM OffersHold == Spec => []OfferHolds
<1>1. Init => Remembered /\ OfferHolds
  BY DEF Init, NoSearch, Remembered, OfferHolds
<1>2. Typed /\ Consistent /\ Remembered /\ OfferHolds /\ [Next]_vars => Remembered' /\ OfferHolds'
  BY NextIsStockStep, OffersPreserved
<1> QED BY <1>1, <1>2, TypedHolds, ConsistentHolds, PTL DEF Spec

-----------------------------------------------------------------------------
(* The first rows *)

\* Where the start of main.go has got to with its hotels and rooms.
FirstRows ==
  /\ phase = "connect" => build # "main"
  /\ phase = "rooms" /\ ~interrupted => hotels
  /\ phase # "rooms" /\ hotels /\ ~interrupted => stock # <<>>
  /\ ServesRooms

\* No call takes the rows away or touches the process.
LEMMA CallFrames ==
  ASSUME Typed,
         \/ \E s \in Searches : SearchAvailableRooms(s) \/ LayersSearch(s)
         \/ \E c \in Calls : UpdateStock(c) \/ LayersUpdateStock(c)
  PROVE  UNCHANGED <<build, phase, hotels, interrupted>> /\ (stock # <<>> => stock' # <<>>)
<1>1. ASSUME NEW s \in Searches, SearchAvailableRooms(s) \/ LayersSearch(s)
      PROVE  UNCHANGED <<build, phase, hotels, interrupted, stock>>
  BY <1>1 DEF SearchAvailableRooms, LayersSearch, SearchAnswer, SearchError, processVars, tableVars
<1>2. ASSUME NEW c \in Calls, NEW a \in Arguments, NEW block \in BOOLEAN, Apply(c, a, block)
      PROVE  stock' # <<>>
  BY <1>2, ApplyChanges, RoomsAreRows
<1>3. ASSUME NEW c \in Calls, UpdateStock(c)
      PROVE  UNCHANGED <<build, phase, hotels, interrupted>> /\ (stock # <<>> => stock' # <<>>)
  <2> USE DEF Then, NotApplied, processVars, tableVars
  <2>1. CASE Write(c) \/ Publish(c)
    BY <2>1 DEF Write, Publish
  <2>2. ASSUME NEW a \in Arguments, UpdateApplied(c, a)
        PROVE  UNCHANGED <<build, phase, hotels, interrupted>> /\ stock' # <<>>
    BY <2>2, <1>2 DEF UpdateApplied
  <2>3. ASSUME NEW a \in Arguments, InvalidAction(c, a) \/ UpdateWithoutRows(c, a) \/ UpdateFails(c, a)
        PROVE  UNCHANGED <<build, phase, hotels, interrupted, stock>>
    BY <2>3 DEF InvalidAction, UpdateWithoutRows, UpdateFails
  <2> QED BY <1>3, <2>1, <2>2, <2>3 DEF UpdateStock
<1>4. ASSUME NEW c \in Calls, LayersUpdateStock(c)
      PROVE  UNCHANGED <<build, phase, hotels, interrupted>> /\ (stock # <<>> => stock' # <<>>)
  <2> USE DEF Then, NotApplied, processVars, AnswerError
  <2>1. ASSUME NEW a \in Arguments, Committed(c, a)
        PROVE  UNCHANGED <<build, phase, hotels, interrupted>> /\ stock' # <<>>
    BY <2>1, <1>2 DEF Committed, Blocks
  <2>2. ASSUME NEW a \in Arguments, InvalidQuantity(c, a) \/ RolledBack(c, a) \/ TransactionFails(c, a)
        PROVE  UNCHANGED <<build, phase, hotels, interrupted, stock>>
    BY <2>2 DEF InvalidQuantity, RolledBack, TransactionFails
  <2> QED BY <1>4, <2>1, <2>2 DEF LayersUpdateStock
<1> QED BY <1>1, <1>3, <1>4

\* main.go never serves without its rooms, whatever of its start fails and is
\* tried again, unless the first rows were cut short (main.go:317-323).
THEOREM RoomsAreServed == Spec => []ServesRooms
<1>0. Seed # <<>>
  <2>1. Seed \in [RoomTypes -> Int]
    BY SeedAssumption DEF SeedAssumption
  <2> QED BY <2>1, RoomsAreRows
<1>1. Init => FirstRows
  BY <1>0 DEF Init, FirstRows, ServesRooms
<1>2. Typed /\ FirstRows /\ [Next]_vars => FirstRows'
  <2> SUFFICES ASSUME Typed, FirstRows, [Next]_vars PROVE FirstRows'
    OBVIOUS
  <2> USE DEF FirstRows, ServesRooms, tableVars
  <2>1. CASE Start
    BY <2>1 DEF Start
  <2>2. CASE PingFails \/ PingAnswered
    <3>1. phase' \in {"down", "ping", "tables"} /\ phase = "ping"
      BY <2>2 DEF PingFails, PingAnswered
    <3>2. UNCHANGED <<build, hotels, interrupted, stock>>
      BY <2>2 DEF PingFails, PingAnswered
    <3> QED BY <3>1, <3>2
  <2>3. CASE CreateTable
    BY <2>3 DEF CreateTable, Goto
  <2>4. CASE CountHotels
    BY <2>4 DEF CountHotels, Goto
  <2>5. CASE InsertHotels
    BY <2>5 DEF InsertHotels, Goto
  <2>6. CASE InsertRooms
    BY <2>6, <1>0 DEF InsertRooms, Goto
  <2>7. CASE Connect
    BY <2>7 DEF Connect, Goto
  <2>8. CASE Panic \/ Crash
    <3>1. phase' = "down" /\ UNCHANGED <<build, hotels, stock>>
      BY <2>8 DEF Panic, Crash, Dies
    <3>2. interrupted' = (interrupted \/ phase = "rooms")
      BY <2>8, Zenon DEF Panic, Crash, Dies
    <3>3. (interrupted => interrupted') /\ (phase = "rooms" => interrupted')
      BY <3>2, Zenon
    <3> QED BY <3>1, <3>3
  <2>9. CASE DatabaseChanges
    BY <2>9 DEF DatabaseChanges
  <2>10. CASE UNCHANGED vars
    BY <2>10 DEF vars, processVars
  <2>11. CASE UNCHANGED <<build, phase, hotels, interrupted>> /\ (stock # <<>> => stock' # <<>>)
    BY <2>11
  <2> HIDE DEF FirstRows, ServesRooms
  <2> QED
    BY <2>1, <2>2, <2>3, <2>4, <2>5, <2>6, <2>7, <2>8, <2>9, <2>10, <2>11, CallFrames
       DEF Next, StartStep
<1>3. FirstRows => ServesRooms
  BY DEF FirstRows
<1> QED BY <1>1, <1>2, <1>3, TypedHolds, PTL DEF Spec

-----------------------------------------------------------------------------
(* Positive quantities *)

PositiveQuantities == \A a \in Arguments : a.quantity > 0

NeverNegative == \A t \in DOMAIN stock : stock[t] >= 0

\* If its callers only send positive quantities, as reservation_service does, no
\* type ever has fewer rooms than none (main.go:207): the row is compared and
\* changed in one statement.
THEOREM StockIsNeverNegative == PositiveQuantities => (Spec => []NeverNegative)
<1> SUFFICES ASSUME PositiveQuantities PROVE Spec => []NeverNegative
  OBVIOUS
<1>1. Init => NeverNegative
  BY SeedAssumption DEF SeedAssumption, Init, NeverNegative
<1>2. Typed /\ NeverNegative /\ [Next]_vars => NeverNegative'
  <2> SUFFICES ASSUME Typed, NeverNegative, StockStep PROVE NeverNegative'
    BY NextIsStockStep
  <2>1. ASSUME NEW c \in Calls, NEW a \in Arguments, NEW block \in BOOLEAN, Apply(c, a, block)
        PROVE  NeverNegative'
    <3>1. /\ stock \in [RoomTypes -> Int] /\ a.type \in RoomTypes /\ a.quantity \in Int
          /\ stock' = [stock EXCEPT ![a.type] = IF block THEN @ - a.quantity ELSE @ + a.quantity]
          /\ block => stock[a.type] >= a.quantity
      BY <2>1, ApplyChanges
    <3>2. stock'[a.type] >= 0
      BY <3>1 DEF NeverNegative, PositiveQuantities
    <3> QED BY <3>1, <3>2 DEF NeverNegative
  <2>2. CASE Seeds
    BY <2>2, SeedAssumption DEF SeedAssumption, Seeds, NeverNegative
  <2>3. CASE UNCHANGED stock
    BY <2>3 DEF NeverNegative
  <2> QED
    BY <2>1, <2>2, <2>3 DEF StockStep, TakesEffect, Blocks, HasNoEffect, Answers, Abandons, Shows, Cuts
<1> QED BY <1>1, <1>2, TypedHolds, PTL DEF Spec

-----------------------------------------------------------------------------
(* Sums over finite sets *)

Pick(s) == CHOOSE x \in s : TRUE

\* The recursive function MapThenSumSet is made of.
IsSum(g, S) ==
  g = [s \in SUBSET S |-> IF s = {} THEN 0 ELSE Added(Pick(s)) + g[s \ {Pick(s)}]]

Total(S) == MapThenSumSet(Added, S)

\* Induction over the subsets of a finite set: a property that some of them lack
\* is lacked by one whose own subsets have it.
LEMMA MinimalSubset ==
  ASSUME NEW S, IsFiniteSet(S), NEW Bad \in SUBSET SUBSET S, Bad # {}
  PROVE  \E s \in Bad : \A t \in SUBSET s : t # s => t \notin Bad
<1>1. IsWellFoundedOn(StrictSubsetOrdering(S), SUBSET S)
  BY FS_StrictSubsetOrderingWellFounded, FS_FiniteSubsetsOfFinite
<1>2. PICK s \in Bad : \A t \in Bad : <<t, s>> \notin StrictSubsetOrdering(S)
  BY <1>1, WFMin
<1>3. \A t \in SUBSET s : t # s => t \notin Bad
  BY <1>2 DEF StrictSubsetOrdering
<1> QED BY <1>3

\* A set without its chosen element is one of its smaller subsets.
LEMMA PickIsIn ==
  ASSUME NEW s, s # {}
  PROVE  /\ Pick(s) \in s
         /\ s \ {Pick(s)} \in SUBSET s
         /\ s \ {Pick(s)} # s
<1>1. Pick(s) \in s
  BY DEF Pick
<1> QED BY <1>1

\* Two such functions agree where both are defined.
LEMMA SumIsUnique ==
  ASSUME NEW S, IsFiniteSet(S), NEW T \in SUBSET S, NEW g, IsSum(g, S), NEW h, IsSum(h, T)
  PROVE  g[T] = h[T]
<1> DEFINE Bad == {s \in SUBSET T : g[s] # h[s]}
<1>0. IsFiniteSet(T)
  BY FS_Subset
<1>1. ASSUME NEW s \in Bad, \A t \in SUBSET s : t # s => t \notin Bad
      PROVE  FALSE
  <2>1. s \in SUBSET T /\ s \in SUBSET S
    OBVIOUS
  <2>2. /\ g[s] = IF s = {} THEN 0 ELSE Added(Pick(s)) + g[s \ {Pick(s)}]
        /\ h[s] = IF s = {} THEN 0 ELSE Added(Pick(s)) + h[s \ {Pick(s)}]
    BY <2>1 DEF IsSum
  <2>3. s # {}
    BY <2>2
  <2>4. s \ {Pick(s)} \notin Bad
    BY <1>1, <2>3, PickIsIn
  <2>5. g[s \ {Pick(s)}] = h[s \ {Pick(s)}]
    BY <2>1, <2>4
  <2> QED BY <2>2, <2>5
<1>2. Bad = {}
  <2> HIDE DEF Bad
  <2>1. Bad \in SUBSET SUBSET T
    BY DEF Bad
  <2> QED BY <1>0, <1>1, <2>1, MinimalSubset
<1> QED BY <1>2

\* The one over S, chosen; MapThenSumSet is its value.
Summed(S) == (CHOOSE g : IsSum(g, S))[S]

LEMMA TotalIsSummed ==
  ASSUME NEW S
  PROVE  Total(S) = Summed(S)
  BY DEF Total, Summed, MapThenSumSet, MapThenFoldSet, IsSum, Pick

\* There is one over every finite set.
LEMMA SumExists ==
  ASSUME NEW S, IsFiniteSet(S)
  PROVE  \E g : IsSum(g, S)
<1> DEFINE Bad == {T \in SUBSET S : ~ \E g : IsSum(g, T)}
<1>1. ASSUME NEW T \in Bad, \A t \in SUBSET T : t # T => t \notin Bad
      PROVE  FALSE
  <2> DEFINE g == [s \in SUBSET T |-> IF s = {} THEN 0 ELSE Added(Pick(s)) + Summed(s \ {Pick(s)})]
  <2>1. T \in SUBSET S /\ ~ \E h : IsSum(h, T)
    OBVIOUS
  <2>2. \A t \in SUBSET T : t # T => IsFiniteSet(t) /\ \E h : IsSum(h, t)
    <3>1. \A t \in SUBSET S : IsFiniteSet(t)
      BY FS_Subset
    <3> QED BY <1>1, <2>1, <3>1
  <2>3. ASSUME NEW t \in SUBSET T, t # T
        PROVE  g[t] = Summed(t)
    <3> DEFINE h == CHOOSE f : IsSum(f, t)
    <3>1. IsSum(h, t) /\ Summed(t) = h[t]
      BY <2>2, <2>3 DEF Summed
    <3> HIDE DEF h
    <3>2. h[t] = IF t = {} THEN 0 ELSE Added(Pick(t)) + h[t \ {Pick(t)}]
      BY <3>1 DEF IsSum
    <3>3. CASE t = {}
      BY <3>1, <3>2, <3>3
    <3>4. CASE t # {}
      <4> DEFINE u == t \ {Pick(t)}
                 k == CHOOSE f : IsSum(f, u)
      <4>1. u \in SUBSET t /\ u \in SUBSET T /\ u # T
        BY <2>3, <3>4, PickIsIn
      <4>2. IsSum(k, u) /\ Summed(u) = k[u]
        <5> HIDE DEF u
        <5> QED BY <2>2, <4>1 DEF Summed
      <4> HIDE DEF k
      <4>3. h[u] = k[u]
        <5> HIDE DEF u
        <5> QED BY <2>2, <2>3, <3>1, <4>1, <4>2, SumIsUnique
      <4> QED BY <3>1, <3>2, <3>4, <4>2, <4>3
    <3> QED BY <3>3, <3>4
  <2>4. \A s \in SUBSET T : s # {} => g[s \ {Pick(s)}] = Summed(s \ {Pick(s)})
    <3> SUFFICES ASSUME NEW s \in SUBSET T, s # {}
                 PROVE  g[s \ {Pick(s)}] = Summed(s \ {Pick(s)})
      OBVIOUS
    <3>1. s \ {Pick(s)} \in SUBSET T /\ s \ {Pick(s)} # T
      BY PickIsIn
    <3> HIDE DEF g
    <3> QED BY <2>3, <3>1
  <2>5. g = [s \in SUBSET T |-> IF s = {} THEN 0 ELSE Added(Pick(s)) + g[s \ {Pick(s)}]]
    BY <2>4
  <2> HIDE DEF g
  <2> QED BY <2>1, <2>5 DEF IsSum
<1>2. Bad = {}
  <2> HIDE DEF Bad
  <2>1. Bad \in SUBSET SUBSET S
    BY DEF Bad
  <2> QED BY <1>1, <2>1, MinimalSubset
<1> QED BY <1>2

\* MapThenSumSet adds up one element after the other.
LEMMA TotalStep ==
  ASSUME NEW S, IsFiniteSet(S)
  PROVE  Total(S) = IF S = {} THEN 0 ELSE Added(Pick(S)) + Total(S \ {Pick(S)})
<1> DEFINE g == CHOOSE f : IsSum(f, S)
           T == S \ {Pick(S)}
           h == CHOOSE f : IsSum(f, T)
<1>1. IsFiniteSet(T) /\ T \in SUBSET S
  BY FS_RemoveElement
<1>2. IsSum(g, S) /\ Total(S) = g[S]
  BY SumExists, TotalIsSummed DEF Summed
<1>3. IsSum(h, T) /\ Total(T) = h[T]
  <2> HIDE DEF T
  <2> QED BY <1>1, SumExists, TotalIsSummed DEF Summed
<1> HIDE DEF g, h
<1>4. g[T] = h[T]
  <2> HIDE DEF T
  <2> QED BY <1>1, <1>2, <1>3, SumIsUnique
<1>5. g[S] = IF S = {} THEN 0 ELSE Added(Pick(S)) + g[T]
  BY <1>2 DEF IsSum
<1> QED BY <1>2, <1>3, <1>4, <1>5

\* A sum of integers is one.
LEMMA TotalType ==
  ASSUME NEW S, IsFiniteSet(S), \A e \in S : Added(e) \in Int
  PROVE  Total(S) \in Int
<1> DEFINE Bad == {s \in SUBSET S : Total(s) \notin Int}
<1>1. ASSUME NEW s \in Bad, \A t \in SUBSET s : t # s => t \notin Bad
      PROVE  FALSE
  <2>1. s \in SUBSET S /\ Total(s) \notin Int
    OBVIOUS
  <2>2. IsFiniteSet(s)
    BY <2>1, FS_Subset
  <2>3. Total(s) = IF s = {} THEN 0 ELSE Added(Pick(s)) + Total(s \ {Pick(s)})
    BY <2>2, TotalStep
  <2>4. s # {}
    BY <2>1, <2>3
  <2>5. s \ {Pick(s)} \notin Bad /\ Pick(s) \in s
    BY <1>1, <2>4, PickIsIn
  <2>6. Total(s \ {Pick(s)}) \in Int /\ Added(Pick(s)) \in Int
    BY <2>1, <2>5
  <2> QED BY <2>1, <2>3, <2>4, <2>6
<1>2. Bad = {}
  <2> HIDE DEF Bad
  <2>1. Bad \in SUBSET SUBSET S
    BY DEF Bad
  <2> QED BY <1>1, <2>1, MinimalSubset
<1> QED BY <1>2

\* One more element adds its own, whichever was chosen first.
LEMMA TotalOfOneMore ==
  ASSUME NEW S, IsFiniteSet(S), NEW e, e \notin S, \A f \in S \cup {e} : Added(f) \in Int
  PROVE  Total(S \cup {e}) = Total(S) + Added(e)
<1> DEFINE U == S \cup {e}
           Bad == {s \in SUBSET U : \E f \in U \ s : Total(s \cup {f}) # Total(s) + Added(f)}
<1>0. IsFiniteSet(U) /\ \A s \in SUBSET U : IsFiniteSet(s)
  <2>1. IsFiniteSet(U)
    BY FS_AddElement
  <2> HIDE DEF U
  <2> QED BY <2>1, FS_Subset
<1>1. ASSUME NEW s \in Bad, \A t \in SUBSET s : t # s => t \notin Bad
      PROVE  FALSE
  <2>1. PICK f \in U \ s : s \in SUBSET U /\ Total(s \cup {f}) # Total(s) + Added(f)
    OBVIOUS
  <2> DEFINE T == s \cup {f}
             p == Pick(T)
             r == s \ {p}
  <2>2. p \in T
    BY PickIsIn
  <2>3. Total(T) = Added(p) + Total(T \ {p})
    <3>1. IsFiniteSet(T) /\ T # {}
      BY <1>0, <2>1
    <3> HIDE DEF T
    <3> QED BY <3>1, TotalStep
  <2>4. \A t \in SUBSET U : Total(t) \in Int
    <3>1. \A x \in U : Added(x) \in Int
      OBVIOUS
    <3> HIDE DEF U
    <3> QED BY <1>0, <3>1, TotalType
  <2>5. Total(s) \in Int /\ Total(r) \in Int /\ Added(f) \in Int
    <3>1. r \in SUBSET U /\ f \in U /\ \A x \in U : Added(x) \in Int
      BY <2>1
    <3> QED BY <2>1, <2>4, <3>1
  <2>6. Total(T) # Total(s) + Added(f)
    BY <2>1
  <2> HIDE DEF p
  <2>7. CASE p = f
    <3>1. T \ {p} = s
      BY <2>1, <2>7
    <3>2. Total(T) = Added(f) + Total(s)
      BY <2>3, <2>7, <3>1
    <3> HIDE DEF T
    <3> QED BY <2>5, <2>6, <3>2
  <2>8. CASE p # f
    <3>1. p \in s /\ r \in SUBSET s /\ r # s
      BY <2>2, <2>8
    <3>2. r \notin Bad /\ r \in SUBSET U
      BY <1>1, <2>1, <3>1
    <3>3. Total(r \cup {f}) = Total(r) + Added(f) /\ Total(r \cup {p}) = Total(r) + Added(p)
      <4>1. f \in U \ r /\ p \in U \ r
        BY <2>1, <3>1
      <4> HIDE DEF r, U
      <4> QED BY <3>2, <4>1
    <3>4. r \cup {f} = T \ {p} /\ r \cup {p} = s
      BY <2>1, <2>8, <3>1
    <3>5. Added(p) \in Int
      BY <2>1, <3>1
    <3>6. /\ Total(T) = Added(p) + (Total(r) + Added(f))
          /\ Total(s) = Total(r) + Added(p)
      BY <2>3, <3>3, <3>4
    <3> HIDE DEF T, r
    <3> QED BY <2>5, <2>6, <3>5, <3>6
  <2> QED BY <2>7, <2>8
<1>2. Bad = {}
  <2> HIDE DEF Bad
  <2>1. Bad \in SUBSET SUBSET U
    BY DEF Bad
  <2> QED BY <1>0, <1>1, <2>1, MinimalSubset
<1>3. S \in SUBSET U /\ e \in U \ S /\ S \notin Bad
  BY <1>2
<1> QED BY <1>3

-----------------------------------------------------------------------------
(* The events *)

\* The event that tells of what a call changed.
ChangeOf(c) ==
  newEvent(c, IF call[c].action = "LIBERAR" THEN "InventoryStockReleased" ELSE "InventoryStockBlocked")

\* The steps of a call whose event may be in the topic.
Published == {"publishing", "answered", "lost"}

\* Every record is of the event its call is answered with, or would have been.
Told ==
  \A record \in topic :
    \E c \in Calls, n \in 1 .. MaxAttempts : record = Record(c, n) /\ call[c].step \in Published

AppliedTo(t) == {c \in applied : call[c].type = t}

ChangesOf(t) == {ChangeOf(c) : c \in AppliedTo(t)}

\* The stock is the first one with what each applied call changed, whether its
\* event was published or not.
Balanced ==
  /\ IsFiniteSet(applied)
  /\ \A t \in DOMAIN stock : stock[t] = Seed[t] + Total(ChangesOf(t))

LEMMA TopicStep ==
  ASSUME [Next]_vars
  PROVE  UNCHANGED topic \/ \E c \in Calls : Write(c)
<1> USE DEF callVars
<1>1. CASE Start \/ StartStep \/ Connect
  BY <1>1 DEF Start, StartStep, Connect, PingFails, PingAnswered, CreateTable, CountHotels,
              InsertHotels, InsertRooms, Goto
<1>2. CASE Panic \/ Crash
  BY <1>2 DEF Panic, Crash, Dies
<1>3. CASE DatabaseChanges
  BY <1>3 DEF DatabaseChanges
<1>4. ASSUME NEW s \in Searches, SearchAvailableRooms(s) \/ LayersSearch(s)
      PROVE  UNCHANGED topic
  BY <1>4 DEF SearchAvailableRooms, LayersSearch, SearchAnswer, SearchError
<1>5. ASSUME NEW c \in Calls, UpdateStock(c)
      PROVE  UNCHANGED topic \/ Write(c)
  BY <1>5 DEF UpdateStock, InvalidAction, UpdateApplied, UpdateWithoutRows, UpdateFails, Publish, Then
<1>6. ASSUME NEW c \in Calls, LayersUpdateStock(c)
      PROVE  UNCHANGED topic
  BY <1>6 DEF LayersUpdateStock, InvalidQuantity, Committed, RolledBack, TransactionFails, AnswerError, Then
<1>7. CASE UNCHANGED vars
  BY <1>7 DEF vars
<1> QED BY <1>1, <1>2, <1>3, <1>4, <1>5, <1>6, <1>7 DEF Next

\* What a call is answered with, or would have been, does not change.
LEMMA AnswerStays ==
  ASSUME Typed, StockStep, NEW c \in Calls, call[c].step \in Published
  PROVE  /\ call'[c].step \in Published
         /\ call'[c].action = call[c].action /\ call'[c].type = call[c].type
         /\ call'[c].quantity = call[c].quantity /\ call'[c].code = call[c].code
<1> USE DEF Typed, Published
<1> DEFINE Stays ==
      /\ call'[c].step \in Published
      /\ call'[c].action = call[c].action /\ call'[c].type = call[c].type
      /\ call'[c].quantity = call[c].quantity /\ call'[c].code = call[c].code
<1> SUFFICES Stays
  OBVIOUS
<1>1. ASSUME NEW d \in Calls, NEW a \in Arguments, NEW step, NEW code,
             call[d].step = "none", Asked(d, a, step, code)
      PROVE  Stays
  BY <1>1 DEF Asked
<1>2. ASSUME NEW d \in Calls, Answers(d)
      PROVE  Stays
  BY <1>2 DEF Answers
<1>3. CASE Abandons
  BY <1>3 DEF Abandons
<1>4. CASE UNCHANGED call
  BY <1>4
<1> HIDE DEF Stays
<1>5. ASSUME NEW d \in Calls, NEW a \in Arguments, NEW step, NEW code,
             TakesEffect(d, a, step, code) \/ HasNoEffect(d, a, step, code)
      PROVE  Stays
  BY <1>1, <1>5 DEF TakesEffect, HasNoEffect
<1>6. ASSUME NEW s \in Searches, Shows(s) \/ Cuts(s)
      PROVE  Stays
  BY <1>4, <1>6 DEF Shows, Cuts
<1>7. CASE Seeds
  BY <1>4, <1>7 DEF Seeds
<1> QED BY <1>2, <1>3, <1>4, <1>5, <1>6, <1>7 DEF StockStep

\* What an event says depends on what its call asked for and its code.
LEMMA SameEvent ==
  ASSUME NEW c, call'[c].action = call[c].action, call'[c].type = call[c].type,
         call'[c].quantity = call[c].quantity
  PROVE  /\ ChangeOf(c)' = ChangeOf(c)
         /\ call'[c].code = call[c].code => Event(c)' = Event(c)
<1>1. stockData(c)' = stockData(c)
  BY DEF stockData
<1> QED BY <1>1 DEF ChangeOf, Event, newEvent

LEMMA ToldHolds == Spec => []Told
<1>1. Init => Told
  BY DEF Init, Told
<1>2. Typed /\ Told /\ [Next]_vars => Told'
  <2> SUFFICES ASSUME Typed, Told, [Next]_vars PROVE Told'
    OBVIOUS
  <2>1. ASSUME NEW c \in Calls, call[c].step \in Published
        PROVE  Event(c)' = Event(c) /\ call'[c].step \in Published
    BY <2>1, NextIsStockStep, AnswerStays, SameEvent
  <2>2. ASSUME NEW record \in topic
        PROVE  \E c \in Calls, n \in 1 .. MaxAttempts :
                 record = [event |-> Event(c)', copy |-> n] /\ call'[c].step \in Published
    BY <2>1 DEF Told, Record
  <2>3. ASSUME NEW c \in Calls, Write(c), NEW record \in topic' \ topic
        PROVE  \E d \in Calls, n \in 1 .. MaxAttempts :
                 record = [event |-> Event(d)', copy |-> n] /\ call'[d].step \in Published
    <3>1. PICK n \in 1 .. MaxAttempts : topic' = topic \cup {Record(c, n)}
      BY <2>3 DEF Write
    <3>2. record = [event |-> Event(c), copy |-> n]
      BY <3>1 DEF Record
    <3>3. call[c].step \in Published
      BY <2>3 DEF Write, Published
    <3> QED BY <2>1, <3>2, <3>3
  <2>4. ASSUME NEW record \in topic'
        PROVE  \E c \in Calls, n \in 1 .. MaxAttempts :
                 record = [event |-> Event(c)', copy |-> n] /\ call'[c].step \in Published
    <3>1. CASE record \in topic
      BY <2>2, <3>1
    <3>2. CASE record \notin topic
      <4>1. PICK c \in Calls : Write(c)
        BY <2>4, <3>2, TopicStep
      <4> QED BY <2>3, <3>2, <4>1
    <3> QED BY <3>1, <3>2
  <2> QED BY <2>4 DEF Told, Record
<1> QED BY <1>1, <1>2, TypedHolds, PTL DEF Spec

\* Every fact in the topic is the event of its call.
LEMMA FactIsEvent ==
  ASSUME Told, NEW e \in Facts
  PROVE  e.call \in Calls /\ e = Event(e.call) /\ call[e.call].step \in Published
<1>1. PICK record \in topic : e = record.event
  BY DEF Facts
<1>2. PICK c \in Calls, n \in 1 .. MaxAttempts : record = Record(c, n) /\ call[c].step \in Published
  BY DEF Told
<1>3. e = Event(c)
  BY <1>1, <1>2 DEF Record
<1>4. Event(c).call = c
  BY DEF Event, newEvent
<1> QED BY <1>2, <1>3, <1>4

\* What the change of a call adds, whose name it carries.
LEMMA ChangeAdds ==
  ASSUME Typed, NEW c \in Calls
  PROVE  /\ Added(ChangeOf(c)) = IF call[c].action = "LIBERAR" THEN call[c].quantity ELSE -call[c].quantity
         /\ Added(ChangeOf(c)) \in Int
         /\ ChangeOf(c).call = c /\ ChangeOf(c).data.room = call[c].type
<1>1. call[c].quantity \in Int
  BY DEF Typed
<1>2. stockData(c).quantity = call[c].quantity /\ stockData(c).room = call[c].type
  BY DEF stockData
<1> QED BY <1>1, <1>2 DEF Added, ChangeOf, newEvent

LEMMA BalancedHolds == Spec => []Balanced
<1>1. Init => Balanced
  <2> SUFFICES ASSUME Init PROVE Balanced
    OBVIOUS
  <2>1. applied = {} /\ IsFiniteSet(applied)
    BY FS_EmptySet DEF Init
  <2>2. Total({}) = 0
    BY FS_EmptySet, TotalStep
  <2>3. \A t : ChangesOf(t) = {}
    BY <2>1 DEF ChangesOf, AppliedTo
  <2>4. \A t \in DOMAIN stock : stock[t] = Seed[t] /\ Seed[t] \in Int
    BY SeedAssumption DEF SeedAssumption, Init
  <2> QED BY <2>1, <2>2, <2>3, <2>4 DEF Balanced
<1>2. Typed /\ Consistent /\ Balanced /\ [Next]_vars => Balanced'
  <2> SUFFICES ASSUME Typed, Consistent, Balanced, StockStep PROVE Balanced'
    BY NextIsStockStep
  <2>1. ASSUME UNCHANGED <<stock, applied>>,
               \A c \in applied : /\ call'[c].action = call[c].action /\ call'[c].type = call[c].type
                                  /\ call'[c].quantity = call[c].quantity
        PROVE  Balanced'
    <3>1. \A c \in applied : ChangeOf(c)' = ChangeOf(c)
      BY <2>1, SameEvent
    <3>2. \A t : ChangesOf(t)' = ChangesOf(t)
      BY <2>1, <3>1 DEF ChangesOf, AppliedTo
    <3> QED BY <2>1, <3>2 DEF Balanced
  <2>2. ASSUME NEW c \in Calls, NEW a \in Arguments, NEW step \in Answering \cup {"panicking"},
               NEW code \in {"OK", "Internal"}, TakesEffect(c, a, step, code)
        PROVE  Balanced'
    <3>1. /\ stock \in [RoomTypes -> Int] /\ a.type \in RoomTypes /\ a.quantity \in Int
          /\ stock' = [stock EXCEPT ![a.type] = IF Blocks(a) THEN @ - a.quantity ELSE @ + a.quantity]
          /\ applied' = applied \cup {c}
      <4>1. Blocks(a) \in BOOLEAN /\ Apply(c, a, Blocks(a))
        BY <2>2 DEF TakesEffect, Blocks
      <4> QED BY <4>1, ApplyChanges
    <3>2. c \notin applied
      BY <2>2 DEF TakesEffect, Consistent
    <3>3. /\ call'[c].action = a.action /\ call'[c].type = a.type /\ call'[c].quantity = a.quantity
          /\ \A d \in applied : call'[d] = call[d]
      BY <2>2, <3>2 DEF TakesEffect, Asked, Typed
    <3>4. \A d \in applied : ChangeOf(d)' = ChangeOf(d)
      BY <3>3, SameEvent
    <3>5. IsFiniteSet(applied')
      BY <3>1, FS_AddElement DEF Balanced
    <3>6. ASSUME NEW t \in RoomTypes
          PROVE  stock'[t] = Seed[t] + Total(ChangesOf(t)')
      <4>1. stock[t] = Seed[t] + Total(ChangesOf(t)) /\ Seed[t] \in Int /\ stock[t] \in Int
        <5>1. t \in DOMAIN stock /\ stock[t] \in Int
          BY <3>1
        <5>2. Seed[t] \in Int
          BY SeedAssumption DEF SeedAssumption
        <5> QED BY <5>1, <5>2 DEF Balanced
      <4>2. CASE t # a.type
        <5>1. AppliedTo(t)' = AppliedTo(t)
          BY <3>1, <3>3, <4>2 DEF AppliedTo
        <5>2. ChangesOf(t)' = ChangesOf(t)
          BY <3>4, <5>1 DEF ChangesOf, AppliedTo
        <5>3. stock'[t] = stock[t]
          BY <3>1, <4>2
        <5> QED BY <4>1, <5>2, <5>3
      <4>3. CASE t = a.type
        <5>1. AppliedTo(t)' = AppliedTo(t) \cup {c}
          BY <3>1, <3>3, <4>3 DEF AppliedTo
        <5>2. ChangesOf(t)' = ChangesOf(t) \cup {ChangeOf(c)'}
          BY <3>4, <5>1 DEF ChangesOf, AppliedTo
        <5>3. /\ Added(ChangeOf(c)') = IF Blocks(a) THEN -a.quantity ELSE a.quantity
              /\ ChangeOf(c)'.call = c
          BY <3>3 DEF Added, ChangeOf, newEvent, stockData, Blocks
        <5>4. IsFiniteSet(ChangesOf(t))
          <6>1. IsFiniteSet(AppliedTo(t))
            BY FS_Subset DEF Balanced, AppliedTo
          <6>2. [d \in AppliedTo(t) |-> ChangeOf(d)] \in Surjection(AppliedTo(t), ChangesOf(t))
            BY DEF ChangesOf, Surjection
          <6> QED BY <6>1, <6>2, FS_Surjection
        <5>5. \A e \in ChangesOf(t) : Added(e) \in Int /\ e.call # c
          BY <3>2, ChangeAdds DEF ChangesOf, AppliedTo, Typed
        <5>6. Total(ChangesOf(t)) \in Int
          <6> QED BY <5>4, <5>5, TotalType
        <5>7. Total(ChangesOf(t)') = Total(ChangesOf(t)) + Added(ChangeOf(c)')
          <6>1. ChangeOf(c)' \notin ChangesOf(t) /\ \A e \in ChangesOf(t) \cup {ChangeOf(c)'} : Added(e) \in Int
            BY <3>1, <5>3, <5>5
          <6> QED BY <5>2, <5>4, <6>1, TotalOfOneMore
        <5>8. stock'[t] = IF Blocks(a) THEN stock[t] - a.quantity ELSE stock[t] + a.quantity
          BY <3>1, <4>3
        <5> QED BY <3>1, <4>1, <5>3, <5>6, <5>7, <5>8
      <4> QED BY <4>2, <4>3
    <3> QED BY <3>1, <3>5, <3>6 DEF Balanced
  <2>3. ASSUME NEW c \in Calls, NEW a \in Arguments, NEW step \in Answering,
               NEW code \in Refusals \cup {"Internal"}, HasNoEffect(c, a, step, code)
        PROVE  Balanced'
    <3>1. c \notin applied /\ \A d \in applied : call'[d] = call[d]
      BY <2>3 DEF HasNoEffect, Asked, Consistent, Typed
    <3> QED BY <2>1, <2>3, <3>1 DEF HasNoEffect
  <2>4. ASSUME NEW c \in Calls, Answers(c)
        PROVE  Balanced'
    <3>1. \A d \in Calls : /\ call'[d].action = call[d].action /\ call'[d].type = call[d].type
                           /\ call'[d].quantity = call[d].quantity
      BY <2>4 DEF Answers, Typed
    <3> QED BY <2>1, <2>4, <3>1 DEF Answers, Typed
  <2>5. CASE Abandons
    <3>1. \A d \in Calls : /\ call'[d].action = call[d].action /\ call'[d].type = call[d].type
                           /\ call'[d].quantity = call[d].quantity
      BY <2>5 DEF Abandons, Typed
    <3> QED BY <2>1, <2>5, <3>1 DEF Abandons, Typed
  <2>6. CASE Seeds
    <3>1. applied = {} /\ applied' = {}
      BY <2>6 DEF Seeds, Typed
    <3>2. \A t : ChangesOf(t)' = {}
      BY <3>1 DEF ChangesOf, AppliedTo
    <3>3. Total({}) = 0 /\ IsFiniteSet({})
      BY FS_EmptySet, TotalStep
    <3>4. \A t \in DOMAIN stock' : stock'[t] = Seed[t] /\ Seed[t] \in Int
      BY <2>6, SeedAssumption DEF SeedAssumption, Seeds
    <3> QED BY <3>1, <3>2, <3>3, <3>4 DEF Balanced
  <2>7. CASE UNCHANGED <<stock, call, applied>>
    BY <2>1, <2>7
  <2> QED BY <2>2, <2>3, <2>4, <2>5, <2>6, <2>7 DEF StockStep, Shows, Cuts
<1> QED BY <1>1, <1>2, TypedHolds, ConsistentHolds, PTL DEF Spec

\* The topic agrees with the table whatever crashes, is lost or is written again,
\* for a consumer that takes each event_id once: an event tells of a change that
\* was made, a refusal of none, the copies of one do not contradict each other, and
\* when none is missing their sum is what became of the stock (main.go:197-293).
THEOREM EventsAreTrue == Spec => []EventsTellTruth
<1>1. Typed /\ Consistent /\ Told /\ Balanced => EventsTellTruth
  <2> SUFFICES ASSUME Typed, Consistent, Told, Balanced PROVE EventsTellTruth
    OBVIOUS
  <2>1. ASSUME NEW e \in Facts
        PROVE  /\ e.call \in Calls /\ e = Event(e.call) /\ call[e.call].step \in Published
               /\ e \in Changes => call[e.call].code = "OK" /\ e = ChangeOf(e.call)
               /\ e \notin Changes => call[e.call].code # "OK"
    <3>1. e.call \in Calls /\ e = Event(e.call) /\ call[e.call].step \in Published
      BY FactIsEvent
    <3>2. e \in Changes <=> Event(e.call).event_type # "InventoryStockFailed"
      BY <3>1 DEF Changes
    <3>3. Event(e.call).event_type # "InventoryStockFailed" <=> call[e.call].code = "OK"
      BY DEF Event, newEvent
    <3>4. call[e.call].code = "OK" => Event(e.call) = ChangeOf(e.call)
      BY DEF Event, ChangeOf
    <3> QED BY <3>1, <3>2, <3>3, <3>4
  <2>2. ASSUME NEW e \in Facts
        PROVE  /\ e \in Changes => e.call \in applied
               /\ e \notin Changes /\ e.call \in applied => call[e.call].code = "Internal"
               /\ \A f \in Facts : f.call = e.call => f = e
    <3>1. call[e.call].code \in Codes
      BY <2>1 DEF Typed
    <3> QED BY <2>1, <3>1 DEF Consistent, Published, Refusals, Codes
  <2>3. ASSUME {e.call : e \in Changes} = applied, NEW t \in DOMAIN stock
        PROVE  stock[t] = Seed[t] + MapThenSumSet(Added, {e \in Changes : e.data.room = t})
    <3>1. {e \in Changes : e.data.room = t} = ChangesOf(t)
      <4>1. ASSUME NEW e \in Changes, e.data.room = t
            PROVE  \E c \in AppliedTo(t) : e = ChangeOf(c)
        <5>1. e.call \in applied /\ e.call \in Calls /\ e = ChangeOf(e.call)
          BY <2>1, <2>2 DEF Changes
        <5>2. call[e.call].type = t
          BY <4>1, <5>1, ChangeAdds
        <5> QED BY <5>1, <5>2 DEF AppliedTo
      <4>2. ASSUME NEW c \in AppliedTo(t)
            PROVE  ChangeOf(c) \in Changes /\ ChangeOf(c).data.room = t
        <5>1. PICK e \in Changes : e.call = c
          BY <2>3 DEF AppliedTo
        <5>2. e = ChangeOf(c) /\ c \in Calls
          BY <2>1, <5>1 DEF Changes
        <5> QED BY <5>1, <5>2, ChangeAdds DEF AppliedTo
      <4> QED BY <4>1, <4>2 DEF ChangesOf
    <3> QED BY <3>1 DEF Balanced, Total
  <2> QED BY <2>2, <2>3 DEF EventsTellTruth
<1> QED BY <1>1, TypedHolds, ConsistentHolds, ToldHolds, BalancedHolds, PTL

-----------------------------------------------------------------------------
(* The type of the state *)

\* A start that is still pinging has pings left.
ProcessTyped ==
  /\ build \in {"main", "layers"}
  /\ phase \in {"down", "serving"} \cup StartPhases
  /\ pings \in 0 .. MaxPings
  /\ phase = "ping" => pings < MaxPings
  /\ crashes \in 0 .. MaxCrashes
  /\ publisher \in {"none", "kafka", "noop"}
  /\ tables \in 0 .. 2

FlagsTyped == dbUp \in BOOLEAN /\ hotels \in BOOLEAN /\ interrupted \in BOOLEAN

\* A call that has come asks for one of the quantities that may be asked for.
Sent ==
  \A c \in Calls : /\ call[c].quantity \in {0} \cup Quantities
                   /\ call[c].step # "none" => call[c].quantity \in Quantities

Shown ==
  \A s \in Searches :
    /\ DOMAIN found[s] = {"step", "rooms", "since"}
    /\ found[s].step \in {"none", "OK", "Internal"}
    /\ DOMAIN found[s].rooms \subseteq RoomTypes
    /\ found[s].since \subseteq applied

LEMMA CallLeavesProcess ==
  ASSUME \/ \E s \in Searches : SearchAvailableRooms(s) \/ LayersSearch(s)
         \/ \E c \in Calls : UpdateStock(c) \/ LayersUpdateStock(c)
  PROVE  UNCHANGED <<build, phase, pings, crashes, dbUp, publisher, tables, hotels, interrupted>>
<1> USE DEF processVars, tableVars
<1>1. ASSUME NEW s \in Searches, SearchAvailableRooms(s) \/ LayersSearch(s)
      PROVE  UNCHANGED <<build, phase, pings, crashes, dbUp, publisher, tables, hotels, interrupted>>
  BY <1>1 DEF SearchAvailableRooms, LayersSearch, SearchAnswer, SearchError
<1>2. ASSUME NEW c \in Calls, UpdateStock(c)
      PROVE  UNCHANGED <<build, phase, pings, crashes, dbUp, publisher, tables, hotels, interrupted>>
  BY <1>2 DEF UpdateStock, InvalidAction, UpdateApplied, UpdateWithoutRows, UpdateFails, Write, Publish, Then
<1>3. ASSUME NEW c \in Calls, LayersUpdateStock(c)
      PROVE  UNCHANGED <<build, phase, pings, crashes, dbUp, publisher, tables, hotels, interrupted>>
  BY <1>3 DEF LayersUpdateStock, InvalidQuantity, Committed, RolledBack, TransactionFails, AnswerError, Then
<1> QED BY <1>1, <1>2, <1>3

LEMMA ProcessTypedHolds == Spec => []ProcessTyped
<1> USE StartAssumption DEF StartAssumption, StartPhases
<1>1. Init => ProcessTyped
  BY DEF Init, ProcessTyped
<1>2. ProcessTyped /\ [Next]_vars => ProcessTyped'
  <2> SUFFICES ASSUME ProcessTyped, [Next]_vars PROVE ProcessTyped'
    OBVIOUS
  <2> USE DEF ProcessTyped, tableVars, Goto
  <2>1. CASE Start
    BY <2>1 DEF Start
  <2>2. CASE PingFails
    BY <2>2 DEF PingFails
  <2>3. CASE PingAnswered
    <3>1. publisher' \in {"kafka", "noop"}
      BY <2>3 DEF PingAnswered, NewPublisher
    <3>2. phase' = "tables" /\ pings' = 0 /\ UNCHANGED <<build, crashes, tables>>
      BY <2>3 DEF PingAnswered
    <3> QED BY <3>1, <3>2
  <2>4. CASE CreateTable
    BY <2>4 DEF CreateTable
  <2>5. CASE CountHotels
    BY <2>5 DEF CountHotels
  <2>6. CASE InsertHotels \/ InsertRooms
    BY <2>6 DEF InsertHotels, InsertRooms
  <2>7. CASE Connect
    BY <2>7 DEF Connect
  <2>8. CASE Panic \/ Crash
    <3>1. crashes' = crashes \/ (crashes < MaxCrashes /\ crashes' = crashes + 1)
      BY <2>8 DEF Panic, Crash
    <3>2. phase' = "down" /\ publisher' = "none" /\ UNCHANGED <<build, pings, tables>>
      BY <2>8 DEF Panic, Crash, Dies
    <3> QED BY <3>1, <3>2
  <2>9. CASE DatabaseChanges
    BY <2>9 DEF DatabaseChanges
  <2>10. CASE UNCHANGED <<build, phase, pings, crashes, publisher, tables>>
    BY <2>10
  <2> HIDE DEF ProcessTyped
  <2> QED
    BY <2>1, <2>2, <2>3, <2>4, <2>5, <2>6, <2>7, <2>8, <2>9, <2>10, CallLeavesProcess
       DEF Next, StartStep, vars, processVars
<1> QED BY <1>1, <1>2, PTL DEF Spec

LEMMA FlagsTypedHolds == Spec => []FlagsTyped
<1>1. Init => FlagsTyped
  BY DEF Init, FlagsTyped
<1>2. FlagsTyped /\ [Next]_vars => FlagsTyped'
  <2> SUFFICES ASSUME FlagsTyped, [Next]_vars PROVE FlagsTyped'
    OBVIOUS
  <2>1. dbUp' \in BOOLEAN
    <3>1. CASE DatabaseChanges
      BY <3>1, Zenon DEF DatabaseChanges
    <3>2. DatabaseChanges \/ UNCHANGED dbUp
      BY CallLeavesProcess DEF Next, Start, StartStep, PingFails, PingAnswered, CreateTable, CountHotels,
         InsertHotels, InsertRooms, Goto, Connect, Panic, Crash, Dies, vars, processVars
    <3> QED BY <3>1, <3>2 DEF FlagsTyped
  <2>2. hotels' \in BOOLEAN
    <3>1. hotels' = TRUE \/ UNCHANGED hotels
      BY CallLeavesProcess DEF Next, Start, StartStep, PingFails, PingAnswered, CreateTable, CountHotels,
         InsertHotels, InsertRooms, Goto, Connect, Panic, Crash, Dies, DatabaseChanges, vars, tableVars
    <3> QED BY <3>1 DEF FlagsTyped
  <2>3. interrupted' \in BOOLEAN
    <3>1. CASE Dies
      BY <3>1, Zenon DEF Dies
    <3>2. interrupted' = TRUE \/ UNCHANGED interrupted \/ Dies
      BY CallLeavesProcess DEF Next, Start, StartStep, PingFails, PingAnswered, CreateTable, CountHotels,
         InsertHotels, InsertRooms, Goto, Connect, Panic, Crash, DatabaseChanges, vars, tableVars
    <3> QED BY <3>1, <3>2 DEF FlagsTyped
  <2> QED BY <2>1, <2>2, <2>3 DEF FlagsTyped
<1> QED BY <1>1, <1>2, PTL DEF Spec

LEMMA SentHolds == Spec => []Sent
<1>1. Init => Sent
  BY DEF Init, NoCall, Sent
<1>2. Typed /\ Sent /\ [Next]_vars => Sent'
  <2> SUFFICES ASSUME Typed, Sent, StockStep PROVE Sent'
    BY NextIsStockStep
  <2> USE DEF Typed, Sent
  <2>1. ASSUME NEW c \in Calls, NEW a \in Arguments, NEW step, NEW code, Asked(c, a, step, code)
        PROVE  Sent'
    <3>1. a.quantity \in Quantities
      BY DEF Quantities
    <3> QED BY <2>1, <3>1 DEF Asked
  <2>2. ASSUME NEW c \in Calls, Answers(c)
        PROVE  Sent'
    BY <2>2 DEF Answers
  <2>3. CASE Abandons
    BY <2>3 DEF Abandons
  <2>4. CASE UNCHANGED call
    BY <2>4
  <2> HIDE DEF Sent
  <2> QED
    BY <2>1, <2>2, <2>3, <2>4 DEF StockStep, TakesEffect, HasNoEffect, Seeds, Shows, Cuts
<1> QED BY <1>1, <1>2, TypedHolds, PTL DEF Spec

LEMMA ShownHolds == Spec => []Shown
<1>1. Init => Shown
  BY DEF Init, NoSearch, Shown
<1>2. Typed /\ Shown /\ [Next]_vars => Shown'
  <2> SUFFICES ASSUME Typed, Shown, StockStep PROVE Shown'
    BY NextIsStockStep
  <2> USE DEF Typed, Shown
  <2>1. ASSUME NEW s \in Searches, Shows(s) \/ Cuts(s)
        PROVE  Shown'
    BY <2>1 DEF Shows, Cuts
  <2>2. ASSUME UNCHANGED found, applied \subseteq applied'
        PROVE  Shown'
    BY <2>2
  <2>3. (UNCHANGED found /\ applied \subseteq applied') \/ \E s \in Searches : Shows(s) \/ Cuts(s)
    BY DEF StockStep, TakesEffect, Apply, HasNoEffect, Answers, Abandons, Seeds
  <2> QED BY <2>1, <2>2, <2>3
<1> QED BY <1>1, <1>2, TypedHolds, PTL DEF Spec

\* The variables keep their types, for any arguments: above all no event is about
\* something nobody asked for, and a process that waits has pings left (main.go:353-365).
THEOREM InventoryTypeCorrect == Spec => []InventoryTypeOK
<1>1. Typed /\ Told /\ ProcessTyped /\ FlagsTyped /\ Sent /\ Shown => InventoryTypeOK
  <2> SUFFICES ASSUME Typed, Told, ProcessTyped, FlagsTyped, Sent, Shown PROVE InventoryTypeOK
    OBVIOUS
  <2>1. {dbUp, hotels, interrupted} \subseteq BOOLEAN
    BY Zenon DEF FlagsTyped
  <2>2. call \in [Calls -> [step : {"none", "publishing", "panicking", "answered", "lost"},
                            action : Actions, type : RoomTypes \cup {UnknownType},
                            quantity : {0} \cup Quantities, code : Codes]]
    BY DEF Typed, Sent
  <2> DEFINE EventType == [call : Calls, event_type : EventTypes,
                           data : [room : RoomTypes \cup {UnknownType}, quantity : Quantities,
                                   operation : {"BLOCK", "RELEASE", "other"}]]
  <2>3. ASSUME NEW c \in Calls, call[c].step \in Published
        PROVE  Event(c) \in EventType
    <3>1. /\ call[c].type \in RoomTypes \cup {UnknownType} /\ call[c].quantity \in Quantities
          /\ call[c].action \in {"BLOQUEAR", "LIBERAR", "other"}
      BY <2>3 DEF Typed, Sent, Actions, Published
    <3>2. stockData(c) \in [room : RoomTypes \cup {UnknownType}, quantity : Quantities,
                            operation : {"BLOCK", "RELEASE", "other"}]
      BY <3>1 DEF stockData
    <3> QED BY <3>2 DEF Event, newEvent, EventTypes
  <2>4. topic \subseteq [event : EventType, copy : 1 .. MaxAttempts]
    BY <2>3 DEF Told, Record
  <2> QED BY <2>1, <2>2, <2>4 DEF Typed, ProcessTyped, Shown, InventoryTypeOK
<1> QED
  BY <1>1, TypedHolds, ToldHolds, ProcessTypedHolds, FlagsTypedHolds, SentHolds, ShownHolds, PTL

=============================================================================
