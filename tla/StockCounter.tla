---------------------------- MODULE StockCounter ----------------------------
(***************************************************************************)
(* What inventario_service promises the callers of UpdateStock, without    *)
(* processes, databases or events: a counter of rooms per type, changed by *)
(* each call at most once and all at once, however often the service dies; *)
(* BLOQUEAR only takes rooms that are there.  OK is answered to a call     *)
(* that took effect and a refusal to one that never will.  An error says   *)
(* nothing, and a call may never be answered.                              *)
(***************************************************************************)
EXTENDS Integers

CONSTANTS
  RoomTypes,
  Seed,        \* stock_total of each type before any call
  Calls,       \* calls of UpdateStock
  Quantities   \* the values of cantidad

VARIABLES
  stock,       \* stock_total of each type
  applied,     \* the calls that took effect
  answer       \* of each call: none, OK, refused or error

Init ==
  /\ stock = Seed
  /\ applied = {}
  /\ answer = [c \in Calls |-> "none"]

Change(c, t, n) ==
  /\ c \notin applied /\ answer[c] = "none"
  /\ stock' = [stock EXCEPT ![t] = @ + n]
  /\ applied' = applied \cup {c}

Block(c, t, q) == stock[t] >= q /\ Change(c, t, -q)

Release(c, t, q) == Change(c, t, q)

\* A call's effect and its error may become known at once.
Say(c, code) ==
  /\ answer[c] = "none"
  /\ answer' = [answer EXCEPT ![c] = code]

Effect(c) ==
  /\ \E t \in RoomTypes, q \in Quantities : Block(c, t, q) \/ Release(c, t, q)
  /\ UNCHANGED answer \/ Say(c, "OK") \/ Say(c, "error")

Answer(c) ==
  /\ \E code \in {"OK", "refused", "error"} :
       /\ code = "OK" => c \in applied
       /\ code = "refused" => c \notin applied
       /\ Say(c, code)
  /\ UNCHANGED <<stock, applied>>

Next == \E c \in Calls : Effect(c) \/ Answer(c)

Spec == Init /\ [][Next]_<<stock, applied, answer>>

-----------------------------------------------------------------------------
\* What follows from the promise when every quantity is positive: no type ever
\* has fewer rooms than none.
NeverOversold == \A t \in RoomTypes : stock[t] >= 0
=============================================================================
