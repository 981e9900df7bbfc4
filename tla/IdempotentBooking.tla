-------------------------- MODULE IdempotentBooking --------------------------
(***************************************************************************)
(* What reservation_service promises the callers of CreateReservation,     *)
(* without sagas, inventory or failures: a book of reservations in which   *)
(* an idempotency key is used at most once, and an answer to each request  *)
(* that, when it names a reservation, names one the book holds for that    *)
(* request or for its key.  A request may be refused, or never answered    *)
(* (the process stopped), whether or not the book was changed for it.      *)
(***************************************************************************)
CONSTANTS Attempts,  \* the requests: executions of CreateReservation
          KeyOf,     \* the idempotency key each one carries
          NoKey      \* the empty key

VARIABLES booked,    \* the requests whose reservation is in the book
          answer     \* of each request: {} not answered or refused, or the
                     \*   set of the one reservation it was answered with

SameKey(a, b) == KeyOf[a] # NoKey /\ KeyOf[a] = KeyOf[b]

Init == booked = {} /\ answer = [a \in Attempts |-> {}]

\* The reservation of a is written, if its key is not in the book.
Book(a) ==
  /\ \A r \in booked : ~SameKey(a, r)
  /\ booked' = booked \cup {a}
  /\ UNCHANGED answer

\* a is answered with its own reservation or with the one its key already has.
Answer(a) ==
  /\ answer[a] = {}
  /\ \E r \in booked :
       /\ r = a \/ SameKey(a, r)
       /\ answer' = [answer EXCEPT ![a] = {r}]
  /\ UNCHANGED booked

Next == \E a \in Attempts : Book(a) \/ Answer(a)

Spec == Init /\ [][Next]_<<booked, answer>>

\* What follows from the promise: all the requests that carry a key and are
\* answered with a reservation are answered with the same one.
OneReservationPerKey ==
  \A a, b \in Attempts : SameKey(a, b) /\ answer[a] # {} /\ answer[b] # {} => answer[a] = answer[b]
=============================================================================
