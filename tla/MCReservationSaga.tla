-------------------------- MODULE MCReservationSaga --------------------------
(***************************************************************************)
(* Three executions of CreateReservation: the first two carry the same     *)
(* idempotency key, as a request and its retry do, the third carries none. *)
(***************************************************************************)
EXTENDS ReservationSaga, TLC

CONSTANTS a1, a2, a3

MCKeyOf == [a \in Attempts |-> IF a = a3 THEN "" ELSE "key"]

RetrySymmetry == Permutations({a1, a2})
=============================================================================
