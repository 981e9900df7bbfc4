------------------------ MODULE MCReservationService ------------------------
(***************************************************************************)
(* A request and its retry, with one key, and two rooms.                   *)
(***************************************************************************)
EXTENDS ReservationService, Contracts, TLC

MCKeyOf == [a \in Attempts |-> "key"]
=============================================================================
