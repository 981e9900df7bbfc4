--------------------------- MODULE MCNotification ---------------------------
(***************************************************************************)
(* Two reservations and two events: a confirmation and its copy, or those  *)
(* of both reservations; and one disruption, after which the broker        *)
(* delivers what was not committed again.  The producer retries once, so   *)
(* an event is on its topic once or twice.                                 *)
(***************************************************************************)
EXTENDS Notification
=============================================================================
