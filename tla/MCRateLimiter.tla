---------------------------- MODULE MCRateLimiter ----------------------------
(***************************************************************************)
(* A login key reached by two clients, the same email and IP with and      *)
(* without a session token: so that the window can be full while a bucket  *)
(* is not, and the other way round.  Tokens of two ticks and seconds of    *)
(* two ticks make fractions of both.                                       *)
(***************************************************************************)
EXTENDS RateLimiter, TLC

ClientSymmetry == Permutations(Clients)
=============================================================================
