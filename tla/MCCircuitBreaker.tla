-------------------------- MODULE MCCircuitBreaker --------------------------
(***************************************************************************)
(* Four callers, a threshold of three failures and a deadline of two ticks *)
(* against four open: the order of the deployed ones (5 failures, 5 s,     *)
(* 15 s) at a size where stale results, trials, late closings and          *)
(* reopenings all happen.  No symmetry: the run checks liveness too.       *)
(***************************************************************************)
EXTENDS CircuitBreaker
=============================================================================
