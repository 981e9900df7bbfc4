-------------------------- MODULE MCGatewayRetries --------------------------
(***************************************************************************)
(* One request, whose tries all carry one key.                             *)
(***************************************************************************)
EXTENDS GatewayRetries, TLC

MCAttempts == HttpRequests \X (1 .. MaxTries)
MCKeyOf == [a \in MCAttempts |-> "key"]
=============================================================================
