--------------------------- MODULE MCUserAccounts ---------------------------
(***************************************************************************)
(* Two registrations of one email, a login, and then what can overlap on   *)
(* its session (a logout, two validations) and on its user (an update with *)
(* a nombre and one without).                                              *)
(***************************************************************************)
EXTENDS UserAccounts, TLC

CONSTANTS reg1, reg2, login, logout, val1, val2, name, phone

OpOfAll ==
  (reg1 :> "createUser") @@ (reg2 :> "createUser") @@ (login :> "authenticate")
    @@ (logout :> "logout") @@ (val1 :> "validateToken") @@ (val2 :> "validateToken")
    @@ (name :> "updateNombre") @@ (phone :> "updateTelefono")

MCOpOf == [r \in Requests |-> OpOfAll[r]]
MCEmailOf == [r \in Requests |-> "email"]

RequestSymmetry == Permutations({reg1, reg2}) \cup Permutations({val1, val2})
=============================================================================
