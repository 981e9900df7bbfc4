----------------------------- MODULE MCInventory -----------------------------
(***************************************************************************)
(* One type with one room and an unknown one; quantities that fit, that do *)
(* not, and that nobody should send.                                       *)
(***************************************************************************)
EXTENDS InventoryLayers, TLC

CONSTANTS rt1, c1, c2

MCSeed == (rt1 :> 1)

Known(action, n) == [action |-> action, type |-> rt1, quantity |-> n]
Unknown(action) == [action |-> action, type |-> UnknownType, quantity |-> 1]

MCArguments ==
  {Known("BLOQUEAR", n) : n \in {-1, 0, 1}} \cup {Known("LIBERAR", n) : n \in {-1, 1}}
    \cup {Unknown("LIBERAR"), Known("other", 1)}

CallSymmetry == Permutations({c1, c2})
=============================================================================
