------------------------------ MODULE MCLookups ------------------------------
(***************************************************************************)
(* A plain lookup, a change lookup whose tolerance is a literal and one    *)
(* whose tolerance and state name are variables.                           *)
(***************************************************************************)
EXTENDS StateCache

SomeNames ==
  [l \in Lookup |-> CASE l = "plain" -> {"x"}
                      [] l = "fixed" -> {"x"}
                      [] OTHER       -> {"x", "y", Unknown}]
=============================================================================
