------------------------------- MODULE MCClock -------------------------------
(***************************************************************************)
(* A lookup that wants every second and one that wants every other.        *)
(***************************************************************************)
EXTENDS TimeWakeups

Coarseness == [l \in Lookup |-> IF l = "fine" THEN 1 ELSE 2]
=============================================================================
