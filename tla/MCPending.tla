------------------------------ MODULE MCPending ------------------------------
(***************************************************************************)
(* A node d holds the mutex that a and b, of lower priority, wait for; a   *)
(* may start only while d executes, and is skipped when e, which ends with *)
(* d, has ended.                                                           *)
(***************************************************************************)
EXTENDS Plans

PendingDocument == <<"root", "d", "e", "a", "b">>
PendingNode     == ToSet(PendingDocument)
PendingParent   == Flat(PendingNode)
PendingType     == [n \in PendingNode |-> IF n = "root" THEN "List" ELSE "Empty"]
PendingPriority == [n \in PendingNode |-> IF n \in {"a", "b"} THEN 1 ELSE 0]
PendingUsing    == [n \in PendingNode |-> IF n \in {"a", "b", "d"} THEN <<"m">> ELSE <<>>]
PendingOrder    == Ordered(PendingDocument)

Started == Running \cup {"ITERATION_ENDED", "FINISHED"}

PendingConditions ==
  {[n \in PendingNode |->
      CASE n = "root" -> Given(n, <<>>)
        [] n = "d"    -> Given(n, [end |-> On("l"), repeat |-> On("k")])
        [] n = "e"    -> Given(n, [end |-> On("l"), repeat |-> On("k")])
        [] n = "a"    -> Given(n, [start |-> In("d", {"EXECUTING"}), skip |-> skipped])
        [] OTHER      -> Given(n, [start |-> In("d", Started)])] :
     skipped \in {Is("F"), In("e", {"ITERATION_ENDED"})}}
=============================================================================
