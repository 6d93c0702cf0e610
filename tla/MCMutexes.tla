------------------------------ MODULE MCMutexes ------------------------------
(***************************************************************************)
(* Three siblings compete for two mutexes that two of them list in         *)
(* opposite orders; lookups start, stop, repeat and skip them.             *)
(***************************************************************************)
EXTENDS Plans

MutexDocument == <<"root", "a", "b", "c">>
MutexNode     == ToSet(MutexDocument)
MutexParent   == Flat(MutexNode)
MutexType     == [n \in MutexNode |-> IF n = "root" THEN "List" ELSE "Empty"]
MutexPriority == [n \in MutexNode |-> IF n = "c" THEN 1 ELSE 0]
MutexUsing    == [n \in MutexNode |->
                    CASE n = "root" -> <<>>
                      [] n = "a"    -> <<"m1", "m2">>
                      [] n = "b"    -> <<"m2", "m1">>
                      [] OTHER      -> <<"m1">>]
MutexOrder    == Ordered(MutexDocument)

AfterA == In("a", {"ITERATION_ENDED", "FINISHED"})
Sometime == {Is("T"), On("l"), On("k")}
Perhaps  == {Is("F"), On("l"), On("k")}

\* Start conditions may change again while the node is pending, and the plan may
\* be stopped from outside.
MutexConditions ==
  {[n \in MutexNode |->
      CASE n = "root" -> Given(n, [exit |-> stop])
        [] n = "a"    -> Given(n, [start |-> begin, end |-> On("l"), repeat |-> again])
        [] n = "b"    -> Given(n, [start |-> AfterA, end |-> finish])
        [] OTHER      -> Given(n, [skip |-> On("l"), end |-> finish])] :
     stop \in {Is("F"), On("k")}, begin \in Sometime, finish \in Sometime, again \in Perhaps}

\* Nothing stops the plan, and a node that may start stays so until it has its mutexes, or
\* its exit condition says it is done: these plans are patient.
PatientConditions ==
  {[n \in MutexNode |->
      CASE n = "root" -> Given(n, <<>>)
        [] n = "a"    -> Given(n, [end |-> On("l"), repeat |-> again, exit |-> leave])
        [] n = "b"    -> Given(n, [start |-> begin, end |-> finish, invariant |-> keep])
        [] OTHER      -> Given(n, [end |-> finish, exit |-> leave])] :
     begin \in {Is("T"), In("a", {"FINISHED"})}, finish \in Sometime, again \in Perhaps,
     leave \in Perhaps, keep \in Sometime}

AllConditions == MutexConditions \cup PatientConditions
=============================================================================
