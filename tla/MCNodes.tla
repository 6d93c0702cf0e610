------------------------------- MODULE MCNodes -------------------------------
(***************************************************************************)
(* Nodes of every kind, some of them in a list inside the list: two        *)
(* assignments to one variable, a command that returns its result into it, *)
(* an update, and empty nodes that watch.  Five families of plans, in each *)
(* of which some of the nodes are skipped.                                 *)
(***************************************************************************)
EXTENDS Plans, NodeActivation

Document == <<"root", "p", "e", "x", "y", "c", "u", "w">>

NodesNode   == ToSet(Document)
NodesParent == [Flat(NodesNode) EXCEPT !["e"] = "p", !["x"] = "p"]
NodesType   == [n \in NodesNode |->
                  CASE n \in {"root", "p"} -> "List"
                    [] n \in {"x", "y"}    -> "Assignment"
                    [] n = "c"             -> "Command"
                    [] n = "u"             -> "Update"
                    [] OTHER               -> "Empty"]
NodesPriority == [n \in NodesNode |-> IF n = "x" THEN 1 ELSE 0]
NodesUsing  == [n \in NodesNode |-> IF n \in {"x", "c", "u"} THEN <<"m">> ELSE <<>>]
NodesDest   == [n \in NodesNode |-> IF n \in {"x", "y", "c"} THEN "v" ELSE None]
NodesRhs    == [n \in NodesNode |-> CASE n = "x" -> "T" [] n = "y" -> "F" [] OTHER -> "U"]
NodesOwner  == [v \in Variable |-> "root"]
NodesOrder  == Ordered(Document)

Skipped(n) == Given(n, [skip |-> Is("T")])

\* The plan is stopped, or one of its nodes exits, or neither.
Leaving == {<<Is("F"), Is("F")>>, <<On("k"), Is("F")>>, <<Is("F"), On("k")>>}

\* Two assignments compete for the variable, and one of them with the update for the mutex.
Assigning ==
  {[n \in NodesNode |->
      CASE n = "root" -> Given(n, [exit |-> stop])
        [] n = "p"    -> Given(n, <<>>)
        [] n = "x"    -> Given(n, [start |-> begin, end |-> On("l"), exit |-> leave,
                                  repeat |-> again])
        [] n = "y"    -> Given(n, [end |-> finish, exit |-> On("k"), post |-> Var("v"),
                                  invariant |-> keep])
        [] n = "u"    -> Given(n, [start |-> Var("v")])
        [] OTHER      -> Skipped(n)] :
     <<stop, leave>> \in Leaving, begin \in {Is("T"), Var("v")},
     finish \in {Is("T"), On("l")}, again \in {Is("F"), Var("v"), On("l")},
     keep \in {Is("T"), On("l"), Var("v")}}

\* A list that ends, repeats, exits or fails while its assignment is executed or retracted.
Retracting ==
  {[n \in NodesNode |->
      CASE n = "root" -> Given(n, <<>>)
        [] n = "p"    -> Given(n, [end |-> finish, exit |-> leave, invariant |-> keep,
                                  repeat |-> again])
        [] n = "x"    -> Given(n, [end |-> On("l")])
        [] n = "y"    -> Given(n, [start |-> In("p", {"FAILING", "FINISHED"}), end |-> On("k")])
        [] OTHER      -> Skipped(n)] :
     finish \in {ByDefault, On("k")}, leave \in {Is("F"), On("k")},
     keep \in {Is("T"), On("l"), Var("v")}, again \in {Is("F"), On("k")}}

\* A list that repeats, with an exit of its own beside the one it inherits, its repeating
\* child and a sibling that watches it.
Repeating ==
  {[n \in NodesNode |->
      CASE n = "root" -> Given(n, [exit |-> stop])
        [] n = "p"    -> Given(n, [end |-> finish, repeat |-> again, exit |-> leave])
        [] n = "e"    -> Given(n, [start |-> begin, end |-> On("l"), repeat |-> once])
        [] n = "w"    -> Given(n, [start |-> In("p", {"FINISHED"}), end |-> On("k")])
        [] OTHER      -> Skipped(n)] :
     <<stop, leave>> \in Leaving \cup {<<On("k"), On("l")>>},
     begin \in {Is("T"), On("k")}, again \in {Is("F"), On("k")},
     <<finish, once>> \in ({ByDefault, On("l")} \X {Is("F"), On("k"), Is("T")})
                            \cup {<<On("k"), Is("F")>>}}

\* A command and an update that use one mutex, and a watcher of their states.  The interface
\* answers when it will, to the current execution of a node or to an earlier one.  A plan
\* that is stopped while a command repeats meets the orphans below.
Commanding ==
  {[n \in NodesNode |->
      CASE n = "root" -> Given(n, [exit |-> stop])
        [] n = "c"    -> Given(n, [end |-> finish, exit |-> leave, repeat |-> again])
        [] n = "u"    -> Given(n, [end |-> finish, invariant |-> On("l"), exit |-> leave])
        [] n = "w"    -> Given(n, [start |-> In("c", {"FAILING", "ITERATION_ENDED"}),
                                  skip |-> Var("v")])
        [] OTHER      -> Skipped(n)] :
     <<stop, again>> \in {<<Is("F"), Var("v")>>, <<On("k"), Is("F")>>},
     <<finish, leave>> \in {<<Is("T"), Is("F")>>, <<On("l"), Is("F")>>, <<On("l"), On("k")>>,
                            <<Is("F"), On("k")>>}}

\* An assignment and a command whose result goes into the same variable, kept apart by the
\* mutex: the result must not come while the assignment waits to be retracted.
Sharing ==
  {[n \in NodesNode |->
      CASE n = "root" -> Given(n, <<>>)
        [] n = "p"    -> Given(n, [exit |-> On("k")])
        [] n = "x"    -> Given(n, [end |-> On("l")])
        [] n = "c"    -> Given(n, [end |-> finish, repeat |-> Var("v")])
        [] OTHER      -> Skipped(n)] :
     finish \in {Is("T"), On("l")}}

NodesConditions == Assigning \cup Retracting \cup Repeating \cup Commanding \cup Sharing

\* The child can end, and start again, while the list is finishing and its end
\* condition is no longer true.
OrphanConditions ==
  {[n \in NodesNode |->
      CASE n = "root" -> Given(n, <<>>)
        [] n = "p"    -> Given(n, [end |-> On("l")])
        [] n = "e"    -> Given(n, [end |-> finish, repeat |-> Is("T")])
        [] OTHER      -> Skipped(n)] :
     finish \in {Is("T"), On("l"), On("k")}}
=============================================================================
