------------------------------ MODULE MCArbiter ------------------------------
(***************************************************************************)
(* Three commands: an arm and a camera that share power, one of them by    *)
(* the hierarchy, and a rover that burns fuel or takes it in.              *)
(***************************************************************************)
EXTENDS ResourceArbiter

Ask(r, w, keep, p) == [name |-> r, weight |-> w, release |-> ~keep, priority |-> p]

RoverResources == {"arm", "camera", "power", "fuel"}
RoverCapacity  == [r \in RoverResources |-> CASE r = "power" -> 3 [] r = "fuel" -> 2 [] OTHER -> 1]
\* The arm's motor uses power.
RoverHierarchy == [r \in RoverResources |->
                     IF r = "arm" THEN <<[name |-> "power", weight |-> 2]>> ELSE <<>>]

RoverCommands == {"move", "look", "drive"}
RoverRequests ==
  [c \in RoverCommands |->
     CASE c = "move"  -> {<<Ask("arm", 1, FALSE, 2)>>,
                          <<Ask("power", 1, FALSE, 1), Ask("arm", 1, FALSE, 2)>>}
       [] c = "look"  -> {<<Ask("camera", 1, FALSE, 2), Ask("power", 2, FALSE, 0)>>,
                          <<Ask("camera", 1, FALSE, 1), Ask("arm", 1, FALSE, 1)>>, <<>>}
       [] OTHER       -> {<<Ask("fuel", 1, TRUE, 1), Ask("power", 1, FALSE, 3)>>,
                          <<Ask("fuel", -1, TRUE, 2)>>, <<Ask("power", 1, FALSE, 3)>>}]
=============================================================================
