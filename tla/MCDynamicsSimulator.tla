----------------------- MODULE MCDynamicsSimulator -----------------------
(* A robot with an arm, and a floor.                                       *)
EXTENDS DynamicsSimulator

MCOwner(l) == IF l = "floor" THEN "ground" ELSE "robot"

\* What a user lists as collision pairs: no pair both ways round.
MCPairItem == {<<"base", "floor">>, <<"arm", "floor">>, <<"base", "arm">>}

=============================================================================
