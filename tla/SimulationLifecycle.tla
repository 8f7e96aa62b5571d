------------------------ MODULE SimulationLifecycle ------------------------
(***************************************************************************)
(* What GrxSimulationItem promises to its observers (the toolbar action,   *)
(* the views, the controllers), with no threads, locks or timers in it: a  *)
(* simulation is on from "StartSimulation" until its thread is gone, and   *)
(* only then is it reported with "StopSimulation" and are the controllers  *)
(* deactivated. A simulation that was started is eventually reported.      *)
(***************************************************************************)

VARIABLES phase, controllers

lifecycleVars == <<phase, controllers>>

Init == phase = "off" /\ controllers = "stopped"

\* A start that fails may leave controllers active that it had set up.
SetupFails ==
    /\ phase = "off"
    /\ controllers' = "active"
    /\ UNCHANGED phase

Start ==
    /\ phase = "off"
    /\ phase' = "on" /\ controllers' = "active"

\* The simulation thread has made its last step.
Finish ==
    /\ phase = "on"
    /\ phase' = "over"
    /\ UNCHANGED controllers

Report ==
    /\ phase = "over"
    /\ phase' = "off" /\ controllers' = "stopped"

Next == SetupFails \/ Start \/ Finish \/ Report

Spec ==
    /\ Init /\ [][Next]_lifecycleVars
    /\ WF_lifecycleVars(Finish) /\ WF_lifecycleVars(Report)

=============================================================================
