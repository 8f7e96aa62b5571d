---------------------------- MODULE MCSimulation ----------------------------
(* Environments of SimulationItem for TLC.                                 *)
EXTENDS SimulationItem

Environment(runs, faults, patient, prompt) ==
    [scriptRuns |-> runs, faults |-> faults, patient |-> patient,
     prompt |-> prompt]

\* The user at the toolbar; the same with threads that dawdle; a script with no
\* failure, with failing setups and steps, and with every failure.
MCEnvironments ==
    {Environment(0, {"setup", "step"}, TRUE, TRUE),
     Environment(0, {"setup", "step"}, TRUE, FALSE),
     Environment(3, {}, TRUE, TRUE),
     Environment(2, {"setup", "step"}, TRUE, TRUE),
     Environment(2, FaultKinds, TRUE, TRUE)}

\* The user clicks before the icon has changed.
MCImpatient == {Environment(0, {}, FALSE, TRUE)}

=============================================================================
