------------------------- MODULE MCControllerBridge -------------------------
(* Small instances of ControllerBridge for TLC.                            *)
EXTENDS ControllerBridge

\* One port served every cycle and two slower ones.
MCPortStep == [p \in Port |-> CASE p = "joint" -> 0 [] p = "gyro" -> 4
                                [] p = "camera" -> 5]
\* Rates 2/3 and 1.
MCRate == [r \in 1..2 |-> r + 1]

\* A long simulation with no failure, set up several times; and a short one, of
\* a bridge that GrxUI cannot restart, with every failure.
MCSettings ==
    {[ctrlSteps |-> {1, 2, 3, 5, 7}, totalTime |-> 30, maxRuns |-> 3,
      managed |-> TRUE, faults |-> {}],
     [ctrlSteps |-> {1, 3, 7}, totalTime |-> 8, maxRuns |-> 2,
      managed |-> FALSE, faults |-> FaultKinds]}

\* A component that registers late.
MCLate ==
    {[ctrlSteps |-> {3}, totalTime |-> 16, maxRuns |-> 2,
      managed |-> FALSE, faults |-> {"late"}]}

=============================================================================
