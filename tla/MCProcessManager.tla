-------------------------- MODULE MCProcessManager --------------------------
(* Settings of ProcessManager for TLC.                                     *)
EXTENDS ProcessManager

\* One server that is shut down remotely and one that is not, with time between
\* the events, with and without failures; and each of them without that time.
MCSettings ==
    [servers : {2}, hasShutdown : {{2}}, autoStart : {{1, 2}}, prompt : {TRUE},
     faults : {{}, FaultKinds}, maxStarts : {2}]
    \cup
    [servers : {1}, hasShutdown : {{}, {1}}, autoStart : {{}, {1}},
     prompt : BOOLEAN, faults : {FaultKinds}, maxStarts : {3}]

=============================================================================
