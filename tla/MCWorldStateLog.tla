-------------------------- MODULE MCWorldStateLog --------------------------
(* Settings of WorldStateLog for TLC.                                      *)
EXTENDS WorldStateLog

\* On disk and in the heap, with a calm user, a busy one, and a heap that runs
\* low while loading.
MCSettings ==
  [useDisk : BOOLEAN, calm : {TRUE}, low : BOOLEAN]
    \cup [useDisk : BOOLEAN, calm : {FALSE}, low : {FALSE}]

\* Logs in the heap, and nobody in a hurry.
MCInHeap == {[useDisk |-> FALSE, calm |-> TRUE, low |-> FALSE]}
=============================================================================
