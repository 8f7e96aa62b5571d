--------------------------- MODULE MCModelLoader ---------------------------
(* Environments of ModelLoader for TLC.                                    *)
EXTENDS ModelLoader, TLC

Interchangeable == Permutations(Client)

\* Files written now and then and no two conversions of an object at once; and
\* neither of both.
MCEnvironments == {[calm |-> TRUE, apart |-> TRUE], [calm |-> FALSE, apart |-> FALSE]}

\* Bound: where files are written at any time, the clock ends a second earlier.
Seconds == env.calm \/ now < MaxTime

=============================================================================
