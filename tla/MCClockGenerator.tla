-------------------------- MODULE MCClockGenerator --------------------------
(* Model-checking instance of ClockGenerator: every context asks for a     *)
(* period of 3, which is not a multiple of the step of 2. The contexts     *)
(* then differ in nothing but their identity.                              *)
EXTENDS ClockGenerator, TLC

MCPeriod == [c \in EC |-> 3]

Interchangeable == Permutations(EC)

=============================================================================
