--------------------------- MODULE MCPathPlanner ---------------------------
(* A robot that turns on the spot: the configurations are a ring of 7      *)
(* headings, ten units of distance apart, one of them in collision.  The   *)
(* omni wheel turns either way; the other mobility turns one way only.     *)
EXTENDS PathPlanner

Turn(a, b) == (b - a) % 7

MCDistance(m, a, b) ==
    10 * IF m = "OmniWheel" /\ Turn(a, b) > 3 THEN 7 - Turn(a, b) ELSE Turn(a, b)

MCInterpolate(m, a, b, i, k) ==
    LET hops == ((MCDistance(m, a, b) \div 10) * i) \div k
    IN  (IF m = "OmniWheel" /\ Turn(a, b) > 3 THEN a - hops ELSE a + hops) % 7

MCReversible(m) == m = "OmniWheel"

\* Around the obstacle both ways, directly, and with an end in collision.
MCRequest == {<<1, 6>>, <<6, 2>>, <<3, 5>>, <<0, 3>>, <<3, 0>>}

\* What the theorem about the paths supposes holds here.
ASSUME MCMotion == Divisible /\ TreesRebuilt

=============================================================================
