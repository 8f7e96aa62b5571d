----------------------- MODULE ControllerBridgeProofs -----------------------
(* Proofs that ControllerBridge's invariants hold for every simulation     *)
(* step, every set of out ports and their steps, every number of RT        *)
(* components and their rates, and any number and length of simulations.   *)
EXTENDS ControllerBridge, TLAPS

-----------------------------------------------------------------------------
(* The inductive invariant.                                                *)

\* A component that was detected has been in the naming service.
DetectedWasUp == \A r \in known : rtc[r] # "absent"

\* A control step below the simulation step never gets beyond the setup.
StepAccepted == pc # "off" => step \in Nat \ {0} /\ step >= SimStep

\* timeRateCounter is what the calls have added to it less what the ticks have
\* taken away.
CounterExact ==
    \A r \in known : rtc[r] = "up" =>
        counter[r] = 2 * Den - 2 * Rate[r] + 2 * (Rate[r] * reached[r])
                        - 2 * (Den * ticks[r])

\* ControlOnSchedule, in the middle of a simulation step too.
CyclesOnSchedule ==
    Running =>
        /\ doCount * step >= simTime - SimStep
        /\ doCount > 0 => (doCount - 1) * step + SimStep <= simTime

\* Without faults all components are there from the beginning.
AllUp == env.faults = {} => pc # "retry" /\ \A r \in Rtc : rtc[r] = "up"

\* A control cycle of GrxUI has begun and the bridge has not run it.
CyclePending == pc = "control" /\ doFlag

\* controlTime counts the control cycles that the bridge has run.
TimeCounted ==
    Running /\ env.faults = {} =>
        /\ CyclePending => doCount > 0
        /\ controlTime = (IF CyclePending THEN doCount - 1 ELSE doCount) * step

\* n inputs of a port with step s are right for the time t of the bridge and the
\* control step c: n is the number of multiples of s before t - c/2.
Right(n, s, t, c) ==
    /\ 2 * (n * s) > 2 * t - c
    /\ 2 * (n * s) <= 2 * t - c + 2 * s

\* PortOnSchedule, in the middle of a simulation step too.
PortsServed ==
    Running /\ step % 2 = 1 /\ env.faults = {} =>
        \A p \in Port : PortStep[p] >= step =>
            Right(inputs[p], PortStep[p],
                  IF CyclePending THEN controlTime + step ELSE controlTime, step)

\* With no failure a bridge that is owned has detected all components.
AllKnown ==
    env.faults = {} /\ env.managed =>
        /\ owned \/ pc = "start" \/ Running => known = Rtc
        /\ active = IF Running THEN Rtc ELSE {}

\* The inductive invariant.
BridgeInv ==
    /\ env \in Settings
    /\ TypeOK
    /\ DetectedWasUp
    /\ StepAccepted
    /\ CounterExact
    /\ CyclesOnSchedule
    /\ AllUp
    /\ TimeCounted
    /\ PortsServed
    /\ AllKnown

-----------------------------------------------------------------------------
(* Types and the constants of a setting.                                   *)

\* What BridgeAssumption says about the setting of a behaviour.
LEMMA SettingFacts ==
    ASSUME env \in Settings
    PROVE  /\ env.ctrlSteps \subseteq Nat \ {0} /\ env.totalTime \in Nat
           /\ env.maxRuns \in Nat /\ env.managed \in BOOLEAN
           /\ env.faults \subseteq FaultKinds
  BY BridgeAssumption

\* A component's rate is a positive whole number of at most Den.
LEMMA RateFacts ==
    ASSUME NEW r \in Rtc
    PROVE  /\ Rate[r] \in Nat /\ Rate[r] >= 1 /\ Rate[r] <= Den
           /\ Den \in Nat
  BY BridgeAssumption

\* The part of TypeOK with no bound on the counters.
Types ==
    /\ pc \in Pcs /\ runs \in 0..env.maxRuns /\ simTime \in Nat
    /\ step \in env.ctrlSteps \cup {0} /\ doCount \in Nat /\ doFlag \in BOOLEAN
    /\ rtc \in [Rtc -> {"absent", "up", "dead"}]
    /\ owned \in BOOLEAN /\ connected \in BOOLEAN
    /\ known \subseteq Rtc /\ active \subseteq Rtc
    /\ controlTime \in Nat
    /\ counter \in [Rtc -> Int]
    /\ inputs \in [Port -> Nat]
    /\ reached \in [Rtc -> Nat] /\ ticks \in [Rtc -> Nat]

\* The bound: the counter of a living component stays within one period.
CounterBounded ==
    \A r \in known : rtc[r] = "up" =>
        counter[r] \in -Rate[r] .. (2 * Den - Rate[r])

\* TypeOK in two parts.
LEMMA TypeParts == TypeOK <=> Types /\ CounterBounded
  BY DEF TypeOK, Types, CounterBounded

\* The counters after Detected(S) have their types.
LEMMA DetectedTypes ==
    ASSUME Types, NEW S \in SUBSET Rtc, Detected(S)
    PROVE  /\ counter' \in [Rtc -> Int] /\ reached' \in [Rtc -> Nat]
           /\ ticks' \in [Rtc -> Nat]
<1>1. \A r \in Rtc : 2 * Den - 2 * Rate[r] \in Int
  BY RateFacts
<1> QED BY <1>1 DEF Types, Detected

\* Setting the bridge up keeps the types.
LEMMA TypesSetup ==
    ASSUME env \in Settings, Types, SetupNext, UNCHANGED env
    PROVE  Types'
<1> USE SettingFacts DEF Types, Pcs
<1>1. ASSUME NEW p \in env.ctrlSteps, Setup(p) PROVE Types'
  <2>1. runs' \in 0..env'.maxRuns
    BY <1>1 DEF Setup
  <2>2. /\ pc' \in Pcs /\ step' \in env'.ctrlSteps \cup {0}
        /\ owned' \in BOOLEAN /\ connected' \in BOOLEAN /\ known' \subseteq Rtc
    BY <1>1 DEF Setup, NewBridge, setup
  <2> QED BY <1>1, <2>1, <2>2 DEF Setup, loop, rates
<1>2. ASSUME NEW S \in SUBSET Rtc, Failed(S) PROVE Types'
  BY <1>2, DetectedTypes DEF Failed, NewBridge, grx, loop
<1>3. CASE InitializeOwned
  BY <1>3 DEF InitializeOwned, grx, loop, setup, rates
<1>4. CASE InitializeRefused
  BY <1>4, <1>2 DEF InitializeRefused
<1>5. CASE InitializeBroken
  BY <1>5, <1>2 DEF InitializeBroken, Before, Up, With
<1>6. CASE InitializeNotFound
  <2>1. Up \in SUBSET Rtc
    BY DEF Up, With
  <2> QED BY <1>6, <2>1, DetectedTypes DEF InitializeNotFound, grx, loop
<1>7. CASE InitializeOk
  BY <1>7, DetectedTypes DEF InitializeOk, grx, loop
<1>8. CASE Retry
  BY <1>8 DEF Retry, grx, loop, setup, rates
<1>9. CASE Start
  BY <1>9 DEF Start, StartTime, Before, grx, setup, rates
<1> QED BY <1>1, <1>3, <1>4, <1>5, <1>6, <1>7, <1>8, <1>9 DEF SetupNext

\* So does a step of the simulation.
LEMMA TypesStep ==
    ASSUME env \in Settings, Types, StepNext, UNCHANGED env
    PROVE  Types'
<1> USE SettingFacts DEF Types, Pcs
<1>1. ASSUME Advance, doFlag' \in BOOLEAN, doCount' \in Nat,
             inputs' \in [Port -> Nat]
      PROVE  Types'
  BY <1>1, BridgeAssumption DEF Advance, grx, setup, rates
<1>2. CASE InputEarly
  BY <1>1, <1>2 DEF InputEarly
<1>3. ASSUME NEW I \in SUBSET Port, Input(I) \/ InputRaises(I) PROVE Types'
  <2>1. Advance /\ doFlag' = TRUE
    BY <1>3, Zenon DEF Input, InputRaises
  <2>2. doCount' \in Nat
    BY <1>3 DEF Input, InputRaises
  <2>3. inputs' \in [Port -> Nat]
    BY <1>3 DEF Input, InputRaises
  <2> HIDE DEF Types
  <2> QED BY <1>1, <2>1, <2>2, <2>3
<1>4. CASE NoControl
  BY <1>4 DEF NoControl, grx, loop, setup, rates
<1>5. CASE Finish
  BY <1>5 DEF Finish, Deactivated, grx, loop, setup, rates
<1>6. ASSUME NEW T \in SUBSET known, Control(T) PROVE Types'
  <2>1. \A r \in Rtc : AfterTick(r) \in Int /\ counter[r] + 2 * Rate[r] \in Int
    BY RateFacts DEF AfterTick
  <2>2. counter' \in [Rtc -> Int]
    BY <1>6, <2>1 DEF Control
  <2>3. reached' \in [Rtc -> Nat] /\ ticks' \in [Rtc -> Nat]
    BY <1>6 DEF Control
  <2>4. controlTime' \in Nat
    BY <1>6 DEF Control
  <2> QED BY <1>6, <2>2, <2>3, <2>4 DEF Control, grx, loop, setup
<1> QED BY <1>2, <1>3, <1>4, <1>5, <1>6 DEF StepNext

\* Every step keeps the types and the setting.
LEMMA TypesNext ==
    ASSUME env \in Settings, Types, [Next]_vars
    PROVE  Types' /\ env' \in Settings
<1>1. CASE UNCHANGED vars
  BY <1>1 DEF vars, Types, Pcs
<1>2. ASSUME NEW r \in Rtc, Register(r) \/ Die(r), UNCHANGED env PROVE Types'
  BY <1>2 DEF Register, Die, Types, grx, loop, setup, rates
<1> QED BY <1>1, <1>2, TypesSetup, TypesStep DEF Next

-----------------------------------------------------------------------------
(* Setting up.                                                             *)

\* A failed initialize() leaves no component in rtcInfoVector that has not been
\* detected, and ends the setup.
LEMMA FailedKnows ==
    ASSUME NEW S, Failed(S)
    PROVE  known' \subseteq S /\ pc' = "off" /\ UNCHANGED <<rtc, step, active>>
  BY DEF Failed, NewBridge, grx

\* What one step does to rtcInfoVector: it is kept, emptied, or filled with
\* components that are up.
LEMMA KnownSteps ==
    ASSUME Types, [Next]_vars
    PROVE  \/ known' \subseteq known /\ UNCHANGED rtc
           \/ known' \subseteq Up /\ UNCHANGED rtc
           \/ UNCHANGED known /\ \E r \in Rtc : Register(r) \/ Die(r)
<1>1. CASE UNCHANGED vars
  BY <1>1 DEF vars
<1>2. CASE SetupNext
  <2>1. ASSUME NEW p, Setup(p) PROVE known' \subseteq known /\ UNCHANGED rtc
    BY <2>1 DEF Setup, NewBridge, setup
  <2>2. CASE InitializeOwned \/ Retry \/ Start
    BY <2>2 DEF InitializeOwned, Retry, Start, setup
  <2>3. CASE InitializeRefused
    BY <2>3, FailedKnows DEF InitializeRefused
  <2>4. CASE InitializeBroken
    <3>1. PICK S \in {Before(Up, Dead), Up} : Failed(S)
      BY <2>4 DEF InitializeBroken
    <3>2. S \subseteq Up
      BY <3>1 DEF Before
    <3> QED BY <3>1, <3>2, FailedKnows
  <2>5. CASE InitializeNotFound
    BY <2>5 DEF InitializeNotFound
  <2>6. CASE InitializeOk
    BY <2>6 DEF InitializeOk
  <2> QED BY <1>2, <2>1, <2>2, <2>3, <2>4, <2>5, <2>6 DEF SetupNext
<1>3. CASE StepNext
  BY <1>3 DEF StepNext, InputEarly, Input, InputRaises, Advance, NoControl,
              Control, Finish, setup
<1>4. ASSUME NEW r \in Rtc, Register(r) \/ Die(r) PROVE UNCHANGED known
  BY <1>4 DEF Register, Die, setup
<1> QED BY <1>1, <1>2, <1>3, <1>4 DEF Next

\* Components are detected when they are up, and never go back to absent.
LEMMA DetectedWasUpStep ==
    ASSUME Types, DetectedWasUp, [Next]_vars
    PROVE  DetectedWasUp'
<1>1. CASE known' \subseteq known /\ UNCHANGED rtc
  BY <1>1 DEF DetectedWasUp
<1>2. CASE known' \subseteq Up /\ UNCHANGED rtc
  BY <1>2 DEF DetectedWasUp, Up, With
<1>3. ASSUME UNCHANGED known, NEW r \in Rtc, Register(r) \/ Die(r)
      PROVE  DetectedWasUp'
  BY <1>3 DEF DetectedWasUp, Register, Die, Types
<1> QED BY <1>1, <1>2, <1>3, KnownSteps

\* Only Setup changes the control step, and it refuses one that is too small.
LEMMA StepAcceptedStep ==
    ASSUME env \in Settings, Types, StepAccepted, [Next]_vars
    PROVE  StepAccepted'
<1>1. CASE UNCHANGED vars
  BY <1>1 DEF vars, StepAccepted
<1>2. ASSUME NEW p \in env.ctrlSteps, Setup(p) PROVE StepAccepted'
  <2>1. p \in Nat \ {0}
    BY SettingFacts
  <2>2. CASE pc' = "off"
    BY <2>2 DEF StepAccepted
  <2>3. CASE pc' # "off"
    BY <1>2, <2>1, <2>3, BridgeAssumption DEF Setup, TooFast, StepAccepted
  <2> QED BY <2>2, <2>3
<1>3. CASE pc' = "off"
  BY <1>3 DEF StepAccepted
<1>4. CASE UNCHANGED step /\ pc # "off"
  BY <1>4 DEF StepAccepted
<1>5. CASE SetupNext
  <2>1. CASE \E p \in env.ctrlSteps : Setup(p)
    BY <2>1, <1>2
  <2>2. CASE InitializeRefused \/ InitializeBroken
    BY <2>2, <1>3, FailedKnows DEF InitializeRefused, InitializeBroken
  <2>3. CASE InitializeOwned \/ InitializeNotFound \/ InitializeOk \/ Retry \/ Start
    BY <2>3, <1>4 DEF InitializeOwned, InitializeNotFound, InitializeOk, Retry,
                      Start, grx
  <2> QED BY <1>5, <2>1, <2>2, <2>3 DEF SetupNext
<1>6. CASE StepNext
  BY <1>6, <1>4 DEF StepNext, InputEarly, Input, InputRaises, Advance, NoControl,
                    Control, Finish, grx
<1>7. ASSUME NEW r \in Rtc, Register(r) \/ Die(r) PROVE StepAccepted'
  BY <1>7 DEF Register, Die, grx, StepAccepted
<1> QED BY <1>1, <1>5, <1>6, <1>7 DEF Next

\* Where nothing may fail no component ends, and none is missed.
LEMMA AllUpStep ==
    ASSUME Types, AllUp, [Next]_vars
    PROVE  AllUp'
<1> SUFFICES ASSUME env.faults = {}, UNCHANGED env
             PROVE  pc' # "retry" /\ \A r \in Rtc : rtc'[r] = "up"
  BY DEF AllUp, Next, vars
<1>1. pc # "retry" /\ \A r \in Rtc : rtc[r] = "up"
  BY DEF AllUp
<1>2. With("absent") = {} /\ Dead = {}
  BY <1>1 DEF With, Dead
<1>3. UNCHANGED rtc
  BY <1>1, KnownSteps DEF Register, Die
<1>4. ~InitializeNotFound
  BY <1>2 DEF InitializeNotFound
<1>5. pc' # "retry"
  <2>1. CASE UNCHANGED vars
    BY <2>1, <1>1 DEF vars
  <2>2. CASE SetupNext
    <3>1. CASE InitializeRefused \/ InitializeBroken
      BY <3>1, FailedKnows DEF InitializeRefused, InitializeBroken
    <3>2. CASE \E p \in env.ctrlSteps : Setup(p)
      BY <3>2, <1>1 DEF Setup
    <3>3. CASE InitializeOwned \/ InitializeOk \/ Retry \/ Start
      BY <3>3 DEF InitializeOwned, InitializeOk, Retry, Start
    <3> QED BY <2>2, <1>4, <3>1, <3>2, <3>3 DEF SetupNext
  <2>3. CASE StepNext
    BY <2>3 DEF StepNext, InputEarly, Input, InputRaises, Advance, NoControl,
                Control, Finish
  <2>4. ASSUME NEW r \in Rtc, Register(r) \/ Die(r) PROVE pc' = pc
    BY <2>4 DEF Register, Die
  <2> QED BY <1>1, <2>1, <2>2, <2>3, <2>4 DEF Next
<1> QED BY <1>1, <1>3, <1>5

\* With no failure and a bridge that GrxUI restarts after a refusal, the bridge
\* that is started knows all components, and start() and stop() reach them all.
LEMMA AllKnownStep ==
    ASSUME env \in Settings, Types, AllUp, AllKnown, [Next]_vars
    PROVE  AllKnown'
<1> SUFFICES ASSUME env.faults = {}, env.managed, UNCHANGED env
             PROVE  /\ owned' \/ pc' = "start" \/ Running' => known' = Rtc
                    /\ active' = IF Running' THEN Rtc ELSE {}
  BY DEF AllKnown, Next, vars
<1>1. /\ owned \/ pc = "start" \/ Running => known = Rtc
      /\ active = IF Running THEN Rtc ELSE {}
  BY DEF AllKnown
<1>2. With("absent") = {} /\ Dead = {}
  BY DEF AllUp, With, Dead
<1>3. ~InitializeNotFound /\ ~InitializeBroken
  BY <1>2 DEF InitializeNotFound, InitializeBroken
<1>4. CASE UNCHANGED vars
  BY <1>1, <1>4 DEF vars, Running
<1>5. ASSUME NEW p, Setup(p)
      PROVE  /\ owned' \/ pc' = "start" \/ Running' => known' = Rtc
             /\ active' = IF Running' THEN Rtc ELSE {}
  <2>1. ~Running /\ ~Running' /\ pc' # "start" /\ active' = active
    BY <1>5 DEF Setup, Running
  <2>2. owned' => owned /\ known' = known
    BY <1>5 DEF Setup, NewBridge, setup
  <2> QED BY <1>1, <2>1, <2>2
<1>6. CASE InitializeOwned \/ Retry
  BY <1>1, <1>6 DEF InitializeOwned, Retry, setup, Running
<1>7. CASE InitializeRefused
  <2>1. ~owned' /\ pc' = "off" /\ active' = active /\ ~Running
    BY <1>7 DEF InitializeRefused, Failed, NewBridge, Running
  <2> QED BY <1>1, <2>1 DEF Running
<1>8. CASE InitializeOk
  BY <1>1, <1>8 DEF InitializeOk, Running
<1>9. CASE Start
  <2>1. known = Rtc /\ active = {} /\ known' = known /\ Running'
    BY <1>1, <1>9 DEF Start, setup, Running
  <2>2. Before(known, known \cap Dead) = Rtc
    BY <1>2, <2>1 DEF Before
  <2> QED BY <1>9, <2>1, <2>2 DEF Start
<1>10. CASE Finish
  <2>1. known = Rtc /\ active = Rtc /\ known' = known /\ ~Running' /\ pc' # "start"
    BY <1>1, <1>10 DEF Finish, setup, Running
  <2>2. active' = {}
    BY <1>2, <1>10, <2>1 DEF Finish, Deactivated
  <2> QED BY <2>1, <2>2
<1>11. CASE InputEarly \/ NoControl \/ (\E I \in SUBSET Port : Input(I) \/ InputRaises(I))
            \/ (\E T \in SUBSET known : Control(T))
  <2>1. Running /\ Running' /\ UNCHANGED <<known, active>>
    BY <1>11 DEF InputEarly, Input, InputRaises, Advance, NoControl, Control, setup,
                 Running
  <2> QED BY <1>1, <2>1
<1>12. ASSUME NEW r \in Rtc, Register(r) \/ Die(r)
       PROVE  UNCHANGED <<known, active, owned, pc>>
  BY <1>12 DEF Register, Die, setup
<1> QED BY <1>1, <1>3, <1>4, <1>5, <1>6, <1>7, <1>8, <1>9, <1>10, <1>11, <1>12
        DEF Next, SetupNext, StepNext, Running

-----------------------------------------------------------------------------
(* The rates of the components.                                            *)

\* What one step does to the counters: they are those of new components, or
\* one call of control() is counted, or they stay.
LEMMA RateSteps ==
    ASSUME Types, [Next]_vars
    PROVE  \/ \E S \in SUBSET Rtc : Detected(S) /\ known' \subseteq S
           \/ \E T \in SUBSET known : Control(T)
           \/ UNCHANGED rates /\ known' \subseteq known
<1> DEFINE Same == UNCHANGED rates /\ known' \subseteq known
<1>1. CASE UNCHANGED vars
  BY <1>1 DEF vars, rates
<1>2. ASSUME NEW S \in SUBSET Rtc, Failed(S) PROVE Detected(S) /\ known' \subseteq S
  BY <1>2 DEF Failed, NewBridge
<1>3. CASE InitializeRefused
  BY <1>2, <1>3 DEF InitializeRefused
<1>4. CASE InitializeBroken
  <2>1. Up \subseteq Rtc /\ Before(Up, Dead) \subseteq Rtc
    BY DEF Up, With, Before
  <2> QED BY <1>2, <1>4, <2>1 DEF InitializeBroken
<1>5. CASE InitializeNotFound
  <2>1. Up \in SUBSET Rtc
    BY DEF Up, With
  <2> QED BY <1>5, <2>1 DEF InitializeNotFound
<1>6. CASE InitializeOk
  BY <1>6 DEF InitializeOk
<1>7. ASSUME NEW p, Setup(p) PROVE Same
  BY <1>7 DEF Setup, NewBridge, setup
<1>8. CASE InitializeOwned \/ Retry \/ Start
  BY <1>8 DEF InitializeOwned, Retry, Start, setup
<1>9. CASE InputEarly \/ NoControl \/ Finish
           \/ (\E I \in SUBSET Port : Input(I) \/ InputRaises(I))
  BY <1>9 DEF InputEarly, Input, InputRaises, Advance, NoControl, Finish, setup
<1>10. ASSUME NEW r \in Rtc, Register(r) \/ Die(r) PROVE Same
  BY <1>10 DEF Register, Die, setup
<1> QED BY <1>1, <1>3, <1>4, <1>5, <1>6, <1>7, <1>8, <1>9, <1>10
        DEF Next, SetupNext, StepNext

\* A component that is up after the step and known before was up before.
LEMMA StillUp ==
    ASSUME Types, DetectedWasUp, [Next]_vars, NEW r \in known, rtc'[r] = "up"
    PROVE  rtc[r] = "up"
<1>1. r \in Rtc /\ rtc[r] # "absent" /\ rtc[r] \in {"absent", "up", "dead"}
  BY DEF Types, DetectedWasUp
<1>2. CASE UNCHANGED rtc
  BY <1>2
<1>3. ASSUME NEW d \in Rtc, Register(d) \/ Die(d) PROVE rtc[r] = "up"
  BY <1>1, <1>3 DEF Register, Die, Types
<1> QED BY <1>2, <1>3, KnownSteps

\* A counter c of a component with rate R after n calls and k ticks, in units of
\* which D make half a period: its bounds and its balance.
InBalance(c, R, D, n, k) ==
    /\ c >= -R /\ c <= 2 * D - R
    /\ c = 2 * D - 2 * R + 2 * (R * n) - 2 * (D * k)

CounterRight(r) == InBalance(counter[r], Rate[r], Den, reached[r], ticks[r])

\* A tick above the threshold and a wait below it keep the balance and the bounds.
LEMMA TickOrWait ==
    ASSUME NEW R \in Nat, NEW D \in Nat, R >= 1, R <= D, NEW c \in Int,
           NEW n \in Nat, NEW k \in Nat, InBalance(c, R, D, n, k)
    PROVE  /\ c + 3 * R >= 2 * D => InBalance(c + 2 * R - 2 * D, R, D, n + 1, k + 1)
           /\ c + 3 * R <= 2 * D => InBalance(c + 2 * R, R, D, n + 1, k)
<1> DEFINE a == R * n
           b == D * k
<1>1. R * (n + 1) = a + R /\ D * (k + 1) = b + D /\ a \in Int /\ b \in Int
  OBVIOUS
<1>2. c >= -R /\ c <= 2 * D - R /\ c = 2 * D - 2 * R + 2 * a - 2 * b
  BY DEF InBalance
<1>3. c + 2 * R = 2 * D - 2 * R + 2 * (a + R) - 2 * b
  <2> HIDE DEF a, b
  <2> QED BY <1>1, <1>2
<1>4. c + 2 * R - 2 * D = 2 * D - 2 * R + 2 * (a + R) - 2 * (b + D)
  <2> HIDE DEF a, b
  <2> QED BY <1>1, <1>2
<1>5. ASSUME c + 3 * R >= 2 * D
      PROVE  c + 2 * R - 2 * D >= -R /\ c + 2 * R - 2 * D <= 2 * D - R
  <2> HIDE DEF a, b
  <2> QED BY <1>2, <1>5
<1>6. ASSUME c + 3 * R <= 2 * D
      PROVE  c + 2 * R >= -R /\ c + 2 * R <= 2 * D - R
  <2> HIDE DEF a, b
  <2> QED BY <1>2, <1>6
<1> QED BY <1>1, <1>3, <1>4, <1>5, <1>6 DEF InBalance

\* A call of control() keeps the counter of a living component right: a tick
\* takes 1.0 away only above the threshold, and a wait is only below it.
LEMMA ControlCounts ==
    ASSUME Types, NEW T \in SUBSET known, Control(T), NEW r \in known,
           rtc[r] = "up", CounterRight(r)
    PROVE  CounterRight(r)'
<1> DEFINE raising == T \cap Dead
           passed  == Before(known, raising)
           came    == {c \in known : \A d \in raising : c <= d}
<1>1. /\ r \in Rtc /\ Rate[r] \in Nat /\ Rate[r] >= 1 /\ Rate[r] <= Den
      /\ Den \in Nat /\ counter[r] \in Int /\ reached[r] \in Nat /\ ticks[r] \in Nat
  BY RateFacts DEF Types
<1>2. /\ counter'[r] = IF r \in T \cap passed THEN AfterTick(r)
                       ELSE IF r \in came THEN counter[r] + 2 * Rate[r]
                       ELSE counter[r]
      /\ ticks'[r] = IF r \in T \cap passed THEN ticks[r] + 1 ELSE ticks[r]
      /\ reached'[r] = IF r \in came THEN reached[r] + 1 ELSE reached[r]
  BY <1>1 DEF Control
<1>3. r \notin raising /\ raising \subseteq Rtc
  BY DEF Dead, With, Types
<1>4. r \in came <=> r \in passed
  <2>1. \A d \in raising : r \in Int /\ d \in Int /\ r # d
    BY <1>1, <1>3 DEF Rtc
  <2> QED BY <2>1 DEF Before
<1>5. CASE r \in came /\ r \in T
  <2>1. /\ counter'[r] = counter[r] + 2 * Rate[r] - 2 * Den
        /\ ticks'[r] = ticks[r] + 1 /\ reached'[r] = reached[r] + 1
    BY <1>2, <1>4, <1>5 DEF AfterTick
  <2>2. counter[r] + 3 * Rate[r] >= 2 * Den
    <3>1. MayTick(r)
      BY <1>5 DEF Control
    <3> QED BY <1>1, <3>1 DEF MayTick, Threshold
  <2> QED BY <1>1, <2>1, <2>2, TickOrWait DEF CounterRight
<1>6. CASE r \in came /\ r \notin T
  <2>1. /\ counter'[r] = counter[r] + 2 * Rate[r]
        /\ ticks'[r] = ticks[r] /\ reached'[r] = reached[r] + 1
    BY <1>2, <1>6
  <2>2. counter[r] + 3 * Rate[r] <= 2 * Den
    <3>1. MayWait(r)
      BY <1>6 DEF Control
    <3> QED BY <1>1, <3>1 DEF MayWait, Threshold
  <2> QED BY <1>1, <2>1, <2>2, TickOrWait DEF CounterRight
<1>7. CASE r \notin came
  <2>1. counter'[r] = counter[r] /\ ticks'[r] = ticks[r] /\ reached'[r] = reached[r]
    BY <1>2, <1>4, <1>7
  <2> QED BY <2>1 DEF CounterRight
<1> QED BY <1>5, <1>6, <1>7

\* Every step keeps the counters of the living components right.
LEMMA CountersStep ==
    ASSUME Types, DetectedWasUp, CounterBounded, CounterExact, [Next]_vars, Types'
    PROVE  CounterBounded' /\ CounterExact'
<1>1. \A r \in known : rtc[r] = "up" => CounterRight(r)
  BY RateFacts DEF CounterBounded, CounterExact, CounterRight, InBalance, Types
<1>2. (\A r \in known' : rtc'[r] = "up" => CounterRight(r)')
         => CounterBounded' /\ CounterExact'
  BY RateFacts DEF CounterBounded, CounterExact, CounterRight, InBalance, Types
<1> SUFFICES ASSUME NEW r \in known', rtc'[r] = "up"
             PROVE  CounterRight(r)'
  BY <1>2
<1>3. r \in Rtc /\ Rate[r] \in Nat /\ Rate[r] >= 1 /\ Rate[r] <= Den /\ Den \in Nat
  BY RateFacts DEF Types
<1>4. ASSUME NEW S \in SUBSET Rtc, Detected(S), known' \subseteq S
      PROVE  CounterRight(r)'
  <2>1. counter'[r] = 2 * Den - 2 * Rate[r] /\ reached'[r] = 0 /\ ticks'[r] = 0
    BY <1>3, <1>4 DEF Detected
  <2> QED BY <1>3, <2>1 DEF CounterRight, InBalance
<1>5. ASSUME NEW T \in SUBSET known, Control(T) PROVE CounterRight(r)'
  <2>1. r \in known
    BY <1>5 DEF Control, setup
  <2> QED BY <1>1, <1>5, <2>1, StillUp, ControlCounts
<1>6. CASE UNCHANGED rates /\ known' \subseteq known
  <2>1. r \in known /\ rtc[r] = "up"
    BY <1>6, StillUp
  <2> QED BY <1>1, <1>6, <2>1 DEF CounterRight, rates
<1> QED BY <1>4, <1>5, <1>6, RateSteps

-----------------------------------------------------------------------------
(* The schedule of control cycles and out ports.                           *)

schedule == <<pc, step, simTime, doCount, doFlag, controlTime, inputs>>

\* The steps after which a simulation is running.
LEMMA RunningSteps ==
    ASSUME Types, [Next]_vars, Running'
    PROVE  /\ \/ Start \/ InputEarly \/ NoControl
              \/ \E I \in SUBSET Port : Input(I) \/ InputRaises(I)
              \/ \E T \in SUBSET known : Control(T)
              \/ UNCHANGED schedule
           /\ UNCHANGED <<step, env>>
<1>1. CASE UNCHANGED vars
  BY <1>1 DEF vars, schedule
<1>2. CASE SetupNext
  <2>1. ASSUME NEW p, Setup(p) PROVE FALSE
    BY <2>1 DEF Setup, Running
  <2>2. ASSUME NEW S, Failed(S) PROVE FALSE
    BY <2>2 DEF Failed, Running
  <2>3. ~InitializeRefused /\ ~InitializeBroken
    BY <2>2 DEF InitializeRefused, InitializeBroken
  <2>4. ~InitializeOwned /\ ~InitializeNotFound /\ ~InitializeOk /\ ~Retry
    BY DEF InitializeOwned, InitializeNotFound, InitializeOk, Retry, Running
  <2> QED BY <1>2, <2>1, <2>3, <2>4 DEF SetupNext, Start, grx, Next, vars
<1>3. CASE StepNext
  <2>1. ~Finish
    BY DEF Finish, Running
  <2> QED BY <1>3, <2>1 DEF StepNext, InputEarly, Input, InputRaises, Advance,
                            NoControl, Control, grx, Next, vars
<1>4. ASSUME NEW r \in Rtc, Register(r) \/ Die(r), UNCHANGED env
      PROVE  UNCHANGED schedule /\ UNCHANGED <<step, env>>
  BY <1>4 DEF Register, Die, grx, loop, schedule
<1> QED BY <1>1, <1>2, <1>3, <1>4 DEF Next

\* In a simulation the control step is at least the simulation step.
LEMMA RunningStep ==
    ASSUME StepAccepted, Running
    PROVE  step \in Nat /\ step >= 1 /\ step >= SimStep
  BY BridgeAssumption DEF StepAccepted, Running

\* Multiplying out what one more cycle adds.
LEMMA OneMore ==
    ASSUME NEW n \in Nat, NEW s \in Nat
    PROVE  n * s \in Nat /\ (n + 1) * s = n * s + s /\ (n + 1) - 1 = n
  OBVIOUS

\* Of a cycle that begins: GrxUI may count it only when it is due, and must count
\* it when it is overdue.
LEMMA CyclesOnScheduleStep ==
    ASSUME env \in Settings, Types, StepAccepted, StepAccepted', CyclesOnSchedule,
           [Next]_vars
    PROVE  CyclesOnSchedule'
<1> SUFFICES ASSUME Running'
             PROVE  /\ doCount' * step' >= simTime' - SimStep
                    /\ doCount' > 0 => (doCount' - 1) * step' + SimStep <= simTime'
  BY DEF CyclesOnSchedule
<1>1. SimStep \in Nat /\ SimStep >= 1 /\ simTime \in Nat /\ doCount \in Nat
  BY BridgeAssumption DEF Types
<1>2. step' = step /\ step \in Nat /\ step >= SimStep
  <2>1. step' = step
    BY RunningSteps
  <2>2. step' \in Nat /\ step' >= SimStep
    BY BridgeAssumption DEF StepAccepted, Running
  <2> QED BY <2>1, <2>2
<1>3. CASE Start
  BY <1>1, <1>2, <1>3 DEF Start
<1>4. ASSUME Running, simTime' = simTime, doCount' = doCount
      PROVE  /\ doCount' * step' >= simTime' - SimStep
             /\ doCount' > 0 => (doCount' - 1) * step' + SimStep <= simTime'
  BY <1>2, <1>4 DEF CyclesOnSchedule
<1>5. CASE NoControl \/ (\E T \in SUBSET known : Control(T))
  <2>1. Running /\ simTime' = simTime /\ doCount' = doCount
    BY <1>5 DEF NoControl, Control, loop, Running
  <2> QED BY <1>4, <2>1
<1>6. CASE UNCHANGED schedule
  BY <1>4, <1>6 DEF schedule, Running
<1>7. doCount * step \in Nat /\ (doCount - 1) * step \in Int
  BY <1>1, <1>2
<1>8. CASE InputEarly
  <2>1. simTime' = simTime + SimStep /\ doCount' = doCount /\ Running
    BY <1>8 DEF InputEarly, Advance, Running
  <2>2. doCount * step >= simTime
    BY <1>8 DEF InputEarly, MayBeEarly
  <2>3. doCount > 0 => (doCount - 1) * step + SimStep <= simTime
    BY <2>1 DEF CyclesOnSchedule
  <2> QED BY <1>1, <1>2, <1>7, <2>1, <2>2, <2>3
<1>9. ASSUME NEW I \in SUBSET Port, Input(I) \/ InputRaises(I)
      PROVE  /\ doCount' * step' >= simTime' - SimStep
             /\ doCount' > 0 => (doCount' - 1) * step' + SimStep <= simTime'
  <2>1. simTime' = simTime + SimStep /\ doCount' = doCount + 1 /\ Running
    BY <1>9 DEF Input, InputRaises, Advance, Running
  <2>2. doCount * step <= simTime
    BY <1>9 DEF Input, InputRaises, MayBeDue
  <2>3. doCount * step >= simTime - SimStep
    BY <2>1 DEF CyclesOnSchedule
  <2>4. doCount' * step' = doCount * step + step /\ doCount' - 1 = doCount
    BY <1>1, <1>2, <2>1, OneMore
  <2> QED BY <1>1, <1>2, <1>7, <2>1, <2>2, <2>3, <2>4
<1> QED BY <1>3, <1>5, <1>6, <1>8, <1>9, RunningSteps

\* With no failure every cycle that GrxUI counts is run by the bridge before the
\* next one begins.
LEMMA TimeCountedStep ==
    ASSUME env \in Settings, Types, StepAccepted, AllUp, TimeCounted, [Next]_vars
    PROVE  TimeCounted'
<1> SUFFICES ASSUME Running', env'.faults = {}
             PROVE  /\ CyclePending' => doCount' > 0
                    /\ controlTime' =
                         (IF CyclePending' THEN doCount' - 1 ELSE doCount') * step'
  BY DEF TimeCounted
<1>1. step' = step /\ env.faults = {} /\ doCount \in Nat /\ controlTime \in Nat
  BY RunningSteps DEF Types
<1>2. Running => /\ CyclePending => doCount > 0
                 /\ controlTime = (IF CyclePending THEN doCount - 1 ELSE doCount) * step
                 /\ step \in Nat
  BY <1>1, RunningStep DEF TimeCounted
<1>3. CASE Start
  <2>1. doCount' = 0 /\ controlTime' = 0 /\ ~CyclePending'
    BY <1>3 DEF Start, StartTime, CyclePending
  <2>2. step \in Nat
    BY <1>3, BridgeAssumption DEF Start, StepAccepted
  <2>3. 0 * step = 0
    BY <2>2
  <2>4. (IF CyclePending' THEN doCount' - 1 ELSE doCount') = 0
    BY <2>1
  <2> QED BY <1>1, <2>1, <2>3, <2>4
<1>4. CASE UNCHANGED schedule
  BY <1>1, <1>2, <1>4 DEF schedule, Running, CyclePending
<1>5. CASE InputEarly
  <2>1. /\ Running /\ ~CyclePending /\ ~CyclePending'
        /\ controlTime' = controlTime /\ doCount' = doCount
    BY <1>5 DEF InputEarly, Advance, CyclePending, Running
  <2> QED BY <1>1, <1>2, <2>1
<1>6. ASSUME NEW I \in SUBSET Port, Input(I) \/ InputRaises(I)
      PROVE  /\ CyclePending' => doCount' > 0
             /\ controlTime' = (IF CyclePending' THEN doCount' - 1 ELSE doCount') * step'
  <2>1. Running /\ ~CyclePending
    BY <1>6 DEF Input, InputRaises, Advance, CyclePending, Running
  <2>2. CyclePending'
    BY <1>6 DEF Input, InputRaises, Advance, CyclePending
  <2>3. controlTime' = controlTime /\ doCount' = doCount + 1
    BY <1>6 DEF Input, InputRaises, Advance
  <2>4. doCount' - 1 = doCount /\ doCount' > 0
    BY <1>1, <2>3
  <2> QED BY <1>1, <1>2, <2>1, <2>2, <2>3, <2>4
<1>7. CASE NoControl
  <2>1. /\ Running /\ ~CyclePending /\ ~CyclePending'
        /\ controlTime' = controlTime /\ doCount' = doCount
    BY <1>7 DEF NoControl, loop, CyclePending, Running
  <2> QED BY <1>1, <1>2, <2>1
<1>8. ASSUME NEW T \in SUBSET known, Control(T)
      PROVE  /\ CyclePending' => doCount' > 0
             /\ controlTime' = (IF CyclePending' THEN doCount' - 1 ELSE doCount') * step'
  <2>1. Running /\ CyclePending /\ ~CyclePending' /\ doCount' = doCount
    BY <1>8 DEF Control, loop, CyclePending, Running
  <2>2. T \cap Dead = {}
    BY <1>1 DEF AllUp, Dead, With
  <2>3. controlTime' = controlTime + step
    BY <1>8, <2>2 DEF Control
  <2>4. doCount - 1 \in Nat /\ (doCount - 1) + 1 = doCount
    BY <1>1, <1>2, <2>1
  <2>5. doCount * step = (doCount - 1) * step + step
    BY <1>2, <2>1, <2>4, OneMore
  <2> QED BY <1>1, <1>2, <2>1, <2>3, <2>5
<1> QED BY <1>3, <1>4, <1>5, <1>6, <1>7, <1>8, RunningSteps

\* How far a multiple of s is from 0.
LEMMA Multiples ==
    ASSUME NEW d \in Int, NEW s \in Nat
    PROVE  /\ d * s \in Int
           /\ d <= -1 => d * s <= -s
           /\ d >= 1 => d * s >= s
           /\ d >= 2 => d * s >= 2 * s
<1>1. ASSUME NEW e \in Nat PROVE e * s \in Nat
  OBVIOUS
<1>2. ASSUME d <= -1 PROVE d * s <= -s
  <2>1. (-1 - d) \in Nat /\ (-1 - d) * s = -s - d * s
    BY <1>2
  <2> QED BY <1>1, <2>1
<1>3. ASSUME d >= 1 PROVE d * s >= s
  <2>1. (d - 1) \in Nat /\ (d - 1) * s = d * s - s
    BY <1>3
  <2> QED BY <1>1, <2>1
<1>4. ASSUME d >= 2 PROVE d * s >= 2 * s
  <2>1. (d - 2) \in Nat /\ (d - 2) * s = d * s - 2 * s
    BY <1>4
  <2> QED BY <1>1, <2>1
<1> QED BY <1>2, <1>3, <1>4

\* The time t = k*s + m, m the rest, and the number n of inputs that is right for
\* it: the multiple of s before t counts, or not yet.
LEMMA InputsSoFar ==
    ASSUME NEW n \in Nat, NEW k \in Nat, NEW s \in Nat, NEW m \in Nat, NEW c \in Nat,
           c >= 1, s >= c, m < s, Right(n, s, k * s + m, c)
    PROVE  /\ 2 * m < c => n * s = k * s
           /\ 2 * m > c => n * s = k * s + s
<1> DEFINE d == n - k
           x == k * s
           y == d * s
<1>1. d \in Int /\ x \in Int /\ y \in Int /\ n * s = x + y
  OBVIOUS
<1>2. 2 * (x + y) > 2 * (x + m) - c /\ 2 * (x + y) <= 2 * (x + m) - c + 2 * s
  BY <1>1 DEF Right
<1>3. /\ d <= -1 => y <= -s
      /\ d >= 1 => y >= s
      /\ d >= 2 => y >= 2 * s
  BY <1>1, Multiples
<1>4. d = 0 => y = 0
  OBVIOUS
<1>5. d = 1 => y = s
  OBVIOUS
<1>6. ASSUME 2 * m < c PROVE d = 0
  <2> HIDE DEF x, y, d
  <2> QED BY <1>1, <1>2, <1>3, <1>6
<1>7. ASSUME 2 * m > c PROVE d = 1
  <2> HIDE DEF x, y, d
  <2> QED BY <1>1, <1>2, <1>3, <1>4, <1>7
<1> HIDE DEF y, d
<1> QED BY <1>1, <1>4, <1>5, <1>6, <1>7

\* A number of inputs that is right for a time is right one control cycle later,
\* with the input of this cycle if the port got one.
LEMMA InputsAfter ==
    ASSUME NEW n \in Nat, NEW s \in Nat, NEW t \in Nat, NEW c \in Nat,
           c % 2 = 1, s >= c, Right(n, s, t, c)
    PROVE  /\ 2 * (t % s) + c >= 2 * s \/ 2 * (t % s) + c <= 2 * c
                => Right(n + 1, s, t + c, c)
           /\ 2 * (t % s) + c <= 2 * s /\ 2 * (t % s) + c >= 2 * c
                => Right(n, s, t + c, c)
<1> DEFINE k == t \div s
           m == t % s
           x == k * s
           y == n * s
<1>1. c >= 1 /\ s >= 1
  OBVIOUS
<1>2. k \in Nat /\ m \in Nat /\ m < s /\ t = x + m
  BY <1>1
<1>3. x \in Nat /\ y \in Nat /\ (n + 1) * s = y + s
  BY <1>2
<1>4. 2 * m # c /\ 2 * s # 2 * m + c
  <2> HIDE DEF m
  <2> QED BY <1>2
<1>5. (2 * m < c => y = x) /\ (2 * m > c => y = x + s)
  <2> HIDE DEF k, m
  <2> QED BY <1>1, <1>2, InputsSoFar
<1> HIDE DEF k, m, x, y
<1>6. ASSUME 2 * m + c >= 2 * s \/ 2 * m + c <= 2 * c
      PROVE  2 * (y + s) > 2 * (t + c) - c /\ 2 * (y + s) <= 2 * (t + c) - c + 2 * s
  BY <1>1, <1>2, <1>3, <1>4, <1>5, <1>6
<1>7. ASSUME 2 * m + c <= 2 * s /\ 2 * m + c >= 2 * c
      PROVE  2 * y > 2 * (t + c) - c /\ 2 * y <= 2 * (t + c) - c + 2 * s
  BY <1>1, <1>2, <1>3, <1>4, <1>5, <1>7
<1> QED BY <1>3, <1>6, <1>7 DEF Right, y, m

\* The time of the bridge when the cycle that GrxUI has begun, if any, is over.
TimeAfter == IF CyclePending THEN controlTime + step ELSE controlTime

\* Each control cycle serves the ports it has to.
LEMMA PortsServedStep ==
    ASSUME env \in Settings, Types, StepAccepted, AllUp, PortsServed, [Next]_vars
    PROVE  PortsServed'
<1> SUFFICES ASSUME Running', step' % 2 = 1, env'.faults = {},
                    NEW p \in Port, PortStep[p] >= step'
             PROVE  Right(inputs'[p], PortStep[p], TimeAfter', step')
  BY DEF PortsServed, TimeAfter
<1>1. /\ step' = step /\ env.faults = {} /\ controlTime \in Nat
      /\ inputs[p] \in Nat /\ PortStep[p] \in Nat /\ step % 2 = 1
  BY RunningSteps, BridgeAssumption DEF Types
<1>2. Running => Right(inputs[p], PortStep[p], TimeAfter, step) /\ step \in Nat
  BY <1>1, RunningStep DEF PortsServed, TimeAfter
<1>3. CASE Start
  <2>1. inputs'[p] = 0 /\ controlTime' = 0 /\ ~CyclePending'
    BY <1>3 DEF Start, StartTime, CyclePending
  <2>2. step \in Nat /\ step >= 1
    BY <1>3, BridgeAssumption DEF Start, StepAccepted
  <2>3. 0 * PortStep[p] = 0
    BY <1>1
  <2>4. Right(0, PortStep[p], 0, step)
    BY <1>1, <2>2, <2>3 DEF Right
  <2> QED BY <1>1, <2>1, <2>4 DEF TimeAfter
<1>4. CASE UNCHANGED schedule
  BY <1>1, <1>2, <1>4 DEF schedule, Running, CyclePending, TimeAfter
<1>5. CASE InputEarly \/ NoControl
  <2>1. /\ Running /\ ~CyclePending /\ ~CyclePending'
        /\ controlTime' = controlTime /\ inputs' = inputs
    BY <1>5 DEF InputEarly, NoControl, loop, Advance, CyclePending, Running
  <2> QED BY <1>1, <1>2, <2>1 DEF TimeAfter
<1>6. ASSUME NEW I \in SUBSET Port, Input(I)
      PROVE  Right(inputs'[p], PortStep[p], TimeAfter', step')
  <2>1. Running /\ ~CyclePending
    BY <1>6 DEF Input, Advance, CyclePending, Running
  <2>2. CyclePending'
    BY <1>6 DEF Input, Advance, CyclePending
  <2>3. controlTime' = controlTime
    BY <1>6 DEF Input, Advance
  <2>4. TimeAfter = controlTime /\ TimeAfter' = controlTime + step
    BY <1>1, <2>1, <2>2, <2>3 DEF TimeAfter
  <2>5. Right(inputs[p], PortStep[p], controlTime, step) /\ step \in Nat
    BY <1>2, <2>1, <2>4
  <2>6. PortStep[p] # 0
    BY <1>1, <2>5
  <2>7. CASE p \in I
    <3>1. MayInput(p) /\ inputs'[p] = inputs[p] + 1
      BY <1>6, <2>7 DEF Input
    <3>2. \/ 2 * (controlTime % PortStep[p]) + step >= 2 * PortStep[p]
          \/ 2 * (controlTime % PortStep[p]) + step <= 2 * step
      BY <2>6, <3>1 DEF MayInput, Offset
    <3> QED BY <1>1, <2>4, <2>5, <3>1, <3>2, InputsAfter
  <2>8. CASE p \notin I
    <3>1. MaySkip(p) /\ inputs'[p] = inputs[p]
      BY <1>6, <2>8 DEF Input
    <3>2. /\ 2 * (controlTime % PortStep[p]) + step <= 2 * PortStep[p]
          /\ 2 * (controlTime % PortStep[p]) + step >= 2 * step
      BY <3>1 DEF MaySkip, Offset
    <3> QED BY <1>1, <2>4, <2>5, <3>1, <3>2, InputsAfter
  <2> QED BY <2>7, <2>8
<1>7. ASSUME NEW I \in SUBSET Port, InputRaises(I) PROVE FALSE
  BY <1>1, <1>7 DEF InputRaises
<1>8. ASSUME NEW T \in SUBSET known, Control(T)
      PROVE  Right(inputs'[p], PortStep[p], TimeAfter', step')
  <2>1. Running /\ CyclePending /\ ~CyclePending' /\ inputs' = inputs
    BY <1>8 DEF Control, CyclePending, Running
  <2>2. T \cap Dead = {}
    BY <1>1 DEF AllUp, Dead, With
  <2>3. controlTime' = controlTime + step
    BY <1>8, <2>2 DEF Control
  <2> QED BY <1>1, <1>2, <2>1, <2>3 DEF TimeAfter
<1> QED BY <1>3, <1>4, <1>5, <1>6, <1>7, <1>8, RunningSteps

-----------------------------------------------------------------------------
(* The invariant holds.                                                    *)

\* A bridge that is not set up satisfies the invariant.
LEMMA BridgeInvInit == Init => BridgeInv
<1> SUFFICES ASSUME Init PROVE BridgeInv
  OBVIOUS
<1>1. env \in Settings /\ pc = "off" /\ known = {} /\ active = {} /\ owned = FALSE
  BY DEF Init
<1>2. runs \in 0..env.maxRuns
  BY SettingFacts DEF Init
<1>3. rtc \in [Rtc -> {"absent", "up", "dead"}]
  BY DEF Init
<1>4. TypeOK
  <2>1. counter \in [Rtc -> Int] /\ inputs \in [Port -> Nat]
    BY DEF Init
  <2>2. reached \in [Rtc -> Nat] /\ ticks \in [Rtc -> Nat]
    BY DEF Init
  <2>3. doFlag \in BOOLEAN /\ owned \in BOOLEAN /\ connected \in BOOLEAN
    BY DEF Init
  <2>4. simTime \in Nat /\ doCount \in Nat /\ controlTime \in Nat
    BY DEF Init
  <2>5. pc \in Pcs /\ step \in env.ctrlSteps \cup {0}
    BY DEF Init, Pcs
  <2> QED BY <1>1, <1>2, <1>3, <2>1, <2>2, <2>3, <2>4, <2>5 DEF TypeOK
<1>5. DetectedWasUp /\ StepAccepted /\ CounterExact
  BY <1>1 DEF DetectedWasUp, StepAccepted, CounterExact
<1>6. CyclesOnSchedule /\ TimeCounted /\ PortsServed
  BY <1>1 DEF CyclesOnSchedule, TimeCounted, PortsServed, Running
<1>7. AllUp
  BY DEF Init, AllUp
<1>8. AllKnown
  BY <1>1 DEF AllKnown, Running
<1> QED BY <1>1, <1>4, <1>5, <1>6, <1>7, <1>8 DEF BridgeInv

\* Every step keeps it.
LEMMA BridgeInvNext == BridgeInv /\ [Next]_vars => BridgeInv'
<1> SUFFICES ASSUME BridgeInv, [Next]_vars PROVE BridgeInv'
  OBVIOUS
<1>1. /\ env \in Settings /\ Types /\ CounterBounded /\ DetectedWasUp
      /\ StepAccepted /\ CounterExact /\ CyclesOnSchedule /\ AllUp
      /\ TimeCounted /\ PortsServed /\ AllKnown
  BY TypeParts DEF BridgeInv
<1>2. Types' /\ (env \in Settings)'
  BY <1>1, TypesNext
<1>3. CounterBounded' /\ CounterExact'
  BY <1>1, <1>2, CountersStep
<1>4. (Types /\ CounterBounded => TypeOK)'
  BY TypeParts, PTL
<1>5. TypeOK'
  BY <1>2, <1>3, <1>4
<1>6. DetectedWasUp' /\ StepAccepted' /\ AllUp' /\ AllKnown'
  BY <1>1, DetectedWasUpStep, StepAcceptedStep, AllUpStep, AllKnownStep
<1>7. CyclesOnSchedule'
  BY <1>1, <1>6, CyclesOnScheduleStep
<1>8. TimeCounted' /\ PortsServed'
  BY <1>1, TimeCountedStep, PortsServedStep
<1> QED BY <1>2, <1>3, <1>5, <1>6, <1>7, <1>8 DEF BridgeInv

\* So it always holds.
LEMMA BridgeInvHolds == Spec => []BridgeInv
  BY BridgeInvInit, BridgeInvNext, PTL DEF Spec

-----------------------------------------------------------------------------
(* What follows from it.                                                   *)

\* TypeOK, with the counter of a component within one period of its ticks.
THEOREM BridgeTypeCorrect == Spec => []TypeOK
<1>1. BridgeInv => TypeOK
  BY DEF BridgeInv
<1> QED BY <1>1, BridgeInvHolds, PTL

\* GrxUI's control cycles neither drift nor pile up, for every control step and
\* simulation step and whatever the controller raises.
THEOREM CyclesNeverDrift == Spec => []ControlOnSchedule
<1>1. BridgeInv => ControlOnSchedule
  BY DEF BridgeInv, CyclesOnSchedule, ControlOnSchedule, Running
<1> QED BY <1>1, BridgeInvHolds, PTL

\* The time that the bridge adds up stays within a control step of the time that
\* GrxUI adds up.
THEOREM BridgeClocksAgree == Spec => []ClocksAgree
<1>1. ASSUME BridgeInv PROVE ClocksAgree
  <2> SUFFICES ASSUME pc = "input", env.faults = {}
               PROVE  /\ controlTime >= simTime - SimStep
                      /\ controlTime <= simTime - SimStep + step
    BY DEF ClocksAgree
  <2>1. Running /\ ~CyclePending
    BY DEF Running, CyclePending
  <2>2. /\ SimStep \in Nat /\ step \in Nat /\ doCount \in Nat /\ simTime \in Nat
        /\ SimStep <= step
    BY <1>1, <2>1, RunningStep, BridgeAssumption DEF BridgeInv, TypeOK
  <2>3. controlTime = doCount * step /\ doCount * step >= simTime - SimStep
    BY <1>1, <2>1 DEF BridgeInv, TimeCounted, CyclesOnSchedule
  <2>4. CASE doCount = 0
    <3>1. controlTime = 0
      BY <2>2, <2>3, <2>4
    <3>2. simTime - SimStep + step \in Nat
      BY <2>2
    <3> QED BY <2>3, <3>1, <3>2
  <2>5. CASE doCount > 0
    <3>1. (doCount - 1) * step + SimStep <= simTime
      BY <1>1, <2>1, <2>5 DEF BridgeInv, CyclesOnSchedule
    <3>2. doCount - 1 \in Nat /\ (doCount - 1) + 1 = doCount
      BY <2>2, <2>5
    <3>3. (doCount - 1) * step \in Nat /\ doCount * step = (doCount - 1) * step + step
      BY <2>2, <3>2, OneMore
    <3> QED BY <2>2, <2>3, <3>1, <3>3
  <2> QED BY <2>2, <2>4, <2>5
<1> QED BY <1>1, BridgeInvHolds, PTL

\* Every out port is served once at the cycle nearest to each multiple of its step.
THEOREM PortsOnSchedule == Spec => []PortOnSchedule
<1>1. ASSUME BridgeInv PROVE PortOnSchedule
  <2> SUFFICES ASSUME pc = "input", step % 2 = 1, env.faults = {},
                      NEW p \in Port, PortStep[p] >= step
               PROVE  /\ 2 * inputs[p] * PortStep[p] > 2 * controlTime - step
                      /\ 2 * inputs[p] * PortStep[p]
                            <= 2 * controlTime - step + 2 * PortStep[p]
    BY DEF PortOnSchedule
  <2>1. Right(inputs[p], PortStep[p], controlTime, step)
    BY <1>1 DEF BridgeInv, PortsServed, Running, CyclePending
  <2>2. inputs[p] \in Nat /\ PortStep[p] \in Nat
    BY <1>1, BridgeAssumption DEF BridgeInv, TypeOK
  <2>3. 2 * inputs[p] * PortStep[p] = 2 * (inputs[p] * PortStep[p])
    BY <2>2
  <2> QED BY <2>1, <2>3 DEF Right
<1> QED BY <1>1, BridgeInvHolds, PTL

\* Ticks against calls, multiplied out.
LEMMA Multiplied ==
    ASSUME NEW a \in Nat, NEW d \in Nat, NEW n \in Nat, NEW t \in Nat
    PROVE  /\ 2 * d * t = 2 * (d * t) /\ d * t \in Nat
           /\ (2 * n - 1) * a = 2 * (a * n) - a /\ a * n \in Nat
  OBVIOUS

\* A living component is ticked at its rate over any number of simulations, for
\* every rate.
THEOREM TicksAtRate == Spec => []TicksTrackRate
<1>1. ASSUME BridgeInv PROVE TicksTrackRate
  <2> SUFFICES ASSUME NEW r \in known, rtc[r] = "up"
               PROVE  /\ 2 * Den * ticks[r] >= (2 * reached[r] - 1) * Rate[r]
                      /\ 2 * Den * ticks[r] <= (2 * reached[r] - 1) * Rate[r] + 2 * Den
    BY DEF TicksTrackRate
  <2> DEFINE x == Rate[r] * reached[r]
             y == Den * ticks[r]
  <2>1. r \in Rtc
    BY <1>1 DEF BridgeInv, TypeOK
  <2>2. Rate[r] \in Nat /\ Den \in Nat
    BY <2>1, RateFacts
  <2>3. reached[r] \in Nat /\ ticks[r] \in Nat /\ counter[r] \in Int
    BY <1>1, <2>1 DEF BridgeInv, TypeOK
  <2>4. /\ 2 * Den * ticks[r] = 2 * y /\ y \in Nat
        /\ (2 * reached[r] - 1) * Rate[r] = 2 * x - Rate[r] /\ x \in Nat
    BY <2>2, <2>3, Multiplied
  <2>5. counter[r] = 2 * Den - 2 * Rate[r] + 2 * x - 2 * y
    BY <1>1 DEF BridgeInv, CounterExact
  <2>6. counter[r] >= -Rate[r] /\ counter[r] <= 2 * Den - Rate[r]
    BY <1>1, <2>2 DEF BridgeInv, TypeOK
  <2> HIDE DEF x, y
  <2>7. 2 * y >= 2 * x - Rate[r] /\ 2 * y <= 2 * x - Rate[r] + 2 * Den
    BY <2>2, <2>3, <2>4, <2>5, <2>6
  <2> QED BY <2>4, <2>7
<1> QED BY <1>1, BridgeInvHolds, PTL

\* With no failure and a bridge process that GrxUI manages, all components are
\* active in a simulation and none after it.
THEOREM ActiveInSimulation == Spec => []ActiveWhileRunning
<1>1. BridgeInv => ActiveWhileRunning
  BY DEF BridgeInv, AllKnown, ActiveWhileRunning, Running
<1> QED BY <1>1, BridgeInvHolds, PTL

=============================================================================
