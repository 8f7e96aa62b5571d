-------------------------- MODULE ControllerBridge --------------------------
(***************************************************************************)
(* The control cycle of one robot: GrxUI decides at every simulation step  *)
(* whether the controller is due (ControllerAttribute), and the controller *)
(* bridge (Controller_impl, VirtualRobotRTC) passes sensor data to its out *)
(* ports and ticks the execution contexts of its RT components, each at a  *)
(* rate of its own. GrxUI also sets the bridge up before each simulation   *)
(* (_setupController), which detects the RT components once.               *)
(*                                                                         *)
(* Times are whole numbers of one unit. The code computes with doubles: a  *)
(* comparison whose two sides are equal may come out either way, and is    *)
(* left open here, any other comes out as in exact arithmetic. Every       *)
(* component has a periodic-rate entry and a port connection in the        *)
(* configuration of the bridge.                                            *)
(***************************************************************************)
EXTENDS Integers

CONSTANTS
    SimStep,     \* stepTime_ of the simulation
    Port,        \* out ports of the virtual robot
    PortStep,    \* stepTime of each out port, 0: every cycle
    Rtcs,        \* number of RT components, in the order of rtcInfoVector
    Rate, Den,   \* periodic-rate of component r is Rate[r] / Den <= 1
    Settings     \* the settings to consider; each is a record of
                 \*  ctrlSteps: values of the model's controlTime property
                 \*  totalTime: totalTime_
                 \*  maxRuns: bound, how many simulations are set up
                 \*  managed: GrxUI runs the bridge process and can restart it
                 \*  faults: which of FaultKinds may happen

Rtc == 1..Rtcs

\* input() raises in the middle; an RT component registers late with the
\* naming service; its process ends.
FaultKinds == {"input", "late", "death"}

ASSUME BridgeAssumption ==
    /\ SimStep \in Nat \ {0}
    /\ PortStep \in [Port -> Nat]
    /\ Rtcs \in Nat /\ Den \in Nat \ {0} /\ Rate \in [Rtc -> 1..Den]
    /\ \A e \in Settings :
          /\ e.ctrlSteps \subseteq Nat \ {0}
          /\ e.totalTime \in Nat /\ e.maxRuns \in Nat
          /\ e.managed \in BOOLEAN /\ e.faults \subseteq FaultKinds

VARIABLES
    pc,           \* where GrxUI is: off, initialize, retry, start, input, control
    runs,         \* simulations set up so far
    simTime,      \* simTime_
    step,         \* stepTime_ of the ControllerAttribute, timeStep of the bridge
    doCount,      \* doCount_
    doFlag,       \* doFlag_
    rtc,          \* each RT component: "absent", "up" or "dead"
    owned,        \* isOwnedByController
    known,        \* components in rtcInfoVector
    connected,    \* whether setupRtcConnections() was completed
    active,       \* components whose activation was requested
    controlTime,  \* controlTime
    counter,      \* timeRateCounter of each component, in units of 1/(2*Den)
    inputs,       \* history: inputs of each out port in this simulation
    reached,      \* history: control() calls that came to each component
    ticks,        \* history: ticks of each component
    env           \* the setting of this behaviour

grx      == <<runs, step>>
loop     == <<simTime, doCount, doFlag>>
setup    == <<owned, known, connected>>
rates    == <<counter, reached, ticks>>
vars     == <<pc, runs, simTime, step, doCount, doFlag, rtc, owned, known,
              connected, active, controlTime, counter, inputs, reached, ticks, env>>

With(state) == {r \in Rtc : rtc[r] = state}
Up   == With("up")
Dead == With("dead")
\* The members of a set of components that a loop over rtcInfoVector handles
\* before it comes to one that makes it raise.
Before(S, raising) == {r \in S : \A d \in raising : r < d}

Init ==
    /\ env \in Settings
    /\ pc = "off" /\ runs = 0 /\ simTime = 0
    /\ step = 0 /\ doCount = 0 /\ doFlag = FALSE
    /\ rtc \in [Rtc -> IF "late" \in env.faults THEN {"absent", "up"} ELSE {"up"}]
    /\ owned = FALSE /\ known = {} /\ connected = FALSE
    /\ active = {} /\ controlTime = 0
    /\ counter = [r \in Rtc |-> 0]
    /\ inputs = [p \in Port |-> 0]
    /\ reached = [r \in Rtc |-> 0] /\ ticks = [r \in Rtc |-> 0]

-----------------------------------------------------------------------------
(* RT components come and go.                                              *)

Register(r) ==
    /\ rtc[r] = "absent"
    /\ rtc' = [rtc EXCEPT ![r] = "up"]
    /\ UNCHANGED <<pc, grx, loop, setup, active, controlTime, inputs, rates>>

Die(r) ==
    /\ rtc[r] = "up" /\ "death" \in env.faults
    /\ rtc' = [rtc EXCEPT ![r] = "dead"]
    /\ UNCHANGED <<pc, grx, loop, setup, active, controlTime, inputs, rates>>

-----------------------------------------------------------------------------
(* _setupController() and Controller_impl::initialize().                   *)

\* A new bridge process: a new Controller_impl.
NewBridge == owned' = FALSE /\ known' = {} /\ connected' = FALSE

\* Mutant of TooFast: the check is dropped.
TooFastUnchecked(p) == FALSE

\* stepTime_ > step: the setup is refused.
TooFast(p) == SimStep > p

\* The step of the controller is read. The user may cancel when asked whether to
\* restart a process that GrxUI manages, or have it restarted. setTimeStep()
\* comes before initialize().
Setup(p) ==
    /\ pc = "off" /\ runs < env.maxRuns
    /\ runs' = runs + 1
    /\ \/ (TooFast(p) \/ env.managed) /\ UNCHANGED <<pc, step, setup>>
       \/ /\ ~TooFast(p)
          /\ pc' = "initialize" /\ step' = p
          /\ \/ UNCHANGED setup
             \/ env.managed /\ NewBridge
    /\ UNCHANGED <<loop, rtc, active, controlTime, inputs, rates>>

\* initialize() of a bridge that is owned already does nothing.
InitializeOwned ==
    /\ pc = "initialize" /\ owned
    /\ pc' = "start"
    /\ UNCHANGED <<grx, loop, rtc, setup, active, controlTime, inputs, rates>>

\* checkOutPortStepTime() answers false.
PortTooFast == \E p \in Port : PortStep[p] # 0 /\ PortStep[p] < step

\* addRtcVectorWithConnection() for the components of S: the counter starts at
\* 1 - timeRate.
Detected(S) ==
    /\ counter' = [r \in Rtc |-> IF r \in S THEN 2 * Den - 2 * Rate[r]
                                            ELSE counter[r]]
    /\ reached' = [r \in Rtc |-> IF r \in S THEN 0 ELSE reached[r]]
    /\ ticks'   = [r \in Rtc |-> IF r \in S THEN 0 ELSE ticks[r]]

\* initialize() raises ControllerException, with the bridge owned and what was
\* detected so far kept; GrxUI stops a process it manages and gives up.
Failed(S) ==
    /\ pc' = "off"
    /\ Detected(S)
    /\ \/ env.managed /\ NewBridge
       \/ ~env.managed /\ owned' = TRUE /\ known' = S /\ UNCHANGED connected
    /\ UNCHANGED <<grx, loop, rtc, active, controlTime, inputs>>

InitializeRefused ==
    /\ pc = "initialize" /\ ~owned
    /\ PortTooFast
    /\ Failed({})

\* A remote call to a component whose process has ended raises. detectRtcs()
\* ends at the first one in its first loop; or, if _narrow() is what raises,
\* which that loop catches, in its second.
InitializeBroken ==
    /\ pc = "initialize" /\ ~owned
    /\ ~PortTooFast /\ Dead # {}
    /\ \E S \in {Before(Up, Dead), Up} : Failed(S)

\* A component is not in the naming service: the first loop of detectRtcs() goes
\* on without it, the second one, over the port connections, raises. The
\* exception is neither caught nor a ControllerException, and GrxUI tries again.
InitializeNotFound ==
    /\ pc = "initialize" /\ ~owned
    /\ ~PortTooFast /\ With("absent") # {}
    /\ owned' = TRUE /\ known' = Up /\ Detected(Up)
    /\ pc' = "retry"
    /\ UNCHANGED <<grx, loop, rtc, connected, active, controlTime, inputs>>

InitializeOk ==
    /\ pc = "initialize" /\ ~owned
    /\ ~PortTooFast /\ Up = Rtc
    /\ owned' = TRUE /\ known' = Rtc /\ Detected(Rtc) /\ connected' = TRUE
    /\ pc' = "start"
    /\ UNCHANGED <<grx, loop, rtc, active, controlTime, inputs>>

\* One second later the loop of _setupController() starts over; after
\* WAIT_COUNT_ the user may give up.
Retry ==
    /\ pc = "retry"
    /\ pc' \in {"initialize", "off"}
    /\ UNCHANGED <<grx, loop, rtc, setup, active, controlTime, inputs, rates>>

\* Mutant of StartTime: start() does not reset the time.
StartTimeKept == controlTime

\* controlTime = 0.0
StartTime == 0

\* start() activates the components in order; what a dead one raises is caught
\* in start(). The simulation begins.
Start ==
    /\ pc = "start"
    /\ controlTime' = StartTime
    /\ active' = active \cup Before(known, known \cap Dead)
    /\ simTime' = 0 /\ doCount' = 0 /\ doFlag' = FALSE
    /\ inputs' = [p \in Port |-> 0]
    /\ pc' = "input"
    /\ UNCHANGED <<grx, rtc, setup, rates>>

-----------------------------------------------------------------------------
(* One step of the simulation: input, control, output.                     *)

\* doCount_ <= time/stepTime_, exact when time is 0.
MayBeDue == doCount * step <= simTime
MayBeEarly == doCount * step >= simTime /\ simTime > 0

\* Mutant of Offset: no rounding to the nearest control cycle.
OffsetTruncated(p) == 2 * (controlTime % PortStep[p])

\* w of a port, doubled: the time since the last multiple of its step, plus half
\* a control step.
Offset(p) == 2 * (controlTime % PortStep[p]) + step

\* if (w >= stepTime) w = 0; if (w < controlTimeStep) ...
MayInput(p) == \/ PortStep[p] = 0
               \/ Offset(p) >= 2 * PortStep[p]
               \/ Offset(p) <= 2 * step
MaySkip(p)  == /\ PortStep[p] # 0
               /\ Offset(p) <= 2 * PortStep[p]
               /\ Offset(p) >= 2 * step

\* attr.input(simTime_), then simTime_ += stepTime_.
Advance ==
    /\ pc = "input" /\ simTime <= env.totalTime
    /\ simTime' = simTime + SimStep
    /\ pc' = "control"
    /\ UNCHANGED <<grx, rtc, setup, active, controlTime, rates>>

InputEarly ==
    /\ Advance
    /\ MayBeEarly
    /\ doFlag' = FALSE
    /\ UNCHANGED <<doCount, inputs>>

\* The ports in I get the data of the simulator.
Input(I) ==
    /\ Advance
    /\ MayBeDue
    /\ I \subseteq {p \in Port : MayInput(p)}
    /\ Port \ I \subseteq {p \in Port : MaySkip(p)}
    /\ doFlag' = TRUE /\ doCount' = doCount + 1
    /\ inputs' = [p \in Port |-> IF p \in I THEN inputs[p] + 1 ELSE inputs[p]]

\* Some of the ports got their data when input() raised; GrxUI logs it, and
\* calls control() and output() all the same.
InputRaises(I) ==
    /\ "input" \in env.faults
    /\ Advance
    /\ MayBeDue
    /\ I \subseteq {p \in Port : MayInput(p)}
    /\ doFlag' = TRUE /\ doCount' = doCount + 1
    /\ inputs' = [p \in Port |-> IF p \in I THEN inputs[p] + 1 ELSE inputs[p]]

\* control() of a cycle that is not due.
NoControl ==
    /\ pc = "control" /\ ~doFlag
    /\ pc' = "input"
    /\ UNCHANGED <<grx, loop, rtc, setup, active, controlTime, inputs, rates>>

\* Mutant of Threshold: the half rate is forgotten.
ThresholdFull(r) == counter[r] + 2 * Rate[r]

\* timeRateCounter + timeRate/2.0, after timeRateCounter += timeRate
Threshold(r) == counter[r] + 2 * Rate[r] + Rate[r]

MayTick(r) == Threshold(r) >= 2 * Den
MayWait(r) == Threshold(r) <= 2 * Den

\* Mutant of AfterTick: the counter starts over.
AfterTickZero(r) == 0

\* timeRateCounter -= 1.0
AfterTick(r) == counter[r] + 2 * Rate[r] - 2 * Den

\* control() of the bridge: the components in T are to be ticked. The tick of a
\* dead one raises out of control(): the components behind it are not reached,
\* the in ports are not read and controlTime is not advanced. output() follows.
Control(T) ==
    /\ pc = "control" /\ doFlag
    /\ T \subseteq {r \in known : MayTick(r)}
    /\ known \ T \subseteq {r \in known : MayWait(r)}
    /\ LET raising == T \cap Dead
           passed  == Before(known, raising)
           came    == {r \in known : \A d \in raising : r <= d}
       IN  /\ counter' = [r \in Rtc |->
                 IF r \in T \cap passed THEN AfterTick(r)
                 ELSE IF r \in came THEN counter[r] + 2 * Rate[r]
                 ELSE counter[r]]
           /\ ticks' = [r \in Rtc |-> IF r \in T \cap passed THEN ticks[r] + 1
                                                             ELSE ticks[r]]
           /\ reached' = [r \in Rtc |-> IF r \in came THEN reached[r] + 1
                                                      ELSE reached[r]]
           /\ controlTime' = IF raising = {} THEN controlTime + step
                                             ELSE controlTime
    /\ pc' = "input"
    /\ UNCHANGED <<grx, loop, rtc, setup, active, inputs>>

\* Mutant of Deactivated: a component that was never ticked is left out.
DeactivatedTicked == {r \in active : ticks[r] = 0}

\* deactiveComponents(): all components are deactivated and then ticked; a dead
\* one raises before any of the ticks.
Deactivated == IF known \cap Dead = {} THEN active \ known ELSE active

\* The total time is over or the user stops; endOfSimulation() calls stop().
Finish ==
    /\ pc = "input"
    /\ active' = Deactivated
    /\ pc' = "off"
    /\ UNCHANGED <<grx, loop, rtc, setup, controlTime, inputs, rates>>

-----------------------------------------------------------------------------

SetupNext ==
    \/ \E p \in env.ctrlSteps : Setup(p)
    \/ InitializeOwned \/ InitializeRefused \/ InitializeBroken
    \/ InitializeNotFound \/ InitializeOk \/ Retry \/ Start

StepNext ==
    \/ InputEarly \/ NoControl \/ Finish
    \/ \E I \in SUBSET Port : Input(I) \/ InputRaises(I)
    \/ \E T \in SUBSET known : Control(T)

Next ==
    /\ \/ SetupNext \/ StepNext
       \/ \E r \in Rtc : Register(r) \/ Die(r)
    /\ UNCHANGED env

Spec == Init /\ [][Next]_vars

-----------------------------------------------------------------------------
(* Properties.                                                             *)

Pcs == {"off", "initialize", "retry", "start", "input", "control"}
Running == pc \in {"input", "control"}

\* Types; the counter of a living component stays within one period.
TypeOK ==
    /\ pc \in Pcs /\ runs \in 0..env.maxRuns /\ simTime \in Nat
    /\ step \in env.ctrlSteps \cup {0} /\ doCount \in Nat /\ doFlag \in BOOLEAN
    /\ rtc \in [Rtc -> {"absent", "up", "dead"}]
    /\ owned \in BOOLEAN /\ connected \in BOOLEAN
    /\ known \subseteq Rtc /\ active \subseteq Rtc
    /\ controlTime \in Nat
    /\ counter \in [Rtc -> Int]
    /\ \A r \in known : rtc[r] = "up" =>
          counter[r] \in -Rate[r] .. (2 * Den - Rate[r])
    /\ inputs \in [Port -> Nat]
    /\ reached \in [Rtc -> Nat] /\ ticks \in [Rtc -> Nat]

\* The control cycles of GrxUI neither drift nor pile up: cycle k is not run
\* before time k*step and at most one simulation step after it, whatever the
\* controller raises. This is what the refusal of a control time below the
\* simulation step is for.
ControlOnSchedule ==
    pc = "input" =>
        /\ doCount * step >= simTime - SimStep
        /\ doCount > 0 => (doCount - 1) * step + SimStep <= simTime

\* The time the bridge stamps on the sensor data, which it adds up by itself,
\* stays within one control step of GrxUI's simulation time, if nothing raises.
ClocksAgree ==
    pc = "input" /\ env.faults = {} =>
        /\ controlTime >= simTime - SimStep
        /\ controlTime <= simTime - SimStep + step

\* An out port with a step of its own is served at the control cycle nearest to
\* each multiple of that step, once, although the test is made on the remainder
\* of a sum of doubles (apart from multiples halfway between two cycles, and if
\* nothing raises).
PortOnSchedule ==
    pc = "input" /\ step % 2 = 1 /\ env.faults = {} =>
        \A p \in Port : PortStep[p] >= step =>
            /\ 2 * inputs[p] * PortStep[p] > 2 * controlTime - step
            /\ 2 * inputs[p] * PortStep[p]
                  <= 2 * controlTime - step + 2 * PortStep[p]

\* Over any number of simulations a living component is ticked at its rate: the
\* accumulated fractions never lose or add a tick, even when a component behind
\* it in rtcInfoVector is dead.
TicksTrackRate ==
    \A r \in known : rtc[r] = "up" =>
        /\ 2 * Den * ticks[r] >= (2 * reached[r] - 1) * Rate[r]
        /\ 2 * Den * ticks[r] <= (2 * reached[r] - 1) * Rate[r] + 2 * Den

\* With no failure, all components are active in a simulation and none after. A
\* bridge must be one that GrxUI restarts after it has refused an initialize():
\* any other stays owned with no component detected.
ActiveWhileRunning ==
    env.faults = {} /\ env.managed =>
        /\ Running => active = Rtc
        /\ pc = "off" => active = {}

\* Controller.idl: the RTC part is initialised by initialize(), before start().
\* So a simulation runs only with all components known and connected.
InitialisedBeforeStart == Running => connected

=============================================================================
