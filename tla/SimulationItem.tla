--------------------------- MODULE SimulationItem ---------------------------
(***************************************************************************)
(* GrxSimulationItem: how GrxUI starts, supervises and ends a simulation.  *)
(* Three kinds of threads share its fields:                                *)
(*  - the UI thread: the toolbar action StartSimulate, startSimulation(),  *)
(*    and a Runnable re-armed every 10 ms with Display.timerExec;          *)
(*  - simulation threads, one per accepted startSimulation();              *)
(*  - a script thread that starts simulations through syncExec and blocks  *)
(*    in waitStopSimulation().                                             *)
(* isExecuting_ and simThreadState_ are plain fields, read and written     *)
(* with no common lock. lock_, lock2_ and lock3_ are Java monitors: a      *)
(* notify reaches only a thread that already waits.                        *)
(***************************************************************************)
EXTENDS Naturals, FiniteSets

CONSTANTS
    Thread,        \* simulation threads; one that ended stands for a new one
    Steps,         \* bound: simulation steps before the total time is over
    MaxExtend,     \* bound: how often the user extends the total time
    SimulateView,  \* isSimulatingView_
    Environments   \* the environments to consider; each is a record of
                   \*  scriptRuns: how many simulations a script starts (0: none)
                   \*  faults: which of FaultKinds may happen
                   \*  patient: no click while the icon of the action is stale
                   \*  prompt: within interval_ a leaving thread is gone and a
                   \*    script that has started a simulation waits for its end

\* startSimulation() fails in its setup; resetClockReceivers() raises out of it;
\* a remote call of a step raises; the view update raises on the UI thread; the
\* user interrupts the script.
FaultKinds == {"setup", "clock", "step", "view", "interrupt"}

ASSUME SimulationAssumption ==
    /\ Steps \in Nat /\ MaxExtend \in Nat /\ SimulateView \in BOOLEAN
    /\ \A e \in Environments :
          /\ e.scriptRuns \in Nat /\ e.faults \subseteq FaultKinds
          /\ {e.patient, e.prompt} \subseteq BOOLEAN

VARIABLES
    isExecuting,      \* isExecuting_
    simThreadState,   \* simThreadState_
    isInteractive,    \* isInteractive_
    viewUpdate,       \* viewSimulationUpdate_
    left,             \* steps until simTime_ > totalTime_
    extended,         \* how often the total time was extended in this run
    lock,             \* who is inside synchronized(lock_): "free" or "sim"
    th,               \* control point of each simulation thread
    timers,           \* supervising Runnables armed with timerExec
    ui,               \* control point of the UI thread
    caller,           \* who called startSimulation(): "action" or "script"
    action,           \* the toolbar action: its icon and whether it is enabled
    controllers,      \* whether the controllers are "active" or "stopped"
    script,           \* control point of the script thread
    runsLeft,         \* simulations the script has still to start
    env               \* the environment of this behaviour

flags    == <<isExecuting, simThreadState>>
clock    == <<left, extended>>
monitors == <<viewUpdate, lock>>
buttons  == <<action, controllers, isInteractive>>
gui      == <<timers, ui, caller, action, controllers, isInteractive>>
scripts  == <<script, runsLeft, env>>
vars     == <<isExecuting, simThreadState, isInteractive, viewUpdate, left,
              extended, lock, th, timers, ui, caller, action, controllers,
              script, runsLeft, env>>

\* Created and not yet at the end of run().
Live == {t \in Thread : th[t] # "dead"}
\* Inside the part of simulateOneStep that calls controllers and dynamics.
Stepping == {t \in Thread : th[t] \in {"step", "view", "viewWait", "output"}}
\* On the way out: the loop is over, or the end was decided while it waited.
Leaving == {t \in Thread :
               \/ th[t] \in {"exit", "exitState", "raise", "raiseState"}
               \/ th[t] = "woken" /\ simThreadState = "STOP"}

Init ==
    /\ isExecuting = FALSE /\ simThreadState = "EXEC" /\ isInteractive = TRUE
    /\ viewUpdate = FALSE /\ lock = "free"
    /\ left = 0 /\ extended = 0
    /\ th = [t \in Thread |-> "dead"]
    /\ timers = 0 /\ ui = "idle" /\ caller = "action"
    /\ action = [icon |-> "start", enabled |-> TRUE]
    /\ controllers = "stopped"
    /\ env \in Environments
    /\ script = (IF env.scriptRuns > 0 THEN "start" ELSE "done")
    /\ runsLeft = env.scriptRuns

-----------------------------------------------------------------------------
(* The toolbar action and startSimulation(), on the UI thread.             *)

\* The icon says what a click will do.
IconTrue == (action.icon = "stop") = isExecuting

\* Mutant of StopSimulation: tells the supervisor at once.
StopSimulationAtOnce == isExecuting' = FALSE /\ simThreadState' = "STOP"

\* stopSimulation()
StopSimulation == isExecuting' = FALSE /\ UNCHANGED simThreadState

\* StartSimulate.run(): stop when simulating, otherwise start; either way the
\* action is disabled first. While a script drives, the user only stops.
Click ==
    /\ ui = "idle" /\ action.enabled
    /\ env.patient => IconTrue
    /\ action' = [action EXCEPT !.enabled = FALSE]
    /\ \/ isExecuting /\ StopSimulation /\ UNCHANGED <<ui, caller>>
       \/ /\ ~isExecuting /\ env.scriptRuns = 0
          /\ ui' = "start" /\ caller' = "action"
          /\ UNCHANGED flags
    /\ UNCHANGED <<monitors, clock, th, timers, controllers, isInteractive,
                   scripts>>

\* The script's syncExec(startSimulation(0)) reaches the UI thread.
ScriptStart ==
    /\ ui = "idle" /\ script = "start" /\ runsLeft > 0
    /\ ui' = "start" /\ caller' = "script"
    /\ script' = "starting"
    /\ UNCHANGED <<flags, monitors, clock, th, timers, buttons, runsLeft, env>>

\* startSimulation() returns. StartSimulate.run() enables the action again
\* after a failure; the script ignores the result.
Return ==
    /\ ui' = "idle"
    /\ script' = IF caller = "script" THEN "wait" ELSE script
    /\ runsLeft' = IF caller = "script" THEN runsLeft - 1 ELSE runsLeft
    /\ UNCHANGED env

ReturnFalse ==
    /\ Return
    /\ action' = [action EXCEPT !.enabled = @ \/ caller = "action"]

\* if (isExecuting_) return false; isInteractive_ = isInteractive
StartCheck ==
    /\ ui = "start"
    /\ \/ isExecuting /\ ReturnFalse /\ UNCHANGED isInteractive
       \/ /\ ~isExecuting
          /\ ui' = "setup"
          /\ isInteractive' = (caller = "action")
          /\ UNCHANGED <<action, scripts>>
    /\ UNCHANGED <<flags, monitors, clock, th, timers, caller, controllers>>

\* No world item, a refused dialog, bad times, or a failing initDynamics-
\* Simulator or initController: return false. Controllers that were already
\* set up are left as they are.
StartFail ==
    /\ ui = "setup" /\ "setup" \in env.faults
    /\ ReturnFalse
    /\ controllers' \in {controllers, "active"}
    /\ UNCHANGED <<flags, monitors, clock, th, timers, caller, isInteractive>>

\* resetClockReceivers() raises after "StartSimulation" was announced: the action
\* shows "stop", and no thread and no Runnable exist. A script ends with the
\* exception.
ClockRaises ==
    /\ ui = "setup" /\ "clock" \in env.faults
    /\ ui' = "idle"
    /\ action' = [icon |-> "stop", enabled |-> TRUE]
    /\ controllers' = "active"
    /\ script' = IF caller = "script" THEN "done" ELSE script
    /\ UNCHANGED <<flags, monitors, clock, th, timers, caller, isInteractive,
                   runsLeft, env>>

\* initController() succeeded; the observers hear "StartSimulation" (the action
\* shows "stop" and is enabled); fields are reset, the thread is created and
\* started and the supervising Runnable is armed.
StartRun(t) ==
    /\ ui = "setup" /\ th[t] = "dead"
    /\ Return
    /\ action' = [icon |-> "stop", enabled |-> TRUE]
    /\ controllers' = "active"
    /\ left' = Steps /\ extended' = 0
    /\ simThreadState' = "EXEC"
    /\ viewUpdate' = FALSE
    /\ th' = [th EXCEPT ![t] = "started"]
    /\ timers' = timers + 1
    /\ UNCHANGED <<isExecuting, lock, caller, isInteractive>>

-----------------------------------------------------------------------------
(* The simulation thread, _createSimulationThread().                       *)

Goto(t, pc) == th' = [th EXCEPT ![t] = pc]

ThreadBegin(t) ==
    /\ th[t] = "started"
    /\ isExecuting' = TRUE
    /\ Goto(t, "loop")
    /\ UNCHANGED <<simThreadState, monitors, clock, gui, scripts>>

\* while (isExecuting_)
LoopTest(t) ==
    /\ th[t] = "loop"
    /\ Goto(t, IF isExecuting THEN "step" ELSE "exit")
    /\ UNCHANGED <<flags, monitors, clock, gui, scripts>>

\* simTime_ > totalTime_
TimeOver == left = 0

\* simulateOneStep(): false when the total time is over.
StepTimeOver(t) ==
    /\ th[t] = "step" /\ TimeOver
    /\ Goto(t, "timeOver")
    /\ UNCHANGED <<flags, monitors, clock, gui, scripts>>

\* simulateOneStep(): input, control, clock, dynamics and log. A view update
\* may be due.
Step(t) ==
    /\ th[t] = "step" /\ ~TimeOver
    /\ left' = left - 1
    /\ \/ SimulateView /\ Goto(t, "view")
       \/ Goto(t, "output")
    /\ UNCHANGED <<flags, monitors, extended, gui, scripts>>

\* A remote call to the dynamics simulator, the clock or the log raises out of
\* simulateOneStep(); what the controllers raise is caught around each call.
StepRaises(t) ==
    /\ "step" \in env.faults /\ th[t] = "step" /\ ~TimeOver
    /\ Goto(t, "raise")
    /\ UNCHANGED <<flags, monitors, clock, gui, scripts>>

\* synchronized(lock3_) { viewSimulationUpdate_ = true; lock3_.wait(); }
ViewRequest(t) ==
    /\ th[t] = "view"
    /\ viewUpdate' = TRUE
    /\ Goto(t, "viewWait")
    /\ UNCHANGED <<flags, lock, clock, gui, scripts>>

\* Controller outputs, then the next turn of the loop.
StepOutput(t) ==
    /\ th[t] = "output"
    /\ Goto(t, "loop")
    /\ UNCHANGED <<flags, monitors, clock, gui, scripts>>

\* synchronized(lock_) { simThreadState_ = TIMEOVER; ...
TimeOverEnter(t) ==
    /\ th[t] = "timeOver" /\ lock = "free"
    /\ lock' = "sim"
    /\ simThreadState' = "TIMEOVER"
    /\ Goto(t, "timeOverLocked")
    /\ UNCHANGED <<isExecuting, viewUpdate, clock, gui, scripts>>

\* ... lock_.wait(); } which releases the monitor.
TimeOverWait(t) ==
    /\ th[t] = "timeOverLocked"
    /\ lock' = "free"
    /\ Goto(t, "timeOverWait")
    /\ UNCHANGED <<flags, viewUpdate, clock, gui, scripts>>

\* if (simThreadState_ == STOP) break
TimeOverWoken(t) ==
    /\ th[t] = "woken"
    /\ Goto(t, IF simThreadState = "STOP" THEN "exit" ELSE "loop")
    /\ UNCHANGED <<flags, monitors, clock, gui, scripts>>

\* isExecuting_ = false, after the loop or in the catch block.
Exit(t) ==
    /\ th[t] \in {"exit", "raise"}
    /\ isExecuting' = FALSE
    /\ Goto(t, IF th[t] = "exit" THEN "exitState" ELSE "raiseState")
    /\ UNCHANGED <<simThreadState, monitors, clock, gui, scripts>>

\* simThreadState_ = STOP, or INTERRUPT in the catch block; run() ends.
ExitState(t) ==
    /\ th[t] \in {"exitState", "raiseState"}
    /\ simThreadState' = IF th[t] = "exitState" THEN "STOP" ELSE "INTERRUPT"
    /\ Goto(t, "dead")
    /\ UNCHANGED <<isExecuting, monitors, clock, gui, scripts>>

-----------------------------------------------------------------------------
(* The supervising Runnable, on the UI thread.                             *)

\* The timer expires and switch(simThreadState_) picks a branch.
TimerFires ==
    /\ ui = "idle" /\ timers > 0
    /\ env.prompt => Leaving = {} /\ script # "wait"
    /\ timers' = timers - 1
    /\ ui' = CASE simThreadState = "TIMEOVER"  -> "ask"
               [] simThreadState = "EXEC"      -> "view"
               [] simThreadState = "STOP"      -> "end"
               [] simThreadState = "INTERRUPT" -> "endInterrupt"
    /\ UNCHANGED <<flags, monitors, clock, th, caller, buttons, scripts>>

\* extendTime() adds some time, maybe not enough; a run that is not interactive
\* is never extended.
AskExtend ==
    /\ ui = "ask" /\ isInteractive /\ extended < MaxExtend
    /\ left' \in 0..Steps /\ extended' = extended + 1
    /\ simThreadState' = "EXEC"
    /\ ui' = "notify"
    /\ UNCHANGED <<isExecuting, monitors, th, timers, caller, buttons, scripts>>

\* extendTime() answers false.
AskStop ==
    /\ ui = "ask"
    /\ simThreadState' = "STOP"
    /\ ui' = "notify"
    /\ UNCHANGED <<isExecuting, monitors, clock, th, timers, caller, buttons,
                   scripts>>

\* Mutant of CanNotify: notifyAll() is called without the monitor.
CanNotifyUnlocked == TRUE

\* Entering synchronized(lock_).
CanNotify == lock = "free"

\* Mutant of AfterNotify: a break ends case TIMEOVER.
AfterNotifyBreak == "idle"

\* Case TIMEOVER falls through into case EXEC.
AfterNotify == "view"

\* synchronized(lock_) { lock_.notifyAll(); }
NotifyTimeOver ==
    /\ ui = "notify" /\ CanNotify
    /\ th' = [t \in Thread |->
                 IF th[t] = "timeOverWait" THEN "woken" ELSE th[t]]
    /\ ui' = AfterNotify
    /\ UNCHANGED <<flags, monitors, clock, timers, caller, buttons, scripts>>

ViewDue == SimulateView /\ viewUpdate

\* Case EXEC: the view is updated from wsx_ when the simulation asks for it;
\* display.timerExec(interval_, this) follows.
ViewDraw ==
    /\ ui = "view"
    /\ ui' = IF ViewDue THEN "drawn" ELSE "rearm"
    /\ UNCHANGED <<flags, monitors, clock, th, timers, caller, buttons, scripts>>

\* The view update raises; the event loop logs it and nothing is armed again.
ViewRaises ==
    /\ ui = "view" /\ ViewDue /\ "view" \in env.faults
    /\ ui' = "idle"
    /\ UNCHANGED <<flags, monitors, clock, th, timers, caller, buttons, scripts>>

\* Mutant of ViewShown: the request is not cleared.
ViewShownForgotten == viewUpdate

\* viewSimulationUpdate_ = false
ViewShown == FALSE

\* synchronized(lock3_) { viewSimulationUpdate_ = false; lock3_.notify(); }
ViewNotify ==
    /\ ui = "drawn"
    /\ viewUpdate' = ViewShown
    /\ \/ \E t \in Thread : th[t] = "viewWait" /\ Goto(t, "output")
       \/ (\A t \in Thread : th[t] # "viewWait") /\ UNCHANGED th
    /\ ui' = "rearm"
    /\ UNCHANGED <<flags, lock, clock, timers, caller, buttons, scripts>>

Rearm ==
    /\ ui = "rearm"
    /\ timers' = timers + 1
    /\ ui' = "idle"
    /\ UNCHANGED <<flags, monitors, clock, th, caller, buttons, scripts>>

\* Mutant of StoppedAction: setEnabled(true) is forgotten.
StoppedActionDisabled == [action EXCEPT !.icon = "start"]

\* StartSimulate.update("StopSimulation")
StoppedAction == [icon |-> "start", enabled |-> TRUE]

\* endOfSimulation(): controllers are deactivated, the observers hear
\* "StopSimulation" and the action shows "start" and is enabled.
EndOfSimulation ==
    /\ controllers' = "stopped"
    /\ action' = StoppedAction
    /\ isInteractive' = FALSE

\* Mutant of WakeScript: lock2_ is not notified.
WakeScriptForgotten == script

\* synchronized(lock2_) { lock2_.notifyAll(); }
WakeScript == IF script = "waiting" THEN "start" ELSE script

\* Case STOP: endOfSimulation(), then lock2_.notifyAll().
EndStop ==
    /\ ui = "end"
    /\ EndOfSimulation
    /\ script' = WakeScript
    /\ ui' = "idle"
    /\ UNCHANGED <<flags, monitors, clock, th, timers, caller, runsLeft, env>>

\* Case INTERRUPT: the error dialog is closed, then endOfSimulation().
EndInterrupt ==
    /\ ui = "endInterrupt"
    /\ EndOfSimulation
    /\ ui' = "idle"
    /\ UNCHANGED <<flags, monitors, clock, th, timers, caller, scripts>>

-----------------------------------------------------------------------------
(* The script thread.                                                      *)

\* waitStopSimulation(): synchronized(lock2_) { lock2_.wait(); }
ScriptWait ==
    /\ script = "wait"
    /\ script' = "waiting"
    /\ UNCHANGED <<flags, monitors, clock, th, gui, runsLeft, env>>

\* An interrupted wait calls stopSimulation() and leaves the script.
ScriptInterrupt ==
    /\ script = "waiting" /\ "interrupt" \in env.faults
    /\ StopSimulation
    /\ script' = "done"
    /\ UNCHANGED <<monitors, clock, th, gui, runsLeft, env>>

\* The loop of the script is over.
ScriptDone ==
    /\ script = "start" /\ runsLeft = 0
    /\ script' = "done"
    /\ UNCHANGED <<flags, monitors, clock, th, gui, runsLeft, env>>

-----------------------------------------------------------------------------

ThreadNext(t) ==
    \/ ThreadBegin(t) \/ LoopTest(t) \/ StepTimeOver(t) \/ Step(t)
    \/ StepRaises(t) \/ ViewRequest(t) \/ StepOutput(t)
    \/ TimeOverEnter(t) \/ TimeOverWait(t) \/ TimeOverWoken(t)
    \/ Exit(t) \/ ExitState(t)

StartNext ==
    \/ StartCheck \/ StartFail \/ ClockRaises
    \/ \E t \in Thread : StartRun(t)

TimerNext ==
    \/ TimerFires \/ AskExtend \/ AskStop \/ NotifyTimeOver \/ ViewDraw
    \/ ViewRaises \/ ViewNotify \/ Rearm \/ EndStop \/ EndInterrupt

ScriptNext == ScriptStart \/ ScriptWait \/ ScriptDone

Next ==
    \/ Click \/ StartNext \/ TimerNext \/ ScriptNext \/ ScriptInterrupt
    \/ \E t \in Thread : ThreadNext(t)

\* Threads are scheduled, the UI thread dispatches its events and finishes its
\* handlers, dialogs are answered. Clicks and interrupts are up to the user.
Fairness ==
    /\ \A t \in Thread : WF_vars(ThreadNext(t))
    /\ WF_vars(StartNext)
    /\ WF_vars(TimerNext)
    /\ WF_vars(ScriptNext)

Spec == Init /\ [][Next]_vars /\ Fairness

-----------------------------------------------------------------------------
(* Properties.                                                             *)

States == {"EXEC", "TIMEOVER", "STOP", "INTERRUPT"}
ThreadPcs == {"started", "loop", "step", "view", "viewWait", "output",
              "timeOver", "timeOverLocked", "timeOverWait", "woken",
              "exit", "exitState", "raise", "raiseState", "dead"}
UiPcs == {"idle", "start", "setup", "ask", "notify", "view", "drawn", "rearm",
          "end", "endInterrupt"}

\* Types; in particular the steps left never go below zero: a thread whose time
\* is over makes no step before it is extended.
TypeOK ==
    /\ isExecuting \in BOOLEAN /\ simThreadState \in States
    /\ isInteractive \in BOOLEAN /\ viewUpdate \in BOOLEAN
    /\ left \in 0..Steps /\ extended \in 0..MaxExtend
    /\ lock \in {"free", "sim"}
    /\ th \in [Thread -> ThreadPcs]
    /\ timers \in Nat /\ ui \in UiPcs /\ caller \in {"action", "script"}
    /\ action \in [icon : {"start", "stop"}, enabled : BOOLEAN]
    /\ controllers \in {"active", "stopped"}
    /\ script \in {"start", "starting", "wait", "waiting", "done"}
    /\ runsLeft \in 0..env.scriptRuns

\* startSimulation() refuses to start while a simulation is executing: at most
\* one simulation thread is between its creation and the end of its run(), given
\* that a thread that has decided to end does so before the supervisor looks.
OneSimulationThread == env.prompt => Cardinality(Live) <= 1

\* A supervising Runnable that is armed or in the middle of a run.
Supervisors ==
    timers + IF ui \in {"ask", "notify", "view", "drawn", "rearm", "end",
                        "endInterrupt"} THEN 1 ELSE 0

\* No exception reaches the UI thread, and nobody interrupts the script.
UiUndisturbed == env.faults \subseteq {"setup", "step"}

\* From startSimulation() to endOfSimulation() exactly one supervising Runnable
\* exists, and none outside: a running simulation never loses its supervisor,
\* and none is left over that would end the next simulation.
SupervisedOnce ==
    UiUndisturbed => Supervisors = IF action.icon = "stop" THEN 1 ELSE 0

\* endOfSimulation() has deactivated the controllers only when no simulation
\* thread is still inside a step that uses them, given prompt threads.
NoStepAfterEnd == env.prompt /\ Stepping # {} => controllers = "active"

\* The UI thread draws wsx_ only while the simulation thread that filled it
\* stays parked in lock3_.wait().
DrawsParkedState == ui = "drawn" => \E t \in Thread : th[t] = "viewWait"

\* Timing and failures under which a simulation is not torn apart.
Orderly == UiUndisturbed /\ env.prompt

\* Every simulation thread that is started comes to its end: no wait on lock_
\* or lock3_ loses its notification.
ThreadEnds ==
    \A t \in Thread : Orderly /\ th[t] = "started" ~> th[t] = "dead"

\* A toolbar action that was disabled by a click is enabled again.
ActionComesBack == Orderly /\ ~action.enabled ~> action.enabled

\* A script blocked in waitStopSimulation() returns from it when nothing fails:
\* every simulation it waits for ends with a notification of lock2_ that finds
\* it waiting. (After a step that raises nobody notifies lock2_.)
ScriptReturnsUnharmed ==
    env.faults = {} /\ script = "waiting" ~> script # "waiting"

\* The lifecycle as the observers see it in an orderly environment.
Phase == CASE ~Orderly \/ action.icon = "start" -> "off"
           [] Orderly /\ action.icon = "stop" /\ Live # {} -> "on"
           [] Orderly /\ action.icon = "stop" /\ Live = {} -> "over"

Lifecycle == INSTANCE SimulationLifecycle WITH
    phase <- Phase, controllers <- IF Orderly THEN controllers ELSE "stopped"

\* The supervised threads implement the abstract lifecycle: "StopSimulation" is
\* announced once per simulation, after its thread is gone, and always comes.
ImplementsLifecycle == Lifecycle!Spec

=============================================================================
