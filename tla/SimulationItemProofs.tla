------------------------ MODULE SimulationItemProofs ------------------------
(* Proofs that SimulationItem's safety properties hold for any number of   *)
(* threads and steps, and that it implements the steps of the lifecycle.   *)
EXTENDS SimulationItem, FiniteSetTheorems, TLAPS

-----------------------------------------------------------------------------
(* The inductive invariant.                                                *)

AllDead == \A t \in Thread : th[t] = "dead"

\* Who runs startSimulation(), and what the script has still to do.
CallerOK ==
    /\ env.scriptRuns = 0 => script = "done"
    /\ ui \in {"start", "setup"} => (caller = "script" <=> env.scriptRuns > 0)
    /\ ui \in {"start", "setup"} /\ caller = "script" =>
          script = "starting" /\ runsLeft > 0

\* The view is due, or drawn, only while a thread is parked for it.
Parked ==
    viewUpdate \/ ui = "drawn" => \E t \in Thread : th[t] = "viewWait"

\* The icon counts the supervisors; whoever may start sees the icon "start".
CountedOnce ==
    UiUndisturbed /\ env.patient =>
        /\ timers + (IF ui \in {"ask", "notify", "view", "drawn", "rearm", "end",
                                "endInterrupt"} THEN 1 ELSE 0)
              = (IF action.icon = "stop" THEN 1 ELSE 0)
        /\ ui \in {"start", "setup"} \/ script = "start" => action.icon = "start"

\* At most one thread, none where one may be created or where the end is announced.
AtMostOne ==
    \A t, u \in Thread : th[t] # "dead" /\ th[u] # "dead" => t = u

NoneAround ==
    (action.icon = "start" \/ script = "start" \/ simThreadState = "INTERRUPT"
        \/ ui \in {"start", "setup", "end", "endInterrupt"}) => AllDead

\* Where a thread can be, given simThreadState_, the supervisor and lock_: one that is
\* told to stop is on its way out, or waits until it is notified.
DecidedAt(pc, state, at, monitor) ==
    /\ state = "STOP" =>
          \/ pc \in {"dead", "woken", "exit", "exitState"}
          \/ at = "notify" /\ pc \in {"timeOverLocked", "timeOverWait"}
    /\ state = "TIMEOVER" \/ at \in {"ask", "notify"} =>
          pc \in {"dead", "timeOverLocked", "timeOverWait"}
    /\ at = "notify" => state # "TIMEOVER"
    /\ monitor = "free" => pc # "timeOverLocked"

Decided == \A t \in Thread : DecidedAt(th[t], simThreadState, ui, lock)

Ordered ==
    env.prompt /\ env.patient =>
        /\ AtMostOne /\ NoneAround /\ Decided
        /\ controllers = "active" \/ AllDead

\* The inductive invariant.
SimulationInv ==
    /\ TypeOK /\ env \in Environments
    /\ CallerOK /\ Parked /\ CountedOnce /\ Ordered

-----------------------------------------------------------------------------
(* Types, and who called startSimulation().                                *)

\* What every step of a simulation thread leaves alone.
LEMMA ThreadFrame ==
    ASSUME NEW t \in Thread, ThreadNext(t)
    PROVE  /\ UNCHANGED <<gui, scripts>> /\ UNCHANGED extended
           /\ left' = left \/ (left # 0 /\ left' = left - 1)
           /\ isExecuting' = isExecuting \/ isExecuting' \in BOOLEAN
           /\ simThreadState' \in {simThreadState, "TIMEOVER", "STOP", "INTERRUPT"}
           /\ lock' \in {lock, "sim", "free"} /\ viewUpdate' \in {viewUpdate, TRUE}
           /\ \E pc \in ThreadPcs : Goto(t, pc)
<1> USE DEF ThreadPcs, flags, monitors, clock
<1>1. CASE ThreadBegin(t) \/ LoopTest(t)
  BY <1>1 DEF ThreadBegin, LoopTest
<1>2. CASE StepTimeOver(t) \/ StepRaises(t)
  BY <1>2 DEF StepTimeOver, StepRaises
<1>3. CASE Step(t)
  BY <1>3 DEF Step, TimeOver
<1>4. CASE ViewRequest(t) \/ StepOutput(t)
  BY <1>4 DEF ViewRequest, StepOutput
<1>5. CASE TimeOverEnter(t) \/ TimeOverWait(t)
  BY <1>5 DEF TimeOverEnter, TimeOverWait
<1>6. CASE TimeOverWoken(t)
  BY <1>6 DEF TimeOverWoken
<1>7. CASE Exit(t)
  BY <1>7 DEF Exit
<1>8. CASE ExitState(t)
  BY <1>8 DEF ExitState
<1> QED BY <1>1, <1>2, <1>3, <1>4, <1>5, <1>6, <1>7, <1>8 DEF ThreadNext

\* The toolbar action after setEnabled().
LEMMA EnabledAction ==
    ASSUME NEW a \in [icon : {"start", "stop"}, enabled : BOOLEAN], NEW b \in BOOLEAN
    PROVE  /\ [a EXCEPT !.enabled = b] \in [icon : {"start", "stop"}, enabled : BOOLEAN]
           /\ [a EXCEPT !.enabled = b].icon = a.icon
OBVIOUS

\* The return of startSimulation().
LEMMA ReturnFacts ==
    ASSUME TypeOK, CallerOK, env \in Environments, ui \in {"start", "setup"}, Return
    PROVE  /\ ui' = "idle" /\ env' = env /\ runsLeft' \in 0..env.scriptRuns
           /\ script' = (IF caller = "script" THEN "wait" ELSE "done")
           /\ env.scriptRuns = 0 => script' = "done"
           /\ script' \in {"start", "starting", "wait", "waiting", "done"}
<1>1. env.scriptRuns \in Nat /\ runsLeft \in 0..env.scriptRuns
  BY SimulationAssumption DEF TypeOK
<1>2. caller # "script" => script = "done"
  BY <1>1 DEF CallerOK
<1>3. caller = "script" => runsLeft > 0 /\ env.scriptRuns > 0
  BY <1>1 DEF CallerOK
<1> QED BY <1>1, <1>2, <1>3 DEF Return

\* The types, and the place of the caller, are kept by every step.
LEMMA TypesNext ==
    ASSUME TypeOK, CallerOK, env \in Environments, Next
    PROVE  TypeOK' /\ CallerOK' /\ env' = env
<1> USE SimulationAssumption DEF TypeOK, CallerOK, States, UiPcs
<1> USE DEF flags, clock, monitors, buttons, gui, scripts
<1>0. /\ env.scriptRuns \in Nat
      /\ action \in [icon : {"start", "stop"}, enabled : BOOLEAN]
  OBVIOUS
<1>1. CASE Click
  <2>1. /\ action' \in [icon : {"start", "stop"}, enabled : BOOLEAN]
        /\ isExecuting' \in BOOLEAN
    BY <1>0, <1>1, EnabledAction DEF Click, StopSimulation
  <2>2. \/ UNCHANGED <<ui, caller>>
        \/ env.scriptRuns = 0 /\ ui' = "start" /\ caller' = "action"
    BY <1>1 DEF Click
  <2>3. UNCHANGED <<simThreadState, monitors, clock, th, timers, controllers,
                    isInteractive, scripts>>
    BY <1>1 DEF Click, StopSimulation
  <2>4. TypeOK'
    BY <2>1, <2>2, <2>3
  <2>5. CallerOK'
    BY <1>0, <2>2, <2>3
  <2> QED BY <2>3, <2>4, <2>5
<1>2. CASE StartCheck
  <2>1. CASE ReturnFalse /\ UNCHANGED isInteractive
    <3>1. action' \in [icon : {"start", "stop"}, enabled : BOOLEAN]
      <4>1. (action.enabled \/ caller = "action") \in BOOLEAN
        OBVIOUS
      <4> QED BY <1>0, <2>1, <4>1, EnabledAction DEF ReturnFalse
    <3>2. ui \in {"start", "setup"} /\ Return
      BY <1>2, <2>1 DEF StartCheck, ReturnFalse
    <3>3. /\ ui' = "idle" /\ env' = env /\ runsLeft' \in 0..env.scriptRuns
          /\ env.scriptRuns = 0 => script' = "done"
          /\ script' \in {"start", "starting", "wait", "waiting", "done"}
      BY <3>2, ReturnFacts
    <3> QED BY <1>2, <2>1, <3>1, <3>3 DEF StartCheck
  <2>2. CASE ~ReturnFalse
    BY <1>2, <2>2 DEF StartCheck
  <2> QED BY <1>2, <2>1, <2>2 DEF StartCheck
<1>3. CASE StartFail
  <2>1. action' \in [icon : {"start", "stop"}, enabled : BOOLEAN]
    <3>1. (action.enabled \/ caller = "action") \in BOOLEAN
      OBVIOUS
    <3> QED BY <1>0, <1>3, <3>1, EnabledAction DEF StartFail, ReturnFalse
  <2>2. ui \in {"start", "setup"} /\ Return
    BY <1>3 DEF StartFail, ReturnFalse
  <2>3. /\ ui' = "idle" /\ env' = env /\ runsLeft' \in 0..env.scriptRuns
        /\ env.scriptRuns = 0 => script' = "done"
        /\ script' \in {"start", "starting", "wait", "waiting", "done"}
    BY <2>2, ReturnFacts
  <2> QED BY <1>3, <2>1, <2>3 DEF StartFail
<1>4. CASE ClockRaises
  BY <1>4 DEF ClockRaises
<1>5. ASSUME NEW t \in Thread, StartRun(t) PROVE TypeOK' /\ CallerOK' /\ env' = env
  <2>1. ui \in {"start", "setup"} /\ Return
    BY <1>5 DEF StartRun
  <2>2. /\ ui' = "idle" /\ env' = env /\ runsLeft' \in 0..env.scriptRuns
        /\ env.scriptRuns = 0 => script' = "done"
        /\ script' \in {"start", "starting", "wait", "waiting", "done"}
    BY <2>1, ReturnFacts
  <2>3. th' \in [Thread -> ThreadPcs]
    BY <1>5 DEF StartRun, ThreadPcs
  <2>4. /\ action' \in [icon : {"start", "stop"}, enabled : BOOLEAN]
        /\ controllers' = "active" /\ left' = Steps /\ extended' = 0
        /\ simThreadState' = "EXEC" /\ viewUpdate' = FALSE /\ timers' = timers + 1
        /\ UNCHANGED <<isExecuting, lock, caller, isInteractive>>
    BY <1>5 DEF StartRun
  <2>a. /\ left' \in 0..Steps /\ extended' \in 0..MaxExtend
        /\ runsLeft' \in 0..env.scriptRuns'
    BY <2>2, <2>4
  <2>c. timers' \in Nat
    BY <2>4
  <2>b. viewUpdate' \in BOOLEAN /\ isExecuting' \in BOOLEAN
        /\ isInteractive' \in BOOLEAN
    BY <2>4, Zenon
  <2>5. TypeOK'
    BY <2>2, <2>3, <2>4, <2>a, <2>b, <2>c
  <2>6. CallerOK'
    BY <2>2
  <2> QED BY <2>2, <2>5, <2>6
<1>6. CASE TimerFires
  BY <1>6 DEF TimerFires
<1>7. CASE AskExtend
  BY <1>7 DEF AskExtend
<1>8. CASE AskStop
  BY <1>8 DEF AskStop
<1>9. CASE NotifyTimeOver
  BY <1>9 DEF NotifyTimeOver, AfterNotify, ThreadPcs
<1>10. CASE ViewDraw \/ ViewRaises
  BY <1>10 DEF ViewDraw, ViewRaises
<1>11. CASE ViewNotify
  <2>1. th' \in [Thread -> ThreadPcs]
    BY <1>11 DEF ViewNotify, Goto, ThreadPcs
  <2>2. /\ ui' = "rearm" /\ viewUpdate' = FALSE
        /\ UNCHANGED <<flags, lock, clock, timers, caller, buttons, scripts>>
    BY <1>11 DEF ViewNotify, ViewShown
  <2>3. TypeOK'
    BY ZenonT(60), <2>1, <2>2
  <2>4. CallerOK'
    BY <2>2
  <2> QED BY <2>2, <2>3, <2>4
<1>12. CASE Rearm
  BY <1>12 DEF Rearm
<1>13. CASE EndStop
  BY <1>13 DEF EndStop, EndOfSimulation, StoppedAction, WakeScript
<1>14. CASE EndInterrupt
  BY <1>14 DEF EndInterrupt, EndOfSimulation, StoppedAction
<1>15. CASE ScriptStart
  BY <1>15 DEF ScriptStart
<1>16. CASE ScriptWait \/ ScriptDone
  BY <1>16 DEF ScriptWait, ScriptDone
<1>17. CASE ScriptInterrupt
  <2>1. isExecuting' \in BOOLEAN /\ simThreadState' = simThreadState
        /\ script' = "done" /\ script = "waiting"
    BY <1>17 DEF ScriptInterrupt, StopSimulation
  <2>2. UNCHANGED <<monitors, clock, th, gui, runsLeft, env>>
    BY <1>17 DEF ScriptInterrupt
  <2>3. TypeOK'
    BY <2>1, <2>2
  <2>4. CallerOK'
    BY <2>1, <2>2
  <2> QED BY <2>2, <2>3, <2>4
<1>18. ASSUME NEW t \in Thread, ThreadNext(t) PROVE TypeOK' /\ CallerOK' /\ env' = env
  <2>1. th' \in [Thread -> ThreadPcs]
    BY <1>18, ThreadFrame DEF Goto
  <2>2. left' \in 0..Steps
    <3>1. left' = left \/ (left # 0 /\ left' = left - 1)
      BY <1>18, ThreadFrame
    <3>2. left \in 0..Steps /\ Steps \in Nat
      OBVIOUS
    <3> QED BY ONLY <3>1, <3>2
  <2>3. /\ UNCHANGED <<gui, scripts>> /\ UNCHANGED extended
        /\ isExecuting' \in BOOLEAN /\ simThreadState' \in States
        /\ lock' \in {"free", "sim"} /\ viewUpdate' \in BOOLEAN
    BY <1>18, ThreadFrame
  <2>4. TypeOK'
    BY <2>1, <2>2, <2>3
  <2> QED BY <2>3, <2>4
<1> QED BY <1>1, <1>2, <1>3, <1>4, <1>5, <1>6, <1>7, <1>8, <1>9, <1>10, <1>11, <1>12,
           <1>13, <1>14, <1>15, <1>16, <1>17, <1>18
        DEF Next, StartNext, TimerNext, ScriptNext

-----------------------------------------------------------------------------
(* The view and its parked thread.                                         *)

\* A thread leaves lock3_.wait() only when the view was drawn.
LEMMA ParkedNext ==
    ASSUME TypeOK, Parked, CallerOK, env \in Environments, Next
    PROVE  Parked'
<1> USE DEF Parked
<1> USE DEF flags, clock, monitors, buttons, gui, scripts
<1>1. CASE UNCHANGED <<viewUpdate, th>> /\ (ui' = ui \/ ui' # "drawn")
  BY <1>1
<1>2. CASE Click \/ StartCheck \/ StartFail \/ ClockRaises
  BY <1>1, <1>2 DEF Click, StartCheck, StartFail, ReturnFalse, Return, ClockRaises
<1>3. ASSUME NEW t \in Thread, StartRun(t) PROVE Parked'
  BY <1>3 DEF StartRun, Return
<1>4. CASE TimerFires
  BY <1>1, <1>4 DEF TimerFires, TypeOK, States
<1>5. CASE AskExtend \/ AskStop \/ Rearm
  BY <1>1, <1>5 DEF AskExtend, AskStop, Rearm
<1>6. CASE NotifyTimeOver
  <2>1. /\ \A t \in Thread : th[t] = "viewWait" => th'[t] = "viewWait"
        /\ ui' # "drawn" /\ viewUpdate' = viewUpdate
    BY <1>6 DEF NotifyTimeOver, AfterNotify
  <2> QED BY <2>1
<1>7. CASE ViewDraw
  BY <1>7 DEF ViewDraw, ViewDue
<1>8. CASE ViewRaises
  BY <1>1, <1>8 DEF ViewRaises
<1>9. CASE ViewNotify
  BY <1>9 DEF ViewNotify, ViewShown
<1>10. CASE EndStop \/ EndInterrupt
  BY <1>1, <1>10 DEF EndStop, EndInterrupt
<1>11. CASE ScriptStart \/ ScriptWait \/ ScriptDone \/ ScriptInterrupt
  BY <1>1, <1>11 DEF ScriptStart, ScriptWait, ScriptDone, ScriptInterrupt
<1>12. ASSUME NEW t \in Thread, ThreadNext(t) PROVE Parked'
  <2>1. CASE ViewRequest(t)
    <3>1. th'[t] = "viewWait"
      BY <2>1 DEF ViewRequest, Goto, TypeOK
    <3> QED BY <3>1
  <2>2. CASE ~ViewRequest(t)
    <3>1. viewUpdate' = viewUpdate /\ th[t] # "viewWait" /\ ui' = ui
      BY <1>12, <2>2
         DEF ThreadNext, ThreadBegin, LoopTest, StepTimeOver, Step, StepRaises,
             StepOutput, TimeOverEnter, TimeOverWait, TimeOverWoken, Exit, ExitState
    <3>2. \A u \in Thread : u # t => th'[u] = th[u]
      BY <1>12, ThreadFrame DEF Goto, TypeOK
    <3> QED BY <3>1, <3>2
  <2> QED BY <2>1, <2>2
<1> QED BY <1>2, <1>3, <1>4, <1>5, <1>6, <1>7, <1>8, <1>9, <1>10, <1>11, <1>12
        DEF Next, StartNext, TimerNext, ScriptNext

-----------------------------------------------------------------------------
(* The supervising Runnable.                                               *)

\* The Runnable is in the middle of a run.
InRun(pc) == pc \in {"ask", "notify", "view", "drawn", "rearm", "end", "endInterrupt"}

\* Supervisors and the icon change together.
LEMMA CountedNext ==
    ASSUME TypeOK, CountedOnce, CallerOK, env \in Environments, env' = env, Next
    PROVE  CountedOnce'
<1> SUFFICES ASSUME UiUndisturbed, env.patient PROVE CountedOnce'
  BY DEF CountedOnce, UiUndisturbed
<1>0. /\ timers + (IF InRun(ui) THEN 1 ELSE 0) = (IF action.icon = "stop" THEN 1 ELSE 0)
      /\ ui \in {"start", "setup"} \/ script = "start" => action.icon = "start"
      /\ timers \in Nat /\ action.icon \in {"start", "stop"} /\ ui \in UiPcs
      /\ action \in [icon : {"start", "stop"}, enabled : BOOLEAN]
  BY DEF CountedOnce, InRun, TypeOK
<1>a. ASSUME /\ timers' + (IF InRun(ui') THEN 1 ELSE 0)
                   = (IF action'.icon = "stop" THEN 1 ELSE 0)
             /\ ui' \in {"start", "setup"} \/ script' = "start" => action'.icon = "start"
      PROVE  CountedOnce'
  BY <1>a DEF CountedOnce, InRun
<1> USE DEF flags, clock, monitors, buttons, gui, scripts, InRun
<1>1. CASE Click
  <2>1. action'.icon = action.icon
    BY <1>0, <1>1, EnabledAction DEF Click
  <2>2. ui = "idle" /\ timers' = timers /\ script' = script
        /\ (ui' = "idle" \/ (ui' = "start" /\ ~isExecuting))
    BY <1>1 DEF Click
  <2>3. ui' = "start" => action.icon = "start"
    BY <1>0, <1>1, <2>2 DEF Click, IconTrue
  <2> QED BY <1>0, <1>a, <2>1, <2>2, <2>3
<1>2. CASE StartCheck \/ StartFail
  <2>1. action'.icon = action.icon
    <3>1. (action.enabled \/ caller = "action") \in BOOLEAN
      OBVIOUS
    <3> QED BY <1>0, <1>2, <3>1, EnabledAction DEF StartCheck, StartFail, ReturnFalse
  <2>2. /\ ui \in {"start", "setup"} /\ ui' \in {"idle", "setup"} /\ timers' = timers
        /\ script' \in {script, "wait"}
    BY <1>2 DEF StartCheck, StartFail, ReturnFalse, Return
  <2> QED BY <1>0, <1>a, <2>1, <2>2
<1>3. CASE ClockRaises
  BY <1>3 DEF ClockRaises, UiUndisturbed
<1>4. ASSUME NEW t \in Thread, StartRun(t) PROVE CountedOnce'
  <2>1. ui \in {"start", "setup"} /\ Return
    BY <1>4 DEF StartRun
  <2>2. ui' = "idle" /\ script' # "start"
    BY <2>1, ReturnFacts
  <2>3. timers' = timers + 1 /\ action'.icon = "stop"
    BY <1>4 DEF StartRun
  <2> QED BY <1>0, <1>a, <2>1, <2>2, <2>3
<1>5. CASE TimerFires
  <2>1. InRun(ui')
    BY <1>5 DEF TimerFires, TypeOK, States
  <2>2. /\ ui = "idle" /\ timers' = timers - 1
        /\ UNCHANGED <<action, script>>
    BY <1>5 DEF TimerFires
  <2>3. ui' \notin {"start", "setup"}
    BY <2>1
  <2>4. timers = (IF action.icon = "stop" THEN 1 ELSE 0)
    BY <1>0, <2>2
  <2>5. timers' + 1 = (IF action'.icon = "stop" THEN 1 ELSE 0)
    BY <1>0, <2>2, <2>4
  <2> HIDE DEF InRun
  <2> QED BY <1>0, <1>a, <2>1, <2>2, <2>3, <2>5
<1>6. CASE AskExtend \/ AskStop \/ ViewDraw
  BY <1>0, <1>6, <1>a DEF AskExtend, AskStop, ViewDraw
<1>7. CASE NotifyTimeOver
  BY <1>0, <1>7, <1>a DEF NotifyTimeOver, AfterNotify
<1>8. CASE ViewRaises
  BY <1>8 DEF ViewRaises, UiUndisturbed
<1>9. CASE ViewNotify
  BY <1>0, <1>9, <1>a DEF ViewNotify
<1>10. CASE Rearm
  BY <1>0, <1>10, <1>a DEF Rearm
<1>11. CASE EndStop \/ EndInterrupt
  <2>1. action'.icon = "start" /\ ui \in {"end", "endInterrupt"} /\ ui' = "idle"
        /\ timers' = timers
    BY <1>11 DEF EndStop, EndInterrupt, EndOfSimulation, StoppedAction
  <2>2. timers = 0
    BY <1>0, <2>1
  <2>3. timers' + (IF InRun(ui') THEN 1 ELSE 0)
            = (IF action'.icon = "stop" THEN 1 ELSE 0)
    BY <2>1, <2>2
  <2> QED BY <1>a, <2>1, <2>3
<1>12. CASE ScriptStart
  BY <1>0, <1>12, <1>a DEF ScriptStart
<1>13. CASE ScriptWait \/ ScriptDone \/ ScriptInterrupt
  BY <1>0, <1>13, <1>a DEF ScriptWait, ScriptDone, ScriptInterrupt
<1>14. ASSUME NEW t \in Thread, ThreadNext(t) PROVE CountedOnce'
  BY <1>0, <1>14, <1>a, ThreadFrame
<1> QED BY <1>1, <1>2, <1>3, <1>4, <1>5, <1>6, <1>7, <1>8, <1>9, <1>10, <1>11, <1>12,
           <1>13, <1>14
        DEF Next, StartNext, TimerNext, ScriptNext

-----------------------------------------------------------------------------
(* One thread at a time.                                                   *)

\* Decided in the next state.
LEMMA DecidedThen ==
    Decided' <=> \A t \in Thread : DecidedAt(th'[t], simThreadState', ui', lock')
BY DEF Decided

\* A step of the only thread.
LEMMA OnlyThread ==
    ASSUME TypeOK, NEW t \in Thread, ThreadNext(t), th[t] # "dead",
           AtMostOne, NoneAround, Decided, controllers = "active" \/ AllDead,
           simThreadState' = "INTERRUPT" => th'[t] = "dead",
           DecidedAt(th'[t], simThreadState', ui, lock')
    PROVE  AtMostOne' /\ NoneAround' /\ Decided' /\ (controllers = "active" \/ AllDead)'
<1>1. UNCHANGED <<ui, action, controllers, script>>
  BY ThreadFrame DEF gui, scripts
<1>2. \A u \in Thread : u # t => th'[u] = th[u] /\ th'[u] = "dead"
  <2>1. PICK pc \in ThreadPcs : th' = [th EXCEPT ![t] = pc]
    BY ThreadFrame DEF Goto
  <2>2. \A u \in Thread : u # t => th[u] = "dead"
    BY DEF AtMostOne
  <2> QED BY <2>1, <2>2 DEF TypeOK
<1>3. ~AllDead
  BY DEF AllDead
<1>4. AtMostOne'
  BY <1>2 DEF AtMostOne
<1>5. NoneAround'
  <2>1. ~(action'.icon = "start" \/ script' = "start"
            \/ ui' \in {"start", "setup", "end", "endInterrupt"})
    BY <1>1, <1>3 DEF NoneAround
  <2>2. simThreadState' = "INTERRUPT" => AllDead'
    BY <1>2 DEF AllDead
  <2> QED BY <2>1, <2>2 DEF NoneAround
<1>6. Decided'
  <2>1. ASSUME NEW u \in Thread PROVE DecidedAt(th'[u], simThreadState', ui', lock')
    BY <1>1, <1>2, <2>1 DEF DecidedAt
  <2> QED BY <2>1, DecidedThen
<1>7. controllers' = "active"
  BY <1>1, <1>3
<1> QED BY <1>4, <1>5, <1>6, <1>7

\* The steps of a thread.
LEMMA ThreadOrdered ==
    ASSUME TypeOK, NEW t \in Thread, ThreadNext(t),
           AtMostOne, NoneAround, Decided, controllers = "active" \/ AllDead
    PROVE  AtMostOne' /\ NoneAround' /\ Decided' /\ (controllers = "active" \/ AllDead)'
<1>1. /\ th[t] # "dead" /\ th \in [Thread -> ThreadPcs]
  BY DEF ThreadNext, ThreadBegin, LoopTest, StepTimeOver, Step, StepRaises, ViewRequest,
         StepOutput, TimeOverEnter, TimeOverWait, TimeOverWoken, Exit, ExitState, TypeOK
<1>2. DecidedAt(th[t], simThreadState, ui, lock)
  BY DEF Decided
<1>3. simThreadState # "INTERRUPT"
  BY <1>1 DEF NoneAround, AllDead
<1> DEFINE Goal == /\ simThreadState' = "INTERRUPT" => th'[t] = "dead"
                   /\ DecidedAt(th'[t], simThreadState', ui, lock')
<1> USE DEF DecidedAt, Goto, flags, monitors
<1>4. CASE ThreadBegin(t)
  <2>1. Goal
    BY <1>1, <1>2, <1>3, <1>4 DEF ThreadBegin
  <2> QED BY <1>1, <2>1, OnlyThread
<1>5. CASE LoopTest(t)
  <2>1. Goal
    BY <1>1, <1>2, <1>3, <1>5 DEF LoopTest
  <2> QED BY <1>1, <2>1, OnlyThread
<1>6. CASE StepTimeOver(t) \/ StepRaises(t)
  <2>1. Goal
    BY <1>1, <1>2, <1>3, <1>6 DEF StepTimeOver, StepRaises
  <2> QED BY <1>1, <2>1, OnlyThread
<1>7. CASE Step(t)
  <2>1. Goal
    BY <1>1, <1>2, <1>3, <1>7 DEF Step
  <2> QED BY <1>1, <2>1, OnlyThread
<1>8. CASE ViewRequest(t) \/ StepOutput(t)
  <2>1. Goal
    BY <1>1, <1>2, <1>3, <1>8 DEF ViewRequest, StepOutput
  <2> QED BY <1>1, <2>1, OnlyThread
<1>9. CASE TimeOverEnter(t)
  <2>1. Goal
    BY <1>1, <1>2, <1>3, <1>9 DEF TimeOverEnter
  <2> QED BY <1>1, <2>1, OnlyThread
<1>10. CASE TimeOverWait(t)
  <2>1. Goal
    BY <1>1, <1>2, <1>3, <1>10 DEF TimeOverWait
  <2> QED BY <1>1, <2>1, OnlyThread
<1>11. CASE TimeOverWoken(t)
  <2>1. Goal
    BY <1>1, <1>2, <1>3, <1>11 DEF TimeOverWoken
  <2> QED BY <1>1, <2>1, OnlyThread
<1>12. CASE Exit(t)
  <2>1. Goal
    BY <1>1, <1>2, <1>3, <1>12 DEF Exit
  <2> QED BY <1>1, <2>1, OnlyThread
<1>13. CASE ExitState(t)
  <2>1. Goal
    BY <1>1, <1>2, <1>3, <1>13 DEF ExitState
  <2> QED BY <1>1, <2>1, OnlyThread
<1> QED BY <1>4, <1>5, <1>6, <1>7, <1>8, <1>9, <1>10, <1>11, <1>12, <1>13 DEF ThreadNext

\* The other steps.
LEMMA OrderedNext ==
    ASSUME TypeOK, Ordered, CallerOK, env \in Environments, env' = env, Next
    PROVE  Ordered'
<1> SUFFICES ASSUME env.prompt, env.patient PROVE Ordered'
  BY DEF Ordered
<1>0. /\ AtMostOne /\ NoneAround /\ Decided
      /\ controllers = "active" \/ AllDead
      /\ action \in [icon : {"start", "stop"}, enabled : BOOLEAN]
      /\ th \in [Thread -> ThreadPcs] /\ simThreadState \in States
  BY DEF Ordered, TypeOK
<1> DEFINE Goal == AtMostOne' /\ NoneAround' /\ Decided'
                     /\ (controllers = "active" \/ AllDead)'
<1>a. Goal => Ordered'
  BY DEF Ordered
<1>b. UNCHANGED th => AtMostOne' /\ (AllDead' <=> AllDead)
  BY <1>0 DEF AtMostOne, AllDead
<1>c. \A t \in Thread : DecidedAt(th[t], simThreadState, ui, lock)
  BY <1>0 DEF Decided
<1> HIDE DEF Goal
\* Steps of the UI and of the script that change no thread.
<1>d. ASSUME UNCHANGED <<th, lock>>,
             controllers' = controllers \/ controllers' = "active" \/ AllDead,
             (action'.icon = "start" \/ script' = "start" \/ simThreadState' = "INTERRUPT"
                \/ ui' \in {"start", "setup", "end", "endInterrupt"}) => AllDead,
             \A t \in Thread : DecidedAt(th[t], simThreadState', ui', lock)
      PROVE  Ordered'
  <2>1. Decided'
    BY <1>d, DecidedThen
  <2>2. NoneAround'
    BY <1>b, <1>d DEF NoneAround
  <2>3. controllers' = "active" \/ AllDead'
    BY <1>0, <1>b, <1>d
  <2> QED BY <1>a, <1>b, <1>d, <2>1, <2>2, <2>3 DEF Goal
<1>e. ASSUME simThreadState' = simThreadState, ui' \in UiPcs \ {"ask", "notify"},
             ui # "notify"
      PROVE  \A t \in Thread : DecidedAt(th[t], simThreadState', ui', lock)
  BY <1>c, <1>e DEF DecidedAt, UiPcs
<1> USE DEF flags, clock, monitors, buttons, gui, scripts
<1>1. CASE Click
  <2>1. action'.icon = action.icon
    BY <1>0, <1>1, EnabledAction DEF Click
  <2>2. /\ UNCHANGED <<th, lock, controllers, script, simThreadState>>
        /\ ui = "idle" /\ ui' \in {"idle", "start"}
        /\ ui' = "start" => ~isExecuting
    BY <1>1 DEF Click, StopSimulation
  <2>3. ui' = "start" => action.icon = "start"
    BY <1>0, <1>1, <2>2 DEF Click, IconTrue
  <2>4. \A t \in Thread : DecidedAt(th[t], simThreadState', ui', lock)
    BY <1>e, <2>2 DEF UiPcs
  <2> QED BY <1>0, <1>d, <2>1, <2>2, <2>3, <2>4 DEF NoneAround
<1>2. CASE StartCheck \/ StartFail
  <2>1. action'.icon = action.icon
    <3>1. (action.enabled \/ caller = "action") \in BOOLEAN
      OBVIOUS
    <3> QED BY <1>0, <1>2, <3>1, EnabledAction DEF StartCheck, StartFail, ReturnFalse
  <2>2. /\ ui \in {"start", "setup"} /\ ui' \in {"idle", "setup"}
        /\ UNCHANGED <<th, lock, simThreadState>>
    BY <1>2 DEF StartCheck, StartFail, ReturnFalse, Return
  <2>3. AllDead
    BY <1>0, <2>2 DEF NoneAround
  <2>4. \A t \in Thread : DecidedAt(th[t], simThreadState', ui', lock)
    BY <1>e, <2>2 DEF UiPcs
  <2> QED BY <1>d, <2>2, <2>3, <2>4
<1>3. CASE ClockRaises
  <2>2. /\ ui = "setup" /\ ui' = "idle" /\ UNCHANGED <<th, lock, simThreadState>>
    BY <1>3 DEF ClockRaises
  <2>3. AllDead
    BY <1>0, <2>2 DEF NoneAround
  <2>4. \A t \in Thread : DecidedAt(th[t], simThreadState', ui', lock)
    BY <1>e, <2>2 DEF UiPcs
  <2> QED BY <1>d, <2>2, <2>3, <2>4
<1>4. ASSUME NEW t \in Thread, StartRun(t) PROVE Ordered'
  <2>1. ui = "setup" /\ Return
    BY <1>4 DEF StartRun
  <2>2. ui' = "idle" /\ script' # "start"
    BY <2>1, ReturnFacts
  <2>3. /\ simThreadState' = "EXEC" /\ action'.icon = "stop" /\ controllers' = "active"
        /\ th' = [th EXCEPT ![t] = "started"]
    BY <1>4 DEF StartRun
  <2>4. AllDead
    BY <1>0, <2>1 DEF NoneAround
  <2>5. th'[t] = "started" /\ \A u \in Thread : u # t => th'[u] = "dead"
    BY <1>0, <2>3, <2>4 DEF AllDead
  <2>6. AtMostOne'
    BY <2>5 DEF AtMostOne
  <2>7. NoneAround'
    BY <2>2, <2>3 DEF NoneAround
  <2>8. \A u \in Thread : DecidedAt(th'[u], simThreadState', ui', lock')
    BY <2>2, <2>3, <2>5 DEF DecidedAt
  <2>9. Decided'
    BY <2>8, DecidedThen
  <2> QED BY <1>a, <2>3, <2>6, <2>7, <2>9 DEF Goal
<1>5. CASE TimerFires
  <2>1. /\ ui = "idle" /\ Leaving = {}
        /\ UNCHANGED <<th, lock, simThreadState, controllers, action, script>>
    BY <1>5 DEF TimerFires
  <2>2. \/ simThreadState = "TIMEOVER" /\ ui' = "ask"
        \/ simThreadState = "EXEC" /\ ui' = "view"
        \/ simThreadState = "STOP" /\ ui' = "end"
        \/ simThreadState = "INTERRUPT" /\ ui' = "endInterrupt"
    BY <1>0, <1>5 DEF TimerFires, States
  <2>3. simThreadState = "STOP" => AllDead
    <3>1. ASSUME simThreadState = "STOP", NEW t \in Thread PROVE th[t] = "dead"
      <4>1. th[t] \in {"dead", "woken", "exit", "exitState"}
        BY <1>c, <2>1, <3>1 DEF DecidedAt
      <4>2. t \notin Leaving
        BY <2>1
      <4> QED BY <3>1, <4>1, <4>2 DEF Leaving
    <3> QED BY <3>1 DEF AllDead
  <2>4. simThreadState = "INTERRUPT" => AllDead
    BY <1>0 DEF NoneAround
  <2>5. \A t \in Thread : DecidedAt(th[t], simThreadState', ui', lock)
    BY <1>c, <2>1, <2>2 DEF DecidedAt
  <2>6. (action'.icon = "start" \/ script' = "start" \/ simThreadState' = "INTERRUPT"
           \/ ui' \in {"start", "setup", "end", "endInterrupt"}) => AllDead
    BY <1>0, <2>1, <2>2, <2>3, <2>4 DEF NoneAround
  <2> QED BY <1>d, <2>1, <2>5, <2>6
<1>6. CASE AskExtend \/ AskStop
  <2>1. /\ ui = "ask" /\ ui' = "notify" /\ simThreadState' \in {"EXEC", "STOP"}
        /\ UNCHANGED <<th, lock, controllers, action, script>>
    BY <1>6 DEF AskExtend, AskStop
  <2>2. \A t \in Thread : DecidedAt(th[t], simThreadState', ui', lock)
    BY <1>c, <2>1 DEF DecidedAt
  <2> QED BY <1>0, <1>d, <2>1, <2>2 DEF NoneAround
<1>7. CASE NotifyTimeOver
  <2>1. /\ ui = "notify" /\ lock = "free" /\ ui' = "view"
        /\ th' = [t \in Thread |-> IF th[t] = "timeOverWait" THEN "woken" ELSE th[t]]
        /\ UNCHANGED <<lock, simThreadState, controllers, action, script>>
    BY <1>7 DEF NotifyTimeOver, CanNotify, AfterNotify
  <2>2. \A t \in Thread : th'[t] = "dead" <=> th[t] = "dead"
    BY <1>0, <2>1
  <2>3. AtMostOne' /\ (AllDead' <=> AllDead)
    BY <1>0, <2>2 DEF AtMostOne, AllDead
  <2>4. NoneAround'
    BY <1>0, <2>1, <2>3 DEF NoneAround
  <2>5. \A t \in Thread : DecidedAt(th'[t], simThreadState', ui', lock')
    BY <1>c, <2>1 DEF DecidedAt
  <2>6. Decided'
    BY <2>5, DecidedThen
  <2> QED BY <1>0, <1>a, <2>1, <2>3, <2>4, <2>6 DEF Goal
<1>8. CASE ViewDraw \/ ViewRaises \/ Rearm
  <2>1. /\ ui \in {"view", "rearm"} /\ ui' \in {"idle", "drawn", "rearm"}
        /\ UNCHANGED <<th, lock, simThreadState, controllers, action, script>>
    BY <1>8 DEF ViewDraw, ViewRaises, Rearm
  <2>2. \A t \in Thread : DecidedAt(th[t], simThreadState', ui', lock)
    BY <1>e, <2>1 DEF UiPcs
  <2> QED BY <1>0, <1>d, <2>1, <2>2 DEF NoneAround
<1>9. CASE ViewNotify
  <2>1. /\ ui = "drawn" /\ ui' = "rearm"
        /\ UNCHANGED <<lock, simThreadState, controllers, action, script>>
        /\ \A t \in Thread : th'[t] = th[t] \/ (th[t] = "viewWait" /\ th'[t] = "output")
    BY <1>0, <1>9 DEF ViewNotify, Goto
  <2>2. \A t \in Thread : th'[t] = "dead" <=> th[t] = "dead"
    BY <2>1
  <2>3. AtMostOne' /\ (AllDead' <=> AllDead)
    BY <1>0, <2>2 DEF AtMostOne, AllDead
  <2>4. NoneAround'
    BY <1>0, <2>1, <2>3 DEF NoneAround
  <2>5. \A t \in Thread : DecidedAt(th'[t], simThreadState', ui', lock')
    BY <1>c, <2>1 DEF DecidedAt
  <2>6. Decided'
    BY <2>5, DecidedThen
  <2> QED BY <1>0, <1>a, <2>1, <2>3, <2>4, <2>6 DEF Goal
<1>10. CASE EndStop \/ EndInterrupt
  <2>1. /\ ui \in {"end", "endInterrupt"} /\ ui' = "idle"
        /\ UNCHANGED <<th, lock, simThreadState>>
    BY <1>10 DEF EndStop, EndInterrupt
  <2>2. AllDead
    BY <1>0, <2>1 DEF NoneAround
  <2>3. \A t \in Thread : DecidedAt(th[t], simThreadState', ui', lock)
    BY <1>e, <2>1 DEF UiPcs
  <2> QED BY <1>d, <2>1, <2>2, <2>3
<1>11. CASE ScriptStart
  <2>1. /\ ui = "idle" /\ ui' = "start" /\ script = "start"
        /\ UNCHANGED <<th, lock, simThreadState, controllers>>
    BY <1>11 DEF ScriptStart
  <2>2. AllDead
    BY <1>0, <2>1 DEF NoneAround
  <2>3. \A t \in Thread : DecidedAt(th[t], simThreadState', ui', lock)
    BY <1>e, <2>1 DEF UiPcs
  <2> QED BY <1>d, <2>1, <2>2, <2>3
<1>12. CASE ScriptWait \/ ScriptDone \/ ScriptInterrupt
  <2>1. /\ UNCHANGED <<th, lock, simThreadState, controllers, action, ui>>
        /\ script' # "start"
    BY <1>12 DEF ScriptWait, ScriptDone, ScriptInterrupt, StopSimulation
  <2> QED BY <1>0, <1>c, <1>d, <2>1 DEF NoneAround
<1>13. ASSUME NEW t \in Thread, ThreadNext(t) PROVE Ordered'
  BY <1>0, <1>13, <1>a, ThreadOrdered DEF Goal
<1> QED BY <1>1, <1>2, <1>3, <1>4, <1>5, <1>6, <1>7, <1>8, <1>9, <1>10, <1>11, <1>12,
           <1>13
        DEF Next, StartNext, TimerNext, ScriptNext

-----------------------------------------------------------------------------
(* The invariant.                                                          *)

\* Before the first click nothing runs.
LEMMA SimulationInvInit ==
    Init => SimulationInv
<1> SUFFICES ASSUME Init PROVE SimulationInv
  OBVIOUS
<1> USE SimulationAssumption DEF Init
<1>1. env \in Environments /\ env.scriptRuns \in Nat /\ runsLeft \in 0..env.scriptRuns
  OBVIOUS
<1>2. TypeOK
  <2>1. left \in 0..Steps /\ extended \in 0..MaxExtend /\ timers \in Nat
    OBVIOUS
  <2>2. th \in [Thread -> ThreadPcs]
    BY DEF ThreadPcs
  <2>3. action \in [icon : {"start", "stop"}, enabled : BOOLEAN]
    OBVIOUS
  <2>4. isExecuting \in BOOLEAN /\ isInteractive \in BOOLEAN /\ viewUpdate \in BOOLEAN
    BY Zenon
  <2>5. script \in {"start", "starting", "wait", "waiting", "done"}
    BY <1>1
  <2>6. /\ simThreadState \in States /\ lock \in {"free", "sim"} /\ ui \in UiPcs
        /\ caller \in {"action", "script"} /\ controllers \in {"active", "stopped"}
    BY DEF States, UiPcs
  <2> QED BY <1>1, <2>1, <2>2, <2>3, <2>4, <2>5, <2>6 DEF TypeOK
<1>3. CallerOK
  BY <1>1 DEF CallerOK
<1>4. Parked
  BY DEF Parked
<1>5. CountedOnce
  <2>1. timers = 0 /\ ui = "idle" /\ action.icon = "start"
    OBVIOUS
  <2> QED BY ONLY <2>1 DEF CountedOnce
<1>6. Ordered
  BY DEF Ordered, AtMostOne, NoneAround, AllDead, Decided, DecidedAt
<1> QED BY <1>1, <1>2, <1>3, <1>4, <1>5, <1>6 DEF SimulationInv

\* Every step keeps the invariant.
LEMMA SimulationInvNext ==
    SimulationInv /\ [Next]_vars => SimulationInv'
<1> SUFFICES ASSUME SimulationInv, [Next]_vars PROVE SimulationInv'
  OBVIOUS
<1>1. CASE Next
  <2>1. TypeOK' /\ CallerOK' /\ env' = env
    BY <1>1, TypesNext DEF SimulationInv
  <2>2. Parked' /\ CountedOnce' /\ Ordered'
    BY <1>1, <2>1, ParkedNext, CountedNext, OrderedNext DEF SimulationInv
  <2> QED BY <2>1, <2>2 DEF SimulationInv
<1>2. CASE UNCHANGED vars
  <2> USE <1>2 DEF vars
  <2>1. TypeOK'
    BY DEF SimulationInv, TypeOK
  <2>2. CallerOK' /\ Parked'
    BY DEF SimulationInv, CallerOK, Parked
  <2>3. CountedOnce'
    BY DEF SimulationInv, CountedOnce, UiUndisturbed
  <2>4. AtMostOne' <=> AtMostOne
    BY DEF AtMostOne
  <2>5. AllDead' <=> AllDead
    BY DEF AllDead
  <2>6. Decided' <=> Decided
    BY DEF Decided
  <2>7. Ordered'
    BY <2>4, <2>5, <2>6 DEF SimulationInv, Ordered, NoneAround
  <2> QED BY <2>1, <2>2, <2>3, <2>7 DEF SimulationInv
<1> QED BY <1>1, <1>2

\* The invariant holds in every behaviour.
LEMMA SimulationInvHolds ==
    Spec => []SimulationInv
BY SimulationInvInit, SimulationInvNext, PTL DEF Spec

\* Types; in particular no thread makes a step when the total time is over.
THEOREM SimulationTypeCorrect ==
    Spec => []TypeOK
<1>1. SimulationInv => TypeOK
  BY DEF SimulationInv
<1> QED BY <1>1, SimulationInvHolds, PTL

\* In every environment, the UI thread draws wsx_ only while a simulation thread is
\* parked in lock3_.wait().
THEOREM DrawnWhileParked ==
    Spec => []DrawsParkedState
<1>1. SimulationInv => DrawsParkedState
  BY DEF SimulationInv, Parked, DrawsParkedState
<1> QED BY <1>1, SimulationInvHolds, PTL

-----------------------------------------------------------------------------
(* Users who look at the icon before they click.                           *)

\* No click while the icon of the toolbar action is stale.
Patience == \A e \in Environments : e.patient

\* A patient user never has two simulation threads, whatever fails.
THEOREM ThreadsOneByOne ==
    ASSUME Patience
    PROVE  Spec => []OneSimulationThread
<1>1. SimulationInv => OneSimulationThread
  <2> SUFFICES ASSUME SimulationInv, env.prompt PROVE Cardinality(Live) <= 1
    BY DEF OneSimulationThread
  <2>1. AtMostOne
    BY DEF SimulationInv, Ordered, Patience
  <2>2. CASE Live = {}
    BY <2>2, FS_EmptySet
  <2>3. CASE Live # {}
    <3>1. PICK t \in Thread : th[t] # "dead"
      BY <2>3 DEF Live
    <3>2. Live = {t}
      BY <2>1, <3>1 DEF Live, AtMostOne
    <3>3. Cardinality({t}) = 1
      BY FS_Singleton
    <3> QED BY <3>2, <3>3
  <2> QED BY <2>2, <2>3
<1> QED BY <1>1, SimulationInvHolds, PTL

\* From startSimulation() to endOfSimulation() there is exactly one supervisor.
THEOREM SupervisorsCounted ==
    ASSUME Patience
    PROVE  Spec => []SupervisedOnce
<1>1. SimulationInv => SupervisedOnce
  BY DEF SimulationInv, CountedOnce, Patience, SupervisedOnce, Supervisors
<1> QED BY <1>1, SimulationInvHolds, PTL

\* The controllers are deactivated only when no thread is inside a step.
THEOREM NoStepsAfterTheEnd ==
    ASSUME Patience
    PROVE  Spec => []NoStepAfterEnd
<1>1. SimulationInv => NoStepAfterEnd
  BY DEF SimulationInv, Ordered, AllDead, Patience, NoStepAfterEnd, Stepping
<1> QED BY <1>1, SimulationInvHolds, PTL

-----------------------------------------------------------------------------
(* The lifecycle.                                                          *)

\* Where the lifecycle is, in an orderly environment.
LEMMA PhaseIs ==
    ASSUME TypeOK
    PROVE  /\ ~Orderly => Phase = "off"
           /\ action.icon = "start" => Phase = "off"
           /\ Orderly /\ action.icon = "stop" /\ AllDead => Phase = "over"
           /\ Orderly /\ action.icon = "stop" /\ ~AllDead => Phase = "on"
<1>1. (Live = {}) <=> AllDead
  BY DEF Live, AllDead
<1>2. action.icon \in {"start", "stop"}
  BY DEF TypeOK
<1> HIDE DEF Live, AllDead
<1>3. CASE ~Orderly \/ action.icon = "start"
  <2>1. Phase = "off"
    BY <1>3 DEF Phase
  <2> QED BY <1>3, <2>1
<1>4. CASE Orderly /\ action.icon = "stop" /\ AllDead
  <2>1. Phase = "over"
    BY <1>1, <1>4 DEF Phase
  <2> QED BY <1>4, <2>1
<1>5. CASE Orderly /\ action.icon = "stop" /\ ~AllDead
  <2>1. Phase = "on"
    BY <1>1, <1>5 DEF Phase
  <2> QED BY <1>5, <2>1
<1> QED BY <1>2, <1>3, <1>4, <1>5

\* The same in the next state.
LEMMA PhaseThen ==
    ASSUME TypeOK'
    PROVE  /\ ~Orderly' => Phase' = "off"
           /\ action'.icon = "start" => Phase' = "off"
           /\ Orderly' /\ action'.icon = "stop" /\ AllDead' => Phase' = "over"
           /\ Orderly' /\ action'.icon = "stop" /\ ~AllDead' => Phase' = "on"
<1>1. (Live' = {}) <=> AllDead'
  BY DEF Live, AllDead
<1>2. action'.icon \in {"start", "stop"}
  BY DEF TypeOK
<1>3. CASE ~Orderly' \/ action'.icon = "start"
  <2>1. Phase' = "off"
    BY <1>3 DEF Phase
  <2> QED BY <1>3, <2>1
<1>4. CASE Orderly' /\ action'.icon = "stop" /\ AllDead'
  <2>1. Phase' = "over"
    BY <1>1, <1>4 DEF Phase
  <2> QED BY <1>4, <2>1
<1>5. CASE Orderly' /\ action'.icon = "stop" /\ ~AllDead'
  <2>1. Phase' = "on"
    BY <1>1, <1>5 DEF Phase
  <2> QED BY <1>5, <2>1
<1> QED BY <1>2, <1>3, <1>4, <1>5

\* A step that the observers do not see.
LEMMA Unseen ==
    ASSUME TypeOK, TypeOK', env' = env, action'.icon = action.icon,
           AllDead' <=> AllDead, controllers' = controllers
    PROVE  UNCHANGED Lifecycle!lifecycleVars
<1>1. Orderly' <=> Orderly
  BY DEF Orderly, UiUndisturbed
<1>2. action.icon \in {"start", "stop"}
  BY DEF TypeOK
<1>3. Phase' = Phase
  BY <1>1, <1>2, PhaseIs, PhaseThen
<1> QED BY <1>1, <1>3 DEF Lifecycle!lifecycleVars

\* Every step of the threads is a step of the lifecycle, or is not seen.
LEMMA LifecycleStep ==
    ASSUME Patience, SimulationInv, SimulationInv', [Next]_vars
    PROVE  [Lifecycle!Next]_(Lifecycle!lifecycleVars)
<1>1. /\ TypeOK /\ TypeOK' /\ env \in Environments /\ env.patient
      /\ action.icon \in {"start", "stop"}
  BY DEF SimulationInv, TypeOK, Patience
<1>2. env' = env
  BY TypesNext DEF SimulationInv, vars
<1>3. Orderly' <=> Orderly
  BY <1>2 DEF Orderly, UiUndisturbed
<1> DEFINE Goal == [Lifecycle!Next]_(Lifecycle!lifecycleVars)
<1>a. ASSUME action'.icon = action.icon, AllDead' <=> AllDead, controllers' = controllers
      PROVE  Goal
  BY <1>1, <1>2, <1>a, Unseen
<1>b. CASE ~Orderly
  <2>1. Phase = "off" /\ Phase' = "off"
    BY <1>1, <1>3, <1>b, PhaseIs, PhaseThen
  <2> QED BY <1>3, <1>b, <2>1 DEF Lifecycle!lifecycleVars
<1>c. ASSUME Orderly PROVE Goal
  <2>0. /\ UiUndisturbed /\ env.prompt /\ AtMostOne /\ NoneAround
        /\ controllers = "active" \/ AllDead
    BY <1>1, <1>c DEF Orderly, SimulationInv, Ordered
  <2>a. /\ timers + (IF InRun(ui) THEN 1 ELSE 0)
              = (IF action.icon = "stop" THEN 1 ELSE 0)
        /\ ui \in {"start", "setup"} => action.icon = "start"
        /\ timers \in Nat
    BY <1>1, <2>0 DEF SimulationInv, CountedOnce, InRun, TypeOK
  <2>b. UNCHANGED th => (AllDead' <=> AllDead)
    BY DEF AllDead
  <2>c. /\ action \in [icon : {"start", "stop"}, enabled : BOOLEAN]
        /\ th \in [Thread -> ThreadPcs]
    BY <1>1 DEF TypeOK
  <2> HIDE DEF Goal
  <2> USE DEF flags, clock, monitors, buttons, gui, scripts
  <2>1. CASE Click
    <3>1. action'.icon = action.icon
      BY <2>1, <2>c, EnabledAction DEF Click
    <3> QED BY <1>a, <2>1, <2>b, <3>1 DEF Click
  <2>2. CASE StartCheck
    <3>1. action'.icon = action.icon
      <4>1. (action.enabled \/ caller = "action") \in BOOLEAN
        OBVIOUS
      <4> QED BY <2>2, <2>c, <4>1, EnabledAction DEF StartCheck, ReturnFalse
    <3> QED BY <1>a, <2>2, <2>b, <3>1 DEF StartCheck
  <2>3. CASE StartFail
    <3>1. action'.icon = action.icon
      <4>1. (action.enabled \/ caller = "action") \in BOOLEAN
        OBVIOUS
      <4> QED BY <2>3, <2>c, <4>1, EnabledAction DEF StartFail, ReturnFalse
    <3>2. ui = "setup" /\ UNCHANGED th /\ controllers' \in {controllers, "active"}
      BY <2>3 DEF StartFail
    <3>3. CASE controllers' = controllers
      BY <1>a, <2>b, <3>1, <3>2, <3>3
    <3>4. CASE controllers' = "active"
      <4>1. Phase = "off" /\ Phase' = "off"
        BY <1>1, <2>a, <3>1, <3>2, PhaseIs, PhaseThen
      <4>2. Lifecycle!SetupFails
        BY <1>3, <1>c, <3>4, <4>1 DEF Lifecycle!SetupFails
      <4> QED BY <4>2 DEF Goal, Lifecycle!Next
    <3> QED BY <3>2, <3>3, <3>4
  <2>4. CASE ClockRaises
    BY <2>0, <2>4 DEF ClockRaises, UiUndisturbed
  <2>5. ASSUME NEW t \in Thread, StartRun(t) PROVE Goal
    <3>1. /\ ui = "setup" /\ action'.icon = "stop" /\ controllers' = "active"
          /\ th' = [th EXCEPT ![t] = "started"]
      BY <2>5 DEF StartRun
    <3>2. ~AllDead'
      BY <2>c, <3>1 DEF AllDead
    <3>3. Phase = "off" /\ Phase' = "on"
      BY <1>1, <1>3, <1>c, <2>a, <3>1, <3>2, PhaseIs, PhaseThen
    <3>4. Lifecycle!Start
      BY <1>3, <1>c, <3>1, <3>3 DEF Lifecycle!Start
    <3> QED BY <3>4 DEF Goal, Lifecycle!Next
  <2>6. CASE TimerFires \/ AskExtend \/ AskStop
    BY <1>a, <2>6, <2>b DEF TimerFires, AskExtend, AskStop
  <2>7. CASE NotifyTimeOver
    <3>1. AllDead' <=> AllDead
      BY <2>7, <2>c DEF NotifyTimeOver, AllDead
    <3> QED BY <1>a, <2>7, <3>1 DEF NotifyTimeOver
  <2>8. CASE ViewDraw \/ ViewRaises \/ Rearm
    BY <1>a, <2>8, <2>b DEF ViewDraw, ViewRaises, Rearm
  <2>9. CASE ViewNotify
    <3>1. \A t \in Thread : th'[t] = th[t] \/ (th[t] = "viewWait" /\ th'[t] = "output")
      BY <2>9, <2>c DEF ViewNotify, Goto
    <3>2. AllDead' <=> AllDead
      BY <3>1 DEF AllDead
    <3> QED BY <1>a, <2>9, <3>2 DEF ViewNotify
  <2>10. CASE EndStop \/ EndInterrupt
    <3>1. /\ ui \in {"end", "endInterrupt"} /\ UNCHANGED th
          /\ action'.icon = "start" /\ controllers' = "stopped"
      BY <2>10 DEF EndStop, EndInterrupt, EndOfSimulation, StoppedAction
    <3>2. AllDead
      BY <2>0, <3>1 DEF NoneAround
    <3>3. action.icon = "stop"
      <4>1. InRun(ui)
        BY <3>1 DEF InRun
      <4> QED BY <1>1, <2>a, <4>1
    <3>4. Phase = "over" /\ Phase' = "off"
      BY <1>1, <1>c, <3>1, <3>2, <3>3, PhaseIs, PhaseThen
    <3>5. Lifecycle!Report
      BY <1>3, <1>c, <3>1, <3>4 DEF Lifecycle!Report
    <3> QED BY <3>5 DEF Goal, Lifecycle!Next
  <2>11. CASE ScriptStart \/ ScriptWait \/ ScriptDone \/ ScriptInterrupt
    BY <1>a, <2>11, <2>b DEF ScriptStart, ScriptWait, ScriptDone, ScriptInterrupt
  <2>12. ASSUME NEW t \in Thread, ThreadNext(t) PROVE Goal
    <3>1. action' = action /\ controllers' = controllers
      BY <2>12, ThreadFrame
    <3>2. th[t] # "dead"
      BY <2>12 DEF ThreadNext, ThreadBegin, LoopTest, StepTimeOver, Step, StepRaises,
           ViewRequest, StepOutput, TimeOverEnter, TimeOverWait, TimeOverWoken, Exit,
           ExitState
    <3>3. ~AllDead /\ action.icon = "stop"
      BY <1>1, <2>0, <3>2 DEF AllDead, NoneAround
    <3>4. CASE AllDead'
      <4>1. Phase = "on" /\ Phase' = "over"
        BY <1>1, <1>3, <1>c, <3>1, <3>3, <3>4, PhaseIs, PhaseThen
      <4>2. Lifecycle!Finish
        BY <1>3, <1>c, <3>1, <4>1 DEF Lifecycle!Finish
      <4> QED BY <4>2 DEF Goal, Lifecycle!Next
    <3>5. CASE ~AllDead'
      BY <1>a, <3>1, <3>3, <3>5
    <3> QED BY <3>4, <3>5
  <2>13. CASE UNCHANGED vars
    BY <1>a, <2>13, <2>b DEF vars
  <2> QED BY <2>1, <2>2, <2>3, <2>4, <2>5, <2>6, <2>7, <2>8, <2>9, <2>10, <2>11, <2>12,
             <2>13
          DEF Next, StartNext, TimerNext, ScriptNext
<1> QED BY <1>b, <1>c

\* The threads, timers and monitors implement the steps of the abstract lifecycle:
\* "StopSimulation" is announced once per simulation, after its thread is gone, and
\* the controllers are deactivated only then.
THEOREM LifecycleImplemented ==
    ASSUME Patience
    PROVE  Spec => Lifecycle!Init /\ [][Lifecycle!Next]_(Lifecycle!lifecycleVars)
<1>1. Init => Lifecycle!Init
  <2> SUFFICES ASSUME Init PROVE Lifecycle!Init
    OBVIOUS
  <2>1. action.icon = "start" /\ controllers = "stopped"
    BY DEF Init
  <2>2. Phase = "off"
    BY <2>1 DEF Phase
  <2> QED BY <2>1, <2>2 DEF Lifecycle!Init
<1>2. SimulationInv /\ SimulationInv' /\ [Next]_vars
        => [Lifecycle!Next]_(Lifecycle!lifecycleVars)
  BY LifecycleStep
<1> QED BY <1>1, <1>2, SimulationInvHolds, PTL DEF Spec

=============================================================================
