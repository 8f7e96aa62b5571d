# OpenHRP3: models, checks and proofs

OpenHRP3 is a robot simulator made of CORBA servers (model loader, dynamics
simulators, collision detector, path planner, controller bridge) and GrxUI, an
Eclipse application in Java that drives them. This directory holds TLA+ modules
that model its concurrent, scheduling and caching parts, the TLC configurations that check
them on small instances, and proofs checked by TLAPS. `PROJECT.json` lists every
run, the lines each definition models, the hazards and the findings.

Run a check with `tlc -workers 2 -config <cfg> <module>`, the proofs with
`tlapm <component>Proofs.tla`.

## 1. Inventory

| Component | State | Operations | Interacts with |
|---|---|---|---|
| **Clock generator** (`ClockGeneratorRtm_impl.java.in`, `SwitchDependVerClockGenerator.java`, `hrpRTM/SimulationExecutionContext.cpp`) | `ecs_`, a Vector of execution contexts with period and next execution time; `m_running` on the RTC side | `subscribe`, `unsubscribe`, `resetClockReceivers`, `updateExecutionContext`, `start`, `stop` | called by RTC processes over CORBA and by the simulation; ticks the RTC processes |
| **Simulation control** (`GrxSimulationItem.java`, `StartSimulate.java`) | `isExecuting_`, `simThreadState_`, `viewSimulationUpdate_`, three monitors, the toolbar action | `startSimulation`, `stopSimulation`, `endOfSimulation`, `waitStopSimulation`, the simulation thread, the supervising Runnable | UI thread, simulation thread, script thread; controllers, dynamics, views |
| **Controller scheduling and bridge** (`GrxSimulationItem.ControllerAttribute`, `_setupController`, `server/ControllerBridge`) | `doCount_`, `doFlag_`, `controlTime`, `timeStep`, `isOwnedByController`, `rtcInfoVector` with rate counters | `initialize`, `start`, `input`, `control`, `output`, `stop` | GrxUI calls it every step; it ticks RT components and exchanges data with the dynamics server |
| **Path planning** (`hrplib/hrpPlanner`, `server/PathPlanner`, `GrxPathPlanningAlgorithmItem`) | road map, two trees, mobility, `isRunning_`, the path | `calcPath`, `extend`, `connect`, `buildRoadmap`, `DFS`, `optimize`, `stopPlanning`, `clearRoadmap` | GrxUI plans on one thread and stops from another |
| **Model loader** (`server/ModelLoader`) | URL to BodyInfo cache with modification times; shapes of the shared objects | `loadBodyInfo(Ex)`, `getBodyInfo(Ex)`, `clearData` | every server and GrxUI, on several ORB threads |
| **Collision detector** (`server/CollisionDetector`) | name to body map, pairs | `registerCharacter`, `addCollisionPair`, queries | GrxUI, dynamics servers |
| **Dynamics simulator** (`server/AistDynamicsSimulator`, `BehaviorManager`) | bodies, cached positions and sensor states with two flags, link pairs of solver and detector, contacts | registration, `initSimulation`, `stepSimulation`, setting link data, checks, `getWorldState` | the simulation and the 3D view call it; it calls the collision detector |
| **UT and ODE servers, hrpModel, hrpCollision** | bodies, links, contact forces | integration, kinematics, intersection | numerical |
| **World state log** (`GrxWorldStateItem`, `GrxTimeSeriesItem`, `LogManager`) | list, record files, the change from heap to files, one cached state | `addValue`, `getValue`, `setPosition`, `clearLog`, load and save | simulation thread writes, views read, a thread saves |
| **Process management** (`GrxProcessManager`, `GrxServerManager`, its panels) | processes and their watchers, buttons, `restartFlag_` | start, stop, restart one or all, watch | UI thread, watcher threads, processes |
| **Views, project files, scripts, hrpUtil, vendored libraries** | presentation and files | | |

What is hard in this code:

- *Interleavings.* The clock generator's loops run on the simulation side while
  ORB threads change the Vector under them. GrxSimulationItem's flags are plain
  fields shared by three kinds of threads.
- *Lost wake-ups.* Three monitors are waited on without a condition.
- *Partial failure.* Remote calls raise in the middle of loops over controllers,
  components or contexts; the code catches at very different levels.
- *Retry after a change.* `initialize()` is retried on a bridge it has already
  changed.
- *Schedules from sums of doubles.* Control cycles, port updates and component
  ticks are each derived from comparisons that may be exactly equal.
- *Caches.* Positions, sensor states, loaded models and the last state read are
  handed out again on the strength of a flag, a time stamp or a position.
- *Late notifications.* The end of a process is announced by a thread that may be
  slower than the user, a restart or the end of the next process.

What makes each part correct: a running context is ticked once per pass and stays
subscribed; there is one simulation thread and one supervisor, no step without
controllers, no thread or script that waits for ever; control, port and component
schedules neither drift nor pile up; the bridge is set up before it runs; a path is
a free motion from start to goal; a contact belongs to the pair and the positions it
is used for; a cached model is what its files say; no process gets out of reach and
a panel tells the truth; the log is read and saved as it was written.

## 2. Modules

| Module | Models |
|---|---|
| `ClockGenerator` | the clock generator and the RTC side of it |
| `SimulationItem` | simulation control with its threads, monitors and timers |
| `SimulationLifecycle` | abstract: what observers see of a simulation |
| `ControllerBridge` | set-up and control cycle of one robot's controller |
| `Roadmap` | road maps, local motions and their collision check, as operators |
| `PathPlanner` | RRT, PRM, the optimisers and the planner service, over `Roadmap` |
| `CollisionDetector` | the collision detector server, as actions for its caller |
| `DynamicsSimulator` | the dynamics simulator and its clients, over `CollisionDetector` |
| `ModelLoader` | the model loader's cache and its concurrent calls |
| `ProcessManager` | server processes, their watchers and panels |
| `WorldStateLog` | recording, reading, saving and loading of states |
| `MC*` | instances of these for TLC |
| `ClockGeneratorProofs`, `SimulationItemProofs`, `ControllerBridgeProofs`, `DynamicsSimulatorProofs`, `ModelLoaderProofs`, `PathPlannerProofs`, `ProcessManagerProofs`, `WorldStateLogProofs` | the inductive invariants and theorems of these components |

A module with several settings (`Environments`, `Settings`) chooses one in `Init` and
keeps it in the variable `env`; a property that needs an assumption names the field
of `env` that states it, so that one run holds the settings with and without it.

### ClockGenerator

`ecs` is the Vector, as a sequence of object identities; `obj` holds the fields of
every ExecutionContext object ever made, because a loop may hold an object that
has left the Vector. `Vector` synchronises each call of `size`, `get`, `add` and
`remove` and nothing longer, so each such call is one action, on both sides:
`ResetSize`/`ResetGet`/`ResetOne` and `UpdateSize`/`UpdateGet`/`ExecuteOk`/
`ExecuteFail` for the simulation, `Subscribe` and `UnsubSize`/`UnsubGet`/
`UnsubMatch` for each ORB thread. `ECStart` and `ECStop` are the calls of the RTC
side, `Die` the end of its process. `done`, `ahead`, `missed` and `stale` are
history variables for the properties: what the pass has visited, how many entries
were before an entry when it subscribed, how many passes skipped it, and what the
last reset skipped. Subscriptions are made one after the other (`Pending`): two
at once differ from this only in who is first in the Vector.

### SimulationItem and SimulationLifecycle

The UI thread is one process with the control point `ui`; the toolbar click, the
script's `syncExec` and the supervising Runnable are its events. Each simulation
thread has its control point in `th`, at the granularity of its reads and writes
of shared fields and of its monitor operations. `timers` counts armed Runnables.
The script thread starts simulations and waits in `waitStopSimulation`.

The environment of a behaviour is a record: `scriptRuns` (simulations a script runs,
0 for a user at the toolbar), `faults` (which calls may raise), and two timing
assumptions:

- `patient`: no click while the icon is out of date, that is in the time between an
  event and its display, typically milliseconds.
- `prompt`: within the timer interval of 10 ms a thread that has left its loop
  finishes the few instructions left of `run()`, and a script that returned from
  `syncExec` enters its wait.

`SimulationLifecycle` has a phase (off, on, over) and the controllers, no threads.
`ImplementsLifecycle` maps the phase to the action's icon and the live threads.

### ControllerBridge

GrxUI's side is `pc`, `simTime`, `doCount`, `doFlag`; the bridge's is `owned`,
`known` (the detected components), `connected`, `active`, `controlTime`,
`counter`. `Setup` to `Start` follow `_setupController` with its refusal, restart,
failure and retry paths; `Input*`, `NoControl`, `Control` are one simulation step;
`Finish` is `endOfSimulation`. `output()` changes no state that is kept here, it is
the end of `Control`. Times are whole units. The code compares doubles: where the
two sides are equal in exact arithmetic both outcomes are allowed (`MayBeDue` and
`MayBeEarly`, `MayInput` and `MaySkip`, `MayTick` and `MayWait`), which covers every
rounding that keeps the accumulated error below one unit. `counter` is in units of
1/(2*Den), so that half a rate is whole. `reached` and `ticks` and `inputs` are
history variables.

Faults: `input` (a remote call of `input()` raises), `late` (a component is not
registered when the bridge looks for it), `death` (its process ends; what the code
calls on it raises, at the place in each loop where that happens).

The settings are two: a long simulation without failures, set up several times, and
a short one with every failure and a bridge that GrxUI cannot restart.

### Roadmap and PathPlanner

The nodes of all trees live in one heap `rm.node`, because a node is handed from the
goal tree to the start tree by `integrate`; a tree is a sequence of indexes, in the
order of `addNode`. Configurations are a finite set, the metric, the interpolation
and the obstacles constants; `getPath` and the strides of `checkCollision` are those of
the code, so a motion that is not checked densely enough would show. `calcPath` runs in
steps, one for every turn of its loops: a sample, a node or a pair linked, a node joined
with start and goal, an `extendOneStep`, a descent or a retreat of `DFS`, a node of
the extraction, a cut of the shortcut optimiser. A stop request falls between any two, and
a client that has cancelled may fetch the path in between. `stopped` says that a stop
request found the call at work, and not before `preparePlanning`. `pc = "crashed"` is a
dereferenced null pointer or an index past the path: the server is gone. `Reuse` says which
algorithms are used again without `rebuildRoadmap`.

The dialog's cancel button sends the stop request and closes the dialog; nobody joins the
thread of `calcPath`, and `startCalc` and `optimize` do not ask whether one is under way
(`GrxPathPlanningAlgorithmItem.java:409-426`, `446-450`). The client is therefore free
(`ClientIsFree`) as soon as it has cancelled, and may plan again, with or without a new
algorithm, or optimize. Two calls then work on one planner without a lock. The model goes to
`pc = "raced"`, where `calls` holds the calls with their control points and whether a
stop request has found each at work with no `preparePlanning` since. What is shared and
decides about stopping, `isRunning_`, is followed: every `preparePlanning` sets it, every request clears it, each loop of
`buildRoadmap` reads it. The trees, the path and the robot are data races from there on, and
are not followed: a turn of a loop may take a call wherever the code can go from there
(`Turns`), a call whose algorithm `setAlgorithmName` has deleted is `freed`, and any of
them may take the server down (`RacedCrash`). The properties on paths, road maps and the
search therefore speak of a call that is alone; the one on stop requests speaks of all
calls, and the one on answers says what an overlapping call changes.

### CollisionDetector and DynamicsSimulator

A pose stands for everything a body's links have; `q` is what the joints say, `p`
what the links' positions say, `sent` and `sens` are the cached sequences with
their flags. A contact carries the pair it is for and the poses it was computed
at. `solver` is the numbered list of link pairs of the constraint solver, `pairs` that
of the detector; the code matches them by position. A session is one of the three
clients (simulation, simulation without integration, 3D view) from the creation of a
simulator to its replacement; the next session destroys it.

### ModelLoader

One model of two files. A call goes through the steps of the code between which
other calls may run: the first `stat`, the look-up, reading the main and the inlined
file, the inlined file's `stat`, insertion in the map, the second `stat`. A hit reads
`p->second` anew for the time of the main file, for the inlined files, for the object to
return and for the one to convert (`CacheFound`, `CheckInline`, `Take`, `ClearShapes`), and
another call may have replaced it in between (`Entry`).

An object's `shape` is the list of its shapes. `changetoBoundingBox` clears and fills
it in place and takes no lock: `ClearShapes` and `FillShapes` are two steps, at the end of a
load and again at every hit with the option, on an object that other clients hold. A reader
between them finds nothing, two conversions at once leave each one's boxes. `apart` in `env`
states that no two calls convert one object at once; with and without it both are in
the run. Files are edited at any time, or (`calm`) not during a load and not twice within the
resolution of `st_mtime`.

### ProcessManager

For each server the processes ever started, with their watcher threads, and the one
its `AProcess` refers to. Handlers of the UI thread are atomic except the restart button,
whose three looks at the process are separate, since it may end in between. `prompt`: a
user acts on a panel when the ends of its processes are announced, and no process
crashes within a handler.

### WorldStateLog

A state is its number, a file the sequence of its records. `logger` is which
directory is open for writing and for reading, `changePos` where the log changes from
heap to files. Recording to a file is two steps (the record, then the entry in the
list), saving is two or three on its own thread. `calm`: the user only looks at a log
while it is recorded or saved. `low`: memory runs low during a load. `trace` is the
history of what the log was given.

## 3. Runs

| Run | Result | Bounds | Distinct states |
|---|---|---|---|
| `clock` | pass | 2 contexts, 3 subscriptions, 2 steps, any number of simulations, symmetry | 3.1 million |
| `simulation` | pass | 2 threads, 2 steps, 1 extension, up to 3 scripted simulations, 5 environments | 46 450 |
| `bridge` | pass | 3 simulations, control steps 1, 2, 3, 5, 7 at step 2, ports 0, 4, 5, rates 2/3 and 1; 2 simulations with every fault | 555 641 |
| `planner` | pass | 7 headings, 1 blocked, 2 mobilities, 5 requests, 3 trials, 2 samples, 2 plannings | 525 376 |
| `dynamics` | pass | 2 bodies, 3 links, 2 poses, 3 pairs, 2 sessions of 3 kinds | 496 239 |
| `loader` | pass | 2 clients, 2 versions of 2 files, 3 seconds (2 in the uncalm environment), 2 objects, symmetry | 4.3 million |
| `process` | pass | 2 servers with 2 starts each, 1 server with 3 starts | 128 371 |
| `log` | pass | 5 states, a list of 4, all settings | 586 129 |
| `clock_unsubscribe` | violation | as `clock` | |
| `simulation_double_start` | violation | without `patient` | |
| `bridge_partial_init` | violation | control step 3, fault late, unmanaged bridge | |
| `log_save` | violation | 3 states, in the heap | |

Why the bounds are enough.

- *clock*: two contexts and three subscriptions give a removal before, at and behind
  the index of every loop, a context that subscribes again while its old object is
  held, and a removal by each of the three removers; the proofs cover all other numbers.
- *simulation*: two threads are needed for an overlap and a third adds nothing as no
  action distinguishes older threads; two steps give a first, a last and an extended one.
- *bridge*: the steps contain a divisor, a multiple and a coprime of the simulation
  step, a refused one and one above the port intervals; total time 30 is a common
  multiple of the steps 2, 3 and 5, so every phase between them occurs.
- *planner*: the ring has a free way round the obstacle, too long for one motion, so
  that trees of several nodes and paths of several segments are needed; the one-way
  mobility makes the direction of an edge matter; two plannings meet a used road map, and overlap
  when the first one was cancelled.
- *dynamics*: three pairs of three links give a pair registered twice between two
  others; two poses tell fresh from stale; a second session follows every kind of first.
- *loader*: two clients meet at every step of a load; two versions and three seconds
  give an edit before, during and after it, alone in either file. Where files are written at
  any time the clock stops a second earlier (the constraint `Seconds`): with stamps that
  may repeat, two seconds give every case the model tells apart.
- *process*: two servers are needed for a restart of all that stops one and raises at
  the other; three starts for a restart whose notification meets the next end.
- *log*: five states in a list of four drop one; four in two kinds of storage give
  positions before, at and behind the change, and a second simulation after a first.

What the passing runs show:

- `clock`: the missing lock costs ticks, but never more than entries have left
  (`OvertakenOnlyByDepartures`), never a running context (`RunningStaysSubscribed`), and
  nothing is ticked twice (`ExecutedOncePerPass`).
- `simulation`: the falling-through TIMEOVER branch, the monitors and the timer keep
  exactly one supervisor (`SupervisedOnce`, also with threads that dawdle), no step runs
  with deactivated controllers (`NoStepAfterEnd`), the view draws only a parked
  thread's data (`DrawsParkedState`), threads end, the action is enabled again, a script
  returns when no step raises, and all of it implements `SimulationLifecycle`.
- `bridge`: cycle k of the controller runs within one simulation step of its time
  (`ControlOnSchedule`), the time the bridge adds up by itself agrees with GrxUI's
  (`ClocksAgree`), each port is served at the cycle nearest to its own time
  (`PortOnSchedule`), ticks follow the rate for the whole life of the bridge
  (`TicksTrackRate`), components are active exactly during a simulation of a bridge
  that GrxUI restarts and nothing fails (`ActiveWhileRunning`). The first and the fourth
  hold under every fault too.
- `planner`: what a client can fetch during and after planning and any optimising is a motion
  from the requested start to the requested goal with nothing blocked on the way
  (`PathIsMotion`), also when the road map was stopped half-built or is used again;
  edges are motions in their direction (`EdgesAreMoves`); `DFS` misses no path
  (`SearchComplete`), all as long as no two calls overlap; a stop request that finds
  `buildRoadmap` at work is lost only to `preparePlanning` of another call: until then no node
  is drawn and no further one linked, and no call among several begins a further loop
  (`PRMStops`); a planning is answered, or takes the server
  down, unless another is begun over it (`CalcReturns`).
- `dynamics`: the two flags never let old positions or sensor states out
  (`CachesFresh`); solver and detector agree on the i-th pair (`ContactsOnTheirPair`);
  contacts and positions of a world state belong together (`StateConsistent`); every
  pair is on bodies that still move (`PairsFollowBodies`).
- `loader`: no client gets a model older than its files were when it asked
  (`AnswersFresh`), with two loads of the same model under way; who asked for bounding boxes
  has each of them once, also after others have had the same object converted again
  (`BoxesAsAsked`: where conversions of one object do not overlap, of an object that is in the
  map and not being converted); no needless load (`ReloadOnlyIfChanged`).
- `process`: whatever crashes, fails and overlaps, a process that was not told to end
  can be reached (`NoOrphan`) and ends with GrxUI (`NothingLeftBehind`); a panel that
  shows the wrong thing is corrected (`EndNoticed`), as `restartFlag_` never outlives the
  notification it waits for (`FlagIsOwed`).
- `log`: every recorded or loaded state is read back at its position (`ReadsBack`) and
  keeps reading the same (`StableOnceRecorded`, on disk for a busy user too); a saved log
  is the log, wholly in the heap or wholly on disk (`SavedIsLog`).

`TypeOK` states the types of the variables of each module and the bounds that go with
them. `clock` and `bridge` check it; the other runs are about behaviour, and their
`TypeOK` can be added to a `.cfg` as one more invariant (it holds on the same instances);
for the simulation, the dynamics simulator, the model loader and the planner it is proved.

Deadlock checking is off where the system may stop: a bounded number of simulations,
subscriptions, plannings, edits or starts is used up, a script or GrxUI has ended, or
the planner server is gone. It is on in `simulation_double_start`.

### Findings

Four runs are expected to be violated; each states what a comment, an interface
description or a message says, and TLC shows the code doing otherwise. The quotations
are in `PROJECT.json`.

1. `clock_unsubscribe`: of two contexts that unsubscribe at once one may stay subscribed.
2. `simulation_double_start`: a click before `run()` begins starts a second thread.
3. `bridge_partial_init`: a retried `initialize()` does nothing and the simulation
   runs with components missing.
4. `log_save`: a log that went from the heap to files is saved as its heap part twice.

### Observed limits

Met while modelling; each is in the models as the code has it, and the property
concerned says where it stops.

- *Clock*: `simTime_` is advanced before the first update, so the first clock comes after
  one step, not at time 0 as `ClockGenerator.idl:14` has it.
- *Simulation*: a step that raises ends the simulation without waking a script in
  `waitStopSimulation` (`ScriptReturnsUnharmed` leaves it out).
- *Bridge*: an owned bridge keeps its rate counters from one simulation to the next,
  while `Controller.idl:110` calls `initialize()` a reset; `checkOutPortStepTime` is only
  made by the first `initialize()`. When that check refuses, the bridge has already been
  marked as owned (`Controller_impl.cpp:521`) and has detected no component: one that GrxUI
  does not restart accepts the next `initialize()` without looking again, and the
  simulation runs with no component (`ActiveWhileRunning` asks for a managed bridge).
- *Planner*: an RRT that keeps its trees for a second planning reports a path that does
  not begin at the start (`Reuse` leaves it out); RRT ignores a stop request (its test
  at `RRT.cpp:210` is commented out), though `Algorithm.h:49` asks every `calcPath` to heed
  it; a new planning over a cancelled one undoes a request that PRM has not seen yet, and the
  old call goes on beside it; `setAlgorithmName` deletes the algorithm a cancelled call may be working on; a
  failed search from both sides, planning before an algorithm was set, and an index
  rounded up in the random optimiser end the server; a stop before `preparePlanning` is
  lost.
- *Dynamics*: a pair registered again the other way round reverses its contact
  normal (`MCPairItem` has none); without integration a world state shows the
  contacts of the initial state.
- *Loader*: a file written during a load, or twice within a second, may be answered
  old; bounding boxes asked for by one client appear in the models of all, for good,
  also of who asks for none; while an object is converted its other holders may find it without shapes, and
  two conversions at once may leave each box twice (`BoxesAsAsked` needs `apart`); a call may
  convert the object that has come in the place of the one it returns; a URL with
  `$(PROJECT_DIR)` never hits.
- *Processes*: `GrxProcessManager.restart` sets no `restartFlag_`, so after a change of the
  name server buttons show START for running servers (`ButtonTrue` holds until then); it
  raises at a server that is not registered; a `shutdown()` does not wait, so two
  instances may overlap.
- *Log*: the position at which the log changes to files reads as null; a list in files
  that has dropped entries has its positions off; loading a log larger than the heap
  fails (`separateLogs` has the fault of finding 4); saving while recording loses what
  is recorded after; clearing while recording ends the simulation.

### Fairness

- `SimulationItem`: each simulation thread, the UI thread's event handlers (start and
  timer) and the script are weakly fair: the JVM schedules runnable threads, the SWT loop
  dispatches expired timers, and a modal dialog is answered.
- `PathPlanner`: the ORB thread of `calcPath` is weakly fair. A sample in collision is no
  step of the model, so this includes that a free configuration is drawn at last.
- `ProcessManager`: per server, the handlers of the UI thread, the watcher threads, the
  dispatch of their notifications, and the end of a process that was told to end.

Clicks, edits, crashes, stop requests and faults are never fair. `SimulationLifecycle`
has the fairness that the phases follow each other.

## 4. Proofs

Each theorem has the form `Spec => []P` (or `Spec => [][A]_vars`) and holds for every
value of the constants that the assumption of the module allows. Each rests on one
inductive invariant per component: it holds initially, every action preserves it (one
lemma per action), and it implies the properties. Those of `SimulationItem`,
`WorldStateLog`, `ModelLoader` and `PathPlanner` were first checked with TLC on instances larger than those of the runs.

| Module | Theorem | Property | Hypothesis beyond the module's assumption |
|---|---|---|---|
| `ClockGeneratorProofs` | `TypeCorrect` | `TypeOK` | |
| | `VisitedOnce` | `ExecutedOncePerPass` | |
| | `SkipsAreBounded` | `OvertakenOnlyByDepartures` | |
| | `ResetIsEffective` | `ResetReachesAllButOvertaken` | |
| | `RunningKeepsEntry` | `RunningStaysSubscribed` | |
| `SimulationItemProofs` | `SimulationTypeCorrect` | `TypeOK` | |
| | `DrawnWhileParked` | `DrawsParkedState` | |
| | `ThreadsOneByOne` | `OneSimulationThread` | `Patience` |
| | `SupervisorsCounted` | `SupervisedOnce` | `Patience` |
| | `NoStepsAfterTheEnd` | `NoStepAfterEnd` | `Patience` |
| | `LifecycleImplemented` | `Lifecycle!Init` and `[][Lifecycle!Next]` | `Patience` |
| `ControllerBridgeProofs` | `BridgeTypeCorrect` | `TypeOK` | |
| | `CyclesNeverDrift` | `ControlOnSchedule` | |
| | `BridgeClocksAgree` | `ClocksAgree` | |
| | `PortsOnSchedule` | `PortOnSchedule` | |
| | `TicksAtRate` | `TicksTrackRate` | |
| | `ActiveInSimulation` | `ActiveWhileRunning` | |
| `DynamicsSimulatorProofs` | `SimulatorTypeCorrect` | `TypeOK` | |
| | `CachesAreFresh` | `CachesFresh` | |
| | `PairsFollowTheirBodies` | `PairsFollowBodies` | |
| | `ContactsAreTheirPairs` | `ContactsOnTheirPair` | `OneWay` |
| | `StatesConsistent` | `StateConsistent` | |
| `ModelLoaderProofs` | `LoaderTypeCorrect` | `TypeOK` | |
| | `AnswersAreFresh` | `AnswersFresh` | |
| | `BoxesAreAsAsked` | `BoxesAsAsked` | |
| | `ReloadsOnlyIfChanged` | `ReloadOnlyIfChanged` (action property) | |
| `PathPlannerProofs` | `PlannerTypes` | `TypeOK` | |
| | `EdgesAreMovesAlways` | `EdgesAreMoves` | |
| | `RoadmapClosedAlways` | `RoadmapClosed` | |
| | `SearchCompleteAlways` | `SearchComplete` (action property) | |
| | `PRMStopsAlways` | `PRMStops` (action property) | |
| | `PathIsMotionAlways` | `PathIsMotion` | `TreesRebuilt`; `Divisible` or no random shortcut |
| `ProcessManagerProofs` | `NoProcessIsOrphaned` | `NoOrphan` | |
| | `FlagsAreOwed` | `FlagIsOwed` | |
| | `ButtonsAreTrue` | `ButtonTrue` | |
| `WorldStateLogProofs` | `RecordsReadBack` | `ReadsBack` | |
| | `LogIsSaved` | `SavedIsLog` | |
| | `ReadingsStable` | `StableOnceRecorded` (action property) | |

The hypotheses. `Patience`: every environment has a user who does not click while the icon
is out of date; `simulation_double_start` shows that without it two threads are possible.
`OneWay`: no pair item is given in both directions, since then the detector keeps the
first direction and the solver the second. `TreesRebuilt`: RRT plans again only with new
trees, since with kept ones the path it reports begins at an old root. `Divisible`: a point of
the way between two configurations parts it into two ways that go through no other; a random
shortcut checks the way to its end points no more, and relies on this. Without random
shortcuts (`MaxPath < 3`) it is not needed. TLC evaluates both on the ring of `planner`
(`MCMotion`). The assumptions of the modules (`ClockAssumption`,
`SimulationAssumption`, `BridgeAssumption`, `SimulatorAssumption`, `LoaderAssumption`,
`PlannerAssumption`, `ProcessAssumption`, `LogAssumption`) give the constants their types:
steps, periods and rates positive, bounds natural. `MobilityAssumption` says of a mobility
that its ways stay in the space and that `isReversible()` means what `Mobility.h:53` says,
that the way back goes where the way there went. TLC evaluates them on every run.

### ClockGenerator

`ClockInv` is `TypeOK`, `ResetReachesAllButOvertaken` and `RunningStaysSubscribed` with
four additions:

- `Distinct`: no object is in the Vector twice, so that removing an object removes
  one position;
- `DoneBehind`: what a pass has visited is before its index, and what it holds is
  at the index or before it. Removals only move entries to the front, so this is
  kept, and it is why nothing is visited twice;
- `Overtaken`: the bound on skips, with the skip of the current pass counted as
  soon as the entry is behind the index (`Doomed`). The bound itself is not
  inductive: a removal moves an entry behind the index, and the count only grows
  when the pass ends. Counted this way a removal lowers the position by one at the
  moment it adds a skip;
- `ResetDone`: what the reset pass has visited has its next time at 0.

The lemmas about `RemoveElem` say what `Vector.remove(Object)` does to positions;
every removal in the proof goes through them.

### SimulationItem

`SimulationInv` adds to the types: who called `startSimulation` (`CallerOK`); that a view
is due only while a thread is parked for it (`Parked`); that supervisors, armed or in
the middle of their Runnable, are counted by the icon (`CountedOnce`); and, for a prompt
machine, `Ordered`: at most one thread, none where one may be created or the end is
announced (`NoneAround`), and `Decided`, which says where a thread can be for each value of
`simThreadState_`, the supervisor's step and the owner of `lock_`. `OneSimulationThread` is
not inductive without the last: that no thread is left when the supervisor sees
INTERRUPT depends on a thread that was told to stop being past its loop.
`LifecycleImplemented` is the safety part of `ImplementsLifecycle`: the initial state is
one of `SimulationLifecycle`, and under the refinement mapping each action is one of its
steps or a stutter. Its fairness part is only model-checked.

### ControllerBridge

`BridgeInv` states the schedules at every step, not only at the start of a simulation step:
`CyclesOnSchedule` bounds `doCount` times the step on both sides, `TimeCounted` says that
`controlTime` is the number of cycles the bridge has run times the step, `PortsServed` that
the inputs of a port number the multiples of its step before `controlTime` less half a
cycle, and `CounterExact` that `timeRateCounter` is what calls added less what ticks took
away, exactly, over the whole life of the bridge: the bound on ticks follows because the
counter stays within one threshold. `AllUp` and `AllKnown` are for `ActiveWhileRunning`.

### DynamicsSimulator

`SimulatorInv` ties the numbers together: a character's body in the detector has the
index of its body in the world (`BodiesNumbered`), every pair of the detector has these
numbers (`PairsNumbered`), solver and detector have the same pairs in the same order
(`SolverFollows`), and the contacts kept are those of the pairs at the poses the bodies
have (`ContactsOfPairs`). `CachesFresh` needs to know that the flags are set until the
simulation runs (`FlagsTrue`).

### ModelLoader

`LoaderInv` says what the time stamps of an object mean (`BodyOK`): an object with the
current version has the current time, and for a calm user also the other way round.
`CallsOK`, `ObjectsOfCalls` and `LoadsApart` say what a call knows of the object it works on,
and that two loads never fill the same object; `LookedUp` that a time taken by `stat`
before the look-up still identifies a version that is new enough; `EntriesOK` that whatever
comes into the map between the readings of an entry is new enough for the call that reads it.

`ShapesInv` is for the boxes and rests on `LoaderInv`. Where conversions do not overlap, an
object being filled is empty and is filled by one call, so that filling gives each box
once; and that call fills the object it returns, as long as this one is in the map. That a
later hit by another client takes the boxes away and puts them back is the step that
`BoxesAsAsked` alone does not survive: it says nothing while the object is converted.

### PathPlanner

Four invariants, each using those before it. Obstacles, metric, interpolation and strides
are arbitrary, so what is proved does not depend on the ring the run has.

- `MapInv`, of the road maps: the heap is good (links refer to nodes, no node is in
  collision, every edge is entered at both ends and is a motion), and the two trees share no
  node and no edge leaves or enters either (`MapOK`). Disjointness is what makes
  `integrate` keep the map closed. `NamesOK`, `ListsOK`, `LoopsOK` and `EndsJoined` say
  which loop runs with which counters, so that an edge is entered between nodes that exist.
  That a visited motion is a free one (`ReachableIsFree`) rests on the last stride of
  `checkCollision` being 1, and on ends that were looked at before.
- `StopInv`, of the stop requests: a call that was stopped at work has `isRunning_` false,
  as long as no `preparePlanning` has followed, since nothing else sets it; and calls are
  recorded only while several are at work, so that the record made when a call is begun
  over another one carries the request over.
- `SearchInv`, of `DFS`: the stack is a path of the road map, what has been seen can be
  reached from the start, and the children of a node that has left the stack have been
  seen. `SearchComplete` alone says nothing until the search ends; with an empty stack the set
  of nodes seen is closed and does not hold the goal, which is the definition of not connected.
- `PathInv`, of the paths: only a root has no parent in the start tree, and no child in the
  goal tree (`RootsOK`); a search that succeeded led both trees to the same place (`Met`);
  what is extracted so far is a motion that the next node continues (`ExtractOK`); a
  cut keeps the path a motion (`CutOK`). No well-foundedness of the trees is needed: a
  walk that ends has ended at a root.

### ProcessManager

`ManagerInv` is an invariant per server. `NoOrphan` needs that an `AProcess` refers to the
process started last or to none. `ButtonTrue` is not inductive: it speaks of panels whose
ends are all announced. `PanelOK` counts the notifications that a panel will still get
(posted, or owed by a watcher of one of the last two processes) and says that a STOP button
gets exactly one for the flag and one for a process that has ended. That only the last two
processes can be unsettled is `WatchersMeet`.

### WorldStateLog

`LogInv` holds for a calm user. On disk the file is the log, one record ahead of it in the
middle of `addValue` (`OnDisk`); in the heap the list is the end of the log (`InHeap`); after
the change to files the list holds the states before `changePos_` and the files the rest
(`Spilled`, `SpilledReads`). Each part says of `preStat_` that it is the state at `prePos_`.
`SavesLog` follows the saving thread; it needs `Undisturbed`, that nothing is recorded while it
works. What `getValue` returns is derived once per kind of storage (`DiskReads`,
`SpilledPositionReads`) and used both for the views' reads and for the theorem.

`KeepInv` is what `StableOnceRecorded` needs besides. It says little about the right content,
which a busy user can spoil, and more about its permanence: the state in `preStat_` is what the
record at `prePos_` says, so that reading another position changes nothing; and while files
are written, the record being added is behind every entry of the list. On disk
(`DiskKeeps`) this holds for every user: a log cleared under the simulation has no entries and
no open reader until the next one starts, and a stream that a save has closed is not written
again. In the heap (`SpillKeeps`) it holds for a calm user also where `ReadsBack` says
nothing, after dropped entries and a broken load; there a save rewrites "base" while the
log is read from "over". `DiskReadings` and `SpillReadings` turn the invariant into what a
position reads, before and after a step.

### Only model-checked

- Liveness and fairness: `ThreadEnds`, `ActionComesBack`, `ScriptReturnsUnharmed`, the
  fairness of `ImplementsLifecycle`, `CalcReturns`, `EndNoticed`, `NothingLeftBehind`.
- In `ProcessManager`'s `TypeOK`, that no more ends are announced than processes were
  started: this is a count over all processes.
- The violated properties.

## 5. Not modelled

- Floating-point drift: two long sums of doubles may come apart by more than a
  unit after very many steps. The models allow any outcome only at equality.
- In GrxSimulationItem: suspension and real-time pacing (they only delay the loop),
  nested event loops inside dialogs, `continueSimulation`.
- In the bridge: the data the port handlers copy, the configuration parser, more
  than one controller, a bridge process that dies, components without a
  periodic-rate entry or port connection.
- In the planner: the geometry of collisions, continuous configurations, changing the
  mobility of an existing road map (GrxUI never does). Of calls that overlap, the trees, the
  path and the robot they race on; after one, the model does not return to following
  them. `clearRoadmap` is called between plannings only (GrxUI never calls it), and a random
  optimisation begun over a call at work counts as the optimiser call it is, without its path.
- In the dynamics simulator: integration, contact forces, extra joints, the ray and
  given-pair queries; the UT and ODE servers.
- In the model loader: parsing, the unlocked map itself (a data race in the
  container), `loadSceneInfo`, which keeps nothing. All who ask for boxes ask for the same
  ones: the depth of the boxes, and links that have none, are left out. Of what the race on an
  object's shapes can do, the empty, the complete and the doubled list are there; a crash in
  a sequence that is resized under its reader, and boxes mixed with the appearances or the
  sensors of another conversion, are not. A call that looks at an entry `clearData` has
  just freed still finds what was there.
- In process management: `killall`, servers without `autoStop`, reading of their output.
- In the log: the layout of records, CSV export, loading while a simulation records.
- Dynamics, kinematics and collision geometry (real arithmetic), parsers, views,
  vendored libraries (Opcode, jpeg, png, zlib, LAPACK-like code of the UT server). These
  are by far the most lines of the repository; what is modelled is its control, its
  protocols and its caches.

## 6. Plan

1. *Proofs*: every invariant and action property of the passing runs is proved, but for the
   count in `ProcessManager`'s `TypeOK`, which needs a sum over all processes, and what a
   busy user reads from a log in the heap, where the code itself goes wrong.
2. *Composition*: `ProcessManager` with `ControllerBridge` for a bridge that dies;
   several controllers with the set-up failure of `SimulationItem`.
