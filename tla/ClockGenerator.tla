--------------------------- MODULE ClockGenerator ---------------------------
(***************************************************************************)
(* The ClockGenerator service of GrxUI: a CORBA servant that holds a       *)
(* java.util.Vector of external-trigger execution contexts and ticks each  *)
(* one when simulation time reaches its next execution time.               *)
(*                                                                         *)
(* Two kinds of threads share the Vector with no lock around their loops:  *)
(*  - the simulation side calls resetClockReceivers() when a simulation    *)
(*    starts and updateExecutionContext(simTime) once per simulation step; *)
(*  - ORB threads run subscribe() and unsubscribe(), called by the start() *)
(*    and stop() of a SimulationExecutionContext in an RTC process.        *)
(* Vector makes size(), get(i) and remove(x) atomic one by one; every such *)
(* call is one action here.                                                *)
(*                                                                         *)
(* Times are whole numbers of one unit; i is 0-based as in the source.     *)
(***************************************************************************)
EXTENDS Integers, Sequences

CONSTANTS
    EC,         \* the execution contexts of the RTC processes
    Period,     \* Period[c] = 1.0/get_rate(), passed to subscribe
    StepTime,   \* stepTime_ of the simulation
    TotalTime,  \* totalTime_ of the simulation
    MaxSubs     \* bound: how many subscriptions are ever made

ASSUME ClockAssumption ==
    /\ Period \in [EC -> Nat \ {0}]
    /\ StepTime \in Nat \ {0}
    /\ TotalTime \in Nat
    /\ MaxSubs \in Nat

VARIABLES
    ecs,        \* Vector<ExecutionContext> ecs_: object identities
    obj,        \* obj[id]: fields of the id-th ExecutionContext object made
    running,    \* m_running of each SimulationExecutionContext
    call,       \* the start()/stop() call each context has in progress
    alive,      \* whether the RTC process still answers remote calls
    simTime,    \* simTime_
    sim,        \* the simulation side: control point, loop index i, fetched ec
    done,       \* history: objects executed (or reset) by the current pass
    ahead,      \* history: ahead[id] = entries before id when it subscribed
    missed,     \* history: missed[id] = completed passes that skipped id
    stale       \* history: objects the last reset pass skipped

vecVars  == <<ecs, obj>>
corba    == <<running, call, alive>>
history  == <<done, ahead, missed, stale>>
vars     == <<ecs, obj, running, call, alive, simTime, sim,
              done, ahead, missed, stale>>

Id == DOMAIN obj
Elems(v) == {v[k] : k \in DOMAIN v}

\* Vector.remove(Object): drops the first equal element, here the only one.
RemoveElem(v, id) ==
    IF \E k \in DOMAIN v : v[k] = id
    THEN LET p == CHOOSE k \in DOMAIN v : v[k] = id
         IN  [k \in 1..(Len(v) - 1) |-> IF k < p THEN v[k] ELSE v[k + 1]]
    ELSE v

Idle == [op |-> "none", i |-> 0, cur |-> 0]

Init ==
    /\ ecs = <<>>
    /\ obj = <<>>
    /\ running = [c \in EC |-> FALSE]
    /\ call = [c \in EC |-> Idle]
    /\ alive = [c \in EC |-> TRUE]
    /\ simTime = 0
    /\ sim = [pc |-> "idle", i |-> 0, cur |-> 0]
    /\ done = {}
    /\ ahead = <<>>
    /\ missed = <<>>
    /\ stale = {}

-----------------------------------------------------------------------------
(* SimulationExecutionContext::start() and stop(), and the servant calls.  *)

Pending == {c \in EC : call[c].op = "subscribe"}

\* start(): the base class accepts only a stopped context; subscribe follows.
ECStart(c) ==
    /\ alive[c] /\ ~running[c] /\ call[c] = Idle
    /\ Pending = {} /\ Len(obj) < MaxSubs
    /\ running' = [running EXCEPT ![c] = TRUE]
    /\ call' = [call EXCEPT ![c] = [Idle EXCEPT !.op = "subscribe"]]
    /\ UNCHANGED <<vecVars, alive, simTime, sim, history>>

\* Mutant of AddEntry: the new object goes to the front.
AddEntryAtFront(v, id) == <<id>> \o v

\* ecs_.add(...)
AddEntry(v, id) == Append(v, id)

\* subscribe(ec, period): a new object, next execution time 0, at the end.
Subscribe(c) ==
    /\ call[c].op = "subscribe"
    /\ obj' = Append(obj, [ec |-> c, next |-> 0])
    /\ ecs' = AddEntry(ecs, Len(obj) + 1)
    /\ ahead' = Append(ahead, Len(ecs))
    /\ missed' = Append(missed, 0)
    /\ call' = [call EXCEPT ![c] = Idle]
    /\ UNCHANGED <<running, alive, simTime, sim, done, stale>>

\* stop(): only a running context calls unsubscribe.
ECStop(c) ==
    /\ alive[c] /\ running[c] /\ call[c] = Idle
    /\ call' = [call EXCEPT ![c] = [Idle EXCEPT !.op = "size"]]
    /\ UNCHANGED <<vecVars, running, alive, simTime, sim, history>>

\* unsubscribe: i < ecs_.size(); when the loop ends nothing was removed, and
\* stop() still clears m_running.
UnsubSize(c) ==
    /\ call[c].op = "size"
    /\ IF call[c].i < Len(ecs)
       THEN call' = [call EXCEPT ![c].op = "get"] /\ UNCHANGED running
       ELSE /\ call' = [call EXCEPT ![c] = Idle]
            /\ running' = [running EXCEPT ![c] = FALSE]
    /\ UNCHANGED <<vecVars, alive, simTime, sim, history>>

\* unsubscribe: ecs_.get(i). Out of range it throws, the remote caller gets an
\* exception, and stop() is left before m_running = false.
UnsubGet(c) ==
    /\ call[c].op = "get"
    /\ call' = [call EXCEPT ![c] =
                  IF call[c].i < Len(ecs)
                  THEN [op |-> "match", i |-> call[c].i,
                        cur |-> ecs[call[c].i + 1]]
                  ELSE Idle]
    /\ UNCHANGED <<vecVars, running, alive, simTime, sim, history>>

\* Mutant of Unsubscribed: removes whatever is at index i by now.
UnsubscribedByIndex(c) ==
    IF call[c].i < Len(ecs) THEN RemoveElem(ecs, ecs[call[c].i + 1]) ELSE ecs

\* ecs_.remove(ec2)
Unsubscribed(c) == RemoveElem(ecs, call[c].cur)

\* unsubscribe: _is_equivalent, then remove and return, or the next index.
UnsubMatch(c) ==
    /\ call[c].op = "match"
    /\ IF obj[call[c].cur].ec = c
       THEN /\ ecs' = Unsubscribed(c)
            /\ call' = [call EXCEPT ![c] = Idle]
            /\ running' = [running EXCEPT ![c] = FALSE]
       ELSE /\ call' = [call EXCEPT ![c] =
                          [op |-> "size", i |-> call[c].i + 1, cur |-> 0]]
            /\ UNCHANGED <<ecs, running>>
    /\ UNCHANGED <<obj, alive, simTime, sim, history>>

\* The RTC process ends; remote calls to it raise from now on.
Die(c) ==
    /\ alive[c]
    /\ alive' = [alive EXCEPT ![c] = FALSE]
    /\ UNCHANGED <<vecVars, running, call, simTime, sim, history>>

-----------------------------------------------------------------------------
(* The simulation side: the two loops over the Vector.                     *)

\* startSimulation() enters resetClockReceivers().
StartSim ==
    /\ sim.pc = "idle"
    /\ sim' = [pc |-> "resetSize", i |-> 0, cur |-> 0]
    /\ done' = {}
    /\ UNCHANGED <<vecVars, corba, simTime, ahead, missed, stale>>

\* What a pass that ends here has skipped.
Skipped == Elems(ecs) \ done
CountMissed == [id \in Id |-> IF id \in Skipped THEN missed[id] + 1
                                                ELSE missed[id]]

ResetSize ==
    /\ sim.pc = "resetSize"
    /\ IF sim.i < Len(ecs)
       THEN /\ sim' = [sim EXCEPT !.pc = "resetGet"]
            /\ UNCHANGED <<simTime, missed, stale>>
       ELSE /\ sim' = [sim EXCEPT !.pc = "step"]
            /\ simTime' = 0
            /\ missed' = CountMissed
            /\ stale' = Skipped
    /\ UNCHANGED <<vecVars, corba, done, ahead>>

\* get(i); out of range, the exception leaves startSimulation().
ResetGet ==
    /\ sim.pc = "resetGet"
    /\ sim' = IF sim.i < Len(ecs)
              THEN [pc |-> "reset", i |-> sim.i, cur |-> ecs[sim.i + 1]]
              ELSE [sim EXCEPT !.pc = "idle"]
    /\ UNCHANGED <<vecVars, corba, simTime, history>>

\* Mutant of Reset: reset() forgotten.
ResetForgotten(id) == obj[id].next

\* ExecutionContext.reset()
Reset(id) == 0

\* get_rate() answers: reset and i++; it raises: the object is removed.
ResetOne ==
    /\ sim.pc = "reset"
    /\ IF alive[obj[sim.cur].ec]
       THEN /\ obj' = [obj EXCEPT ![sim.cur].next = Reset(sim.cur)]
            /\ done' = done \cup {sim.cur}
            /\ sim' = [pc |-> "resetSize", i |-> sim.i + 1, cur |-> 0]
            /\ UNCHANGED ecs
       ELSE /\ ecs' = RemoveElem(ecs, sim.cur)
            /\ sim' = [pc |-> "resetSize", i |-> sim.i, cur |-> 0]
            /\ UNCHANGED <<obj, done>>
    /\ UNCHANGED <<corba, simTime, ahead, missed, stale>>

\* simulateOneStep(): past the total time the simulation ends, otherwise time
\* advances and updateExecutionContext(simTime_) begins.
Step ==
    /\ sim.pc = "step"
    /\ IF simTime > TotalTime
       THEN sim' = [sim EXCEPT !.pc = "idle"] /\ UNCHANGED <<simTime, done>>
       ELSE /\ simTime' = simTime + StepTime
            /\ sim' = [pc |-> "size", i |-> 0, cur |-> 0]
            /\ done' = {}
    /\ UNCHANGED <<vecVars, corba, ahead, missed, stale>>

\* stopSimulation() takes effect between two steps.
StopSim ==
    /\ sim.pc = "step"
    /\ sim' = [sim EXCEPT !.pc = "idle"]
    /\ UNCHANGED <<vecVars, corba, simTime, history>>

UpdateSize ==
    /\ sim.pc = "size"
    /\ IF sim.i < Len(ecs)
       THEN sim' = [sim EXCEPT !.pc = "get"] /\ UNCHANGED missed
       ELSE sim' = [sim EXCEPT !.pc = "step"] /\ missed' = CountMissed
    /\ UNCHANGED <<vecVars, corba, simTime, done, ahead, stale>>

\* get(i); out of range, the exception interrupts the simulation.
UpdateGet ==
    /\ sim.pc = "get"
    /\ sim' = IF sim.i < Len(ecs)
              THEN [pc |-> "execute", i |-> sim.i, cur |-> ecs[sim.i + 1]]
              ELSE [sim EXCEPT !.pc = "idle"]
    /\ UNCHANGED <<vecVars, corba, simTime, history>>

Due(id) == simTime >= obj[id].next

\* Mutant of Executed: the period is subtracted.
ExecutedBackwards(id) == obj[id].next - Period[obj[id].ec]

\* nextExecutionTime_ += period_
Executed(id) == obj[id].next + Period[obj[id].ec]

\* Mutant of AfterExecute: the loop header increments i as well.
AfterExecuteTwice(i) == i + 2

\* i++ after a successful execute
AfterExecute(i) == i + 1

\* execute(t) succeeds: tick and advance next when due; then i++.
ExecuteOk ==
    /\ sim.pc = "execute"
    /\ Due(sim.cur) => alive[obj[sim.cur].ec]
    /\ obj' = IF Due(sim.cur)
              THEN [obj EXCEPT ![sim.cur].next = Executed(sim.cur)]
              ELSE obj
    /\ done' = done \cup {sim.cur}
    /\ sim' = [pc |-> "size", i |-> AfterExecute(sim.i), cur |-> 0]
    /\ UNCHANGED <<ecs, corba, simTime, ahead, missed, stale>>

\* execute(t) fails: tick() raised, the object is removed, i stays.
ExecuteFail ==
    /\ sim.pc = "execute"
    /\ Due(sim.cur) /\ ~alive[obj[sim.cur].ec]
    /\ ecs' = RemoveElem(ecs, sim.cur)
    /\ sim' = [pc |-> "size", i |-> sim.i, cur |-> 0]
    /\ UNCHANGED <<obj, corba, simTime, history>>

-----------------------------------------------------------------------------

ClientNext ==
    \E c \in EC :
        \/ ECStart(c) \/ Subscribe(c) \/ ECStop(c)
        \/ UnsubSize(c) \/ UnsubGet(c) \/ UnsubMatch(c) \/ Die(c)

SimNext ==
    \/ StartSim \/ ResetSize \/ ResetGet \/ ResetOne
    \/ Step \/ StopSim \/ UpdateSize \/ UpdateGet \/ ExecuteOk \/ ExecuteFail

Next == ClientNext \/ SimNext

Spec == Init /\ [][Next]_vars

-----------------------------------------------------------------------------
(* Properties.                                                             *)

Ops == {"none", "subscribe", "size", "get", "match"}
Pcs == {"idle", "resetSize", "resetGet", "reset",
        "step", "size", "get", "execute"}
Updating == sim.pc \in {"step", "size", "get", "execute"}

\* Types; the histories have one slot per object ever made.
TypeOK ==
    /\ obj \in Seq([ec : EC, next : Nat])
    /\ ecs \in Seq(Id)
    /\ running \in [EC -> BOOLEAN]
    /\ alive \in [EC -> BOOLEAN]
    /\ call \in [EC -> [op : Ops, i : Nat, cur : Id \cup {0}]]
    /\ \A c \in EC : call[c].op = "match" => call[c].cur \in Id
    /\ simTime \in Nat
    /\ sim \in [pc : Pcs, i : Nat, cur : Id \cup {0}]
    /\ sim.pc \in {"reset", "execute"} => sim.cur \in Id
    /\ done \subseteq Id
    /\ stale \subseteq Id
    /\ ahead \in Seq(Nat) /\ Len(ahead) = Len(obj)
    /\ missed \in Seq(Nat) /\ Len(missed) = Len(obj)

\* However subscribe and unsubscribe interleave with the unlocked index loop
\* of updateExecutionContext, no ExecutionContext is executed twice in one
\* pass: removals only shift entries towards the part already visited.
ExecutedOncePerPass ==
    sim.pc \in {"reset", "execute"} => sim.cur \notin done

\* Nobody else's unsubscribe, and no failed tick of another process, removes
\* the entry of a context that is running: a live context that has started
\* and not stopped is in ecs_, even after its own unsubscribe threw.
RunningStaysSubscribed ==
    \A c \in EC :
        running[c] /\ alive[c] /\ call[c].op # "subscribe"
            => \E k \in DOMAIN ecs : obj[ecs[k]].ec = c

\* A pass may skip an entry when an earlier one is removed under it. Each skip
\* is paid for by an earlier subscriber that left, and one more is possible for
\* the pass in progress at subscription, whose index may already be past the
\* end of the shortened Vector: over all passes an entry is skipped at most
\* once more than there were entries before it when it subscribed.
OvertakenOnlyByDepartures ==
    \A k \in DOMAIN ecs : missed[ecs[k]] + (k - 1) <= ahead[ecs[k]] + 1

\* During a simulation the next execution time of a subscribed context is at
\* most one period in the future, whatever the previous simulation left in it,
\* unless resetClockReceivers itself skipped the entry.
ResetReachesAllButOvertaken ==
    Updating =>
        \A k \in DOMAIN ecs :
            ecs[k] \notin stale =>
                obj[ecs[k]].next <= simTime + Period[obj[ecs[k]].ec]

\* ClockGenerator.idl: unsubscribe removes ec from the targets of the clock.
\* So a context whose stop() has returned has no entry left in ecs_.
UnsubscribeRemoves ==
    \A c \in EC :
        alive[c] /\ ~running[c] => \A k \in DOMAIN ecs : obj[ecs[k]].ec # c

=============================================================================
