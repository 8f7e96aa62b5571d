---------------------------- MODULE PathPlanner ----------------------------
(***************************************************************************)
(* The path planner: the client item that starts, cancels and repeats a    *)
(* planning (GrxPathPlanningAlgorithmItem.java), the service and the       *)
(* PathPlanner object it calls, and the two algorithms RRT and PRM with    *)
(* the road maps they grow.  calcPath() runs in a thread of the ORB;       *)
(* every turn of its loops is a step, and stopPlanning() arrives on        *)
(* another thread between any two of them.                                 *)
(*                                                                         *)
(* A client that has cancelled a planning does not wait for its end, and   *)
(* nothing keeps it from planning or optimizing again.  Two calls then run *)
(* on one PathPlanner without a lock: its trees, path and robot are what   *)
(* the race leaves of them, and the module follows only where each call is *)
(* and what the stop requests do (pc = "raced").                           *)
(***************************************************************************)
EXTENDS Roadmap, FiniteSets

CONSTANTS
    Algorithm,      \* subset of {"PRM", "RRT", "RRTboth"}; "RRTboth" is RRT
                    \* with extendFromGoal(true)
    Request,        \* start/goal pairs a client asks for
    Reuse,          \* algorithms planned with again without rebuildRoadmap
    Eps,            \* property "eps"
    MaxTrials,      \* property "max-trials"
    MaxPoints,      \* property "max-points"
    MaxCalcs,       \* bound: plannings
    MaxPath         \* bound: way points a random shortcut may still add to

\* Names and numbers; a planning samples and tries at least once, and steering
\* stays in the space.
ASSUME PlannerAssumption ==
    /\ Algorithm \subseteq {"PRM", "RRT", "RRTboth"} /\ "none" \notin Mobility
    /\ Request \subseteq Config \X Config
    /\ MaxPoints \in Nat \ {0} /\ MaxTrials \in Nat \ {0}
    /\ MaxCalcs \in Nat /\ MaxPath \in Nat /\ Eps \in Int
    /\ \A m \in Mobility, a, b \in Config :
           Distance(m, a, b) > Eps => Interpolate(m, a, b, Eps, Distance(m, a, b)) \in Config

\* The client plans with RRT again only after rebuilding it.
TreesRebuilt == Reuse \cap {"RRT", "RRTboth"} = {}

VARIABLES
    alg, mob,       \* algorithm_ ("none" = NULL) and mobility_
    start, goal,    \* start_ and goal_
    calcs,          \* plannings so far
    running,        \* isRunning_
    cancelled,      \* the client has cancelled this planning
    stopped,        \* and its stop request found the call at work (history)
    calls,          \* the calls at once, the latest last (pc = "raced")
    rm,             \* heap, and the node lists of Tstart_ (= roadmap_) and Tgoal_
    swapped,        \* Ta_ is Tgoal_
    path,           \* PathPlanner::path_
    pc,             \* where calcPath() or optimize() is, as long as it is alone
    n, j,           \* loop counters; j is also the node extractPath() is at
    ok,             \* isSucceed of RRT::calcPath()
    found,          \* Algorithm::path_, or the optimizer's copy of path_
    stack, seen     \* DFS: its path, and the nodes marked visited

request == <<alg, mob, start, goal, calcs>>
flags   == <<running, cancelled, stopped, calls>>
walk    == <<found, stack, seen>>
locals  == <<n, j, ok, walk>>

vars == <<request, flags, rm, swapped, path, pc, locals>>

Trees == [node : Seq(Node), start : Seq(Nat), goal : Seq(Nat)]

Working == {"sample", "link", "pair", "add", "join", "search",
            "grow", "connect", "extract", "up", "down"}

\* A call among others; "freed" is one whose algorithm has been deleted.  It is
\* stopped if a stop request found it at work and no planning has begun since.
Call == [at : Working \union {"idle", "called", "cut", "freed"}, stopped : BOOLEAN]

\* Types; the trees of an algorithm, the depth-first search and the extraction
\* refer to nodes that exist.
TypeOK ==
    /\ alg \in Algorithm \union {"none"} /\ mob \in Mobility \union {"none"}
    /\ <<start, goal>> \in Request /\ calcs \in 0..MaxCalcs
    /\ pc \in Working \union {"idle", "called", "cut", "raced", "crashed"}
    /\ calls \in Seq(Call) /\ rm \in Trees
    /\ \A t \in {"start", "goal"} : \A i \in DOMAIN rm[t] : rm[t][i] \in DOMAIN rm.node
    /\ {running, cancelled, stopped, swapped, ok} \subseteq BOOLEAN
    /\ {path, found} \subseteq Seq(Config)
    /\ n \in Nat /\ j \in Nat
    /\ stack \in Seq(DOMAIN rm.node) /\ seen \subseteq DOMAIN rm.node
    /\ pc \in {"up", "down"} => j \in 0..Len(rm.node)

NoRoadmap == [node |-> <<>>, start |-> <<>>, goal |-> <<>>]

Init ==
    /\ alg = "none" /\ mob = "none" /\ rm = NoRoadmap
    /\ swapped = FALSE /\ running = FALSE /\ cancelled = FALSE
    /\ stopped = FALSE /\ calls = <<>>
    /\ \E r \in Request : start = r[1] /\ goal = r[2]
    /\ path = <<>> /\ pc = "idle" /\ calcs = 0
    /\ n = 0 /\ j = 0 /\ ok = FALSE /\ found = <<>> /\ stack = <<>> /\ seen = {}

\* A call that returns: its local variables are gone.
Return ==
    /\ pc' = "idle" /\ n' = 0 /\ j' = 0 /\ ok' = FALSE
    /\ found' = <<>> /\ stack' = <<>> /\ seen' = {}

-----------------------------------------------------------------------------
(* The client *)

Latest == calls[Len(calls)]

\* The dialog has closed, and the call it was opened for goes on.
LeftBehind == pc \in Working \union {"called"} /\ cancelled

\* optimize() keeps the client; a planning does until it ends or is cancelled.
ClientIsFree ==
    \/ pc = "idle" \/ LeftBehind
    \/ /\ pc = "raced" /\ (Latest.at = "idle" \/ cancelled)
       /\ \A i \in DOMAIN calls : calls[i].at # "cut"

UnderWay == IF pc = "raced" THEN calls ELSE <<[at |-> pc, stopped |-> stopped]>>

\* A call begins among others: the planner's data are no longer followed.
Overlaps(others, at) ==
    /\ pc' = "raced" /\ calls' = Append(others, [at |-> at, stopped |-> FALSE])
    /\ rm' = NoRoadmap /\ swapped' = FALSE /\ path' = <<>>
    /\ n' = 0 /\ j' = 0 /\ ok' = FALSE /\ found' = <<>> /\ stack' = <<>> /\ seen' = {}

\* setAlgorithmName() and setMobilityName() delete what the calls at work use.
Freed(others) ==
    [i \in DOMAIN others |->
        [others[i] EXCEPT !.at = IF @ \in Working THEN "freed" ELSE @]]

\* startCalc() with rebuildRoadmap: a new algorithm object, hence empty trees.
StartCalc(a, m, r) ==
    /\ ClientIsFree /\ calcs < MaxCalcs /\ calcs' = calcs + 1
    /\ alg' = a /\ mob' = m /\ start' = r[1] /\ goal' = r[2]
    /\ running' = FALSE /\ cancelled' = FALSE /\ stopped' = FALSE
    /\ \/ /\ pc = "idle" /\ pc' = "called" /\ rm' = NoRoadmap /\ swapped' = FALSE
          /\ UNCHANGED <<path, locals, calls>>
       \/ pc # "idle" /\ Overlaps(Freed(UnderWay), "called")

\* startCalc() without it: the algorithm keeps its trees.  Before the first
\* planning there is no algorithm and the service dereferences a null pointer.
StartAgain(r) ==
    /\ ClientIsFree /\ calcs < MaxCalcs /\ alg \in Reuse /\ calcs' = calcs + 1
    /\ start' = r[1] /\ goal' = r[2]
    /\ cancelled' = FALSE /\ stopped' = FALSE
    /\ \/ /\ pc = "idle" /\ pc' = IF alg = "none" THEN "crashed" ELSE "called"
          /\ UNCHANGED <<rm, swapped, path, locals, calls>>
       \/ pc # "idle" /\ Overlaps(UnderWay, "called")
    /\ UNCHANGED <<alg, mob, running>>

\* One flag stops all the calls at work.
Asked == [i \in DOMAIN calls |-> [calls[i] EXCEPT !.stopped = @ \/ calls[i].at \in Working]]

\* Only the dialog of a planning has a cancel button.
StopPlanning ==
    /\ ~cancelled /\ cancelled' = TRUE /\ running' = FALSE
    /\ \/ /\ pc \in Working \union {"called"} /\ stopped' = (pc # "called")
          /\ UNCHANGED calls
       \/ /\ pc = "raced" /\ Latest.at \in Working \union {"called"}
          /\ calls' = Asked /\ UNCHANGED stopped
    /\ UNCHANGED <<request, rm, swapped, path, pc, locals>>

\* optimize() over the call the client has left behind.
OptimizeOver ==
    /\ LeftBehind /\ Overlaps(UnderWay, "cut")
    /\ UNCHANGED <<request, running, cancelled, stopped>>

\* Tgoal_ is empty between plannings, so no node survives.
ClearRoadmap ==
    /\ pc = "idle" /\ alg # "none"
    /\ rm' = NoRoadmap
    /\ UNCHANGED <<request, flags, swapped, path, pc, locals>>

-----------------------------------------------------------------------------
(* PathPlanner::calcPath(): preparePlanning(), tryDirectConnection() *)

\* Mutant: the goal configuration is not looked at.
PrepareFailsAtStart == start \in Blocked

PrepareFails == start \in Blocked \/ goal \in Blocked

\* RRT::calcPath() begins with a node for start_ and one for goal_.
PlantTrees(r) ==
    LET k == Len(r.node)
    IN  [node  |-> r.node \o <<NewNode(start), NewNode(goal)>>,
         start |-> Append(r.start, k + 1), goal |-> Append(r.goal, k + 2)]

CalcPath ==
    /\ pc = "called" /\ running' = TRUE
    /\ \/ /\ PrepareFails /\ path' = <<>> /\ pc' = "idle" /\ UNCHANGED rm
       \/ /\ ~PrepareFails /\ isReachable(mob, start, goal)
          /\ path' = <<start, goal>> /\ pc' = "idle" /\ UNCHANGED rm
       \/ /\ ~PrepareFails /\ ~isReachable(mob, start, goal) /\ path' = <<>>
          /\ \/ /\ alg = "PRM" /\ UNCHANGED rm
                /\ pc' = IF rm.start = <<>> THEN "sample" ELSE "add"
             \/ /\ alg # "PRM" /\ rm' = PlantTrees(rm) /\ pc' = "grow"
    /\ UNCHANGED <<request, cancelled, stopped, calls, swapped, locals>>

-----------------------------------------------------------------------------
(* PRM *)

\* Mutant: a stop request is not looked at.
BuildingRegardless(loop) == pc = loop

\* The tests of isRunning_ at the head of the two loops of buildRoadmap().
Building(loop) == pc = loop /\ running

\* Mutant: the sampling loop goes on to its next turn instead of returning.
AbortsInLink == pc = "link" /\ ~running

Aborts == pc \in {"sample", "link"} /\ ~running

\* A sample in collision is drawn again and changes nothing.
Sample(q) ==
    /\ Building("sample") /\ q \notin Blocked
    /\ rm' = [rm EXCEPT !.node = Append(@, NewNode(q)),
                        !.start = Append(@, Len(rm.node) + 1)]
    /\ IF n + 1 < MaxPoints THEN n' = n + 1 /\ pc' = pc ELSE n' = 1 /\ pc' = "link"
    /\ UNCHANGED <<request, flags, swapped, path, j, ok, walk>>

\* A turn of the outer linking loop; the last node has none behind it.
LinkNode ==
    /\ Building("link")
    /\ IF n < Len(rm.start) THEN pc' = "pair" /\ j' = n + 1
       ELSE pc' = "add" /\ UNCHANGED j
    /\ UNCHANGED <<request, flags, rm, swapped, path, n, ok, walk>>

\* A turn of the inner one.
LinkPair ==
    /\ pc = "pair"
    /\ rm' = [rm EXCEPT !.node = ConnectNear(@, mob, rm.start[n], rm.start[j])]
    /\ IF j < Len(rm.start) THEN j' = j + 1 /\ UNCHANGED <<n, pc>>
       ELSE j' = 0 /\ n' = n + 1 /\ pc' = "link"
    /\ UNCHANGED <<request, flags, swapped, path, ok, walk>>

\* buildRoadmap() returns false; calcPath() does not look at the result.
BuildAborted ==
    /\ Aborts /\ pc' = "add"
    /\ UNCHANGED <<request, flags, rm, swapped, path, locals>>

\* start_ and goal_ join the road map, for good.
AddEnds ==
    /\ pc = "add" /\ pc' = "join" /\ n' = 1
    /\ rm' = [rm EXCEPT !.node = @ \o <<NewNode(start), NewNode(goal)>>,
                        !.start = @ \o <<Len(rm.node) + 1, Len(rm.node) + 2>>]
    /\ UNCHANGED <<request, flags, swapped, path, j, ok, walk>>

startNode == Len(rm.node) - 1
goalNode  == Len(rm.node)

\* A turn of the loop that joins them: the start first, then the goal.
JoinNode ==
    /\ pc = "join"
    /\ \E h \in {ConnectNear(rm.node, mob, startNode, rm.start[n])} :
           rm' = [rm EXCEPT !.node = ConnectNear(h, mob, goalNode, rm.start[n])]
    /\ IF n < Len(rm.start) THEN n' = n + 1 /\ UNCHANGED <<pc, stack, seen>>
       ELSE n' = 0 /\ pc' = "search" /\ stack' = <<startNode>> /\ seen' = {startNode}
    /\ UNCHANGED <<request, flags, swapped, path, j, ok, found>>

Top == stack[Len(stack)]

Searching == pc = "search" /\ stack # <<>> /\ Top # goalNode

Descend ==
    /\ Searching
    /\ \E c \in Unvisited(rm.node, Top, seen) :
           /\ \A d \in Unvisited(rm.node, Top, seen) : c <= d
           /\ stack' = Append(stack, rm.node[Top].children[c])
           /\ seen' = seen \union {rm.node[Top].children[c]}
    /\ UNCHANGED <<request, flags, rm, swapped, path, pc, n, j, ok, found>>

Backtrack ==
    /\ Searching /\ Unvisited(rm.node, Top, seen) = {}
    /\ stack' = SubSeq(stack, 1, Len(stack) - 1)
    /\ UNCHANGED <<request, flags, rm, swapped, path, pc, n, j, ok, found, seen>>

SearchEnds ==
    /\ pc = "search" /\ ~Searching
    /\ path' = [i \in DOMAIN stack |-> rm.node[stack[i]].pos]
    /\ Return /\ UNCHANGED <<request, flags, rm, swapped>>

-----------------------------------------------------------------------------
(* RRT *)

Both == alg = "RRTboth"
Ta == IF Both /\ swapped THEN "goal" ELSE "start"
Tb == IF Both /\ ~swapped THEN "goal" ELSE "start"

lastAddedNode(t) == rm[t][Len(rm[t])]

\* The point of the way from p to q at which the tree is extended.
Steer(p, q) ==
    LET min == Distance(mob, p, q)
    IN  IF min > Eps THEN Interpolate(mob, p, q, Eps, min) ELSE q

\* Mutant: the motion is checked forwards in both trees.
MovesForward(p, q, reverse) == isReachable(mob, p, q)

\* A goal-side tree is extended backwards: the robot moves from the new node.
Moves(p, q, reverse) ==
    IF reverse THEN isReachable(mob, q, p) ELSE isReachable(mob, p, q)

\* Tree t with a node towards q under the node near.
Extended(t, near, q) ==
    LET k == Len(rm.node) + 1
        h == Append(rm.node, NewNode(Steer(rm.node[near].pos, q)))
    IN  [rm EXCEPT !.node = IF t = "goal" THEN addEdge(h, k, near) ELSE addEdge(h, near, k),
                   ![t] = Append(@, k)]

\* extend() and its result.
Extend(t, q, ret) ==
    \E near \in findNearestNode(rm.node, mob, rm[t], q) :
        LET p    == rm.node[near].pos
            good == Steer(p, q) \notin Blocked /\ Moves(p, Steer(p, q), t = "goal")
        IN  \/ ~good /\ ret = "Trapped" /\ UNCHANGED rm
            \/ /\ good /\ rm' = Extended(t, near, q)
               /\ ret = IF Distance(mob, p, q) <= Eps THEN "Reached" ELSE "Advanced"

\* A turn of calcPath()'s loop is over; after a failed one the trees swap.
TrialEnds(succeeds) ==
    /\ n' = n + 1 /\ ok' = succeeds
    /\ swapped' = IF Both /\ ~succeeds THEN ~swapped ELSE swapped
    /\ pc' = IF succeeds \/ n + 1 = MaxTrials THEN "extract" ELSE "grow"

Grow(q) ==
    /\ pc = "grow"
    /\ \/ Extend(Ta, q, "Trapped") /\ TrialEnds(FALSE)
       \/ /\ \E ret \in {"Reached", "Advanced"} : Extend(Ta, q, ret)
          /\ pc' = "connect" /\ UNCHANGED <<n, ok, swapped>>
    /\ UNCHANGED <<request, flags, path, j, walk>>

\* extend() leaves in qNew what it has reached; connect() goes there, or to the
\* goal, until it is trapped or arrives.
Connect ==
    LET q == IF Both THEN rm.node[lastAddedNode(Ta)].pos ELSE goal
    IN  /\ pc = "connect"
        /\ \/ Extend(Tb, q, "Advanced") /\ UNCHANGED <<pc, n, ok, swapped>>
           \/ \E ret \in {"Reached", "Trapped"} :
                  Extend(Tb, q, ret) /\ TrialEnds(ret = "Reached")
        /\ UNCHANGED <<request, flags, path, j, walk>>

\* extractPath() runs after a failed search too.
Extract ==
    /\ pc = "extract" /\ pc' = "up" /\ n' = 0
    /\ j' = lastAddedNode("start")
    /\ UNCHANGED <<request, flags, rm, swapped, path, ok, walk>>

WalkUp ==
    /\ pc = "up" /\ j # 0
    /\ found' = <<rm.node[j].pos>> \o found /\ j' = First(rm.node[j].parents)
    /\ UNCHANGED <<request, flags, rm, swapped, path, pc, n, ok, stack, seen>>

\* When the goal tree has only its root, goalMidNode has no child and a null
\* pointer is dereferenced.
TurnRound ==
    LET on == First(rm.node[lastAddedNode("goal")].children)
    IN  /\ pc = "up" /\ j = 0 /\ Both
        /\ j' = on /\ pc' = IF on = 0 THEN "crashed" ELSE "down"
        /\ UNCHANGED <<request, flags, rm, swapped, path, n, ok, walk>>

WalkDown ==
    /\ pc = "down" /\ j # 0
    /\ found' = Append(found, rm.node[j].pos) /\ j' = First(rm.node[j].children)
    /\ UNCHANGED <<request, flags, rm, swapped, path, pc, n, ok, stack, seen>>

\* Mutant: the loop starts at the second node.
IntegratedButRoot(r) ==
    [r EXCEPT !.start = @ \o SubSeq(r.goal, 2, Len(r.goal)), !.goal = <<>>]

\* Tgoal_->integrate(Tstart_)
Integrated(r) == [r EXCEPT !.start = @ \o r.goal, !.goal = <<>>]

CalcEnds ==
    /\ pc = (IF Both THEN "down" ELSE "up") /\ j = 0
    /\ path' = IF ok THEN found ELSE path
    /\ rm' = Integrated(rm)
    /\ Return /\ UNCHANGED <<request, flags, swapped>>

-----------------------------------------------------------------------------
(* The optimizers *)

Erase(p, i) == SubSeq(p, 1, i - 1) \o SubSeq(p, i + 1, Len(p))

\* ShortcutOptimizer::optimize()
OptimizeShortcut ==
    /\ pc = "idle" /\ Len(path) >= 3
    /\ pc' = "cut" /\ found' = path /\ j' = 2
    /\ UNCHANGED <<request, flags, rm, swapped, path, n, ok, stack, seen>>

Cut ==
    /\ pc = "cut" /\ j # Len(found)
    /\ IF isReachable(mob, found[j - 1], found[j + 1])
       THEN found' = Erase(found, j) /\ UNCHANGED j
       ELSE j' = j + 1 /\ UNCHANGED found
    /\ UNCHANGED <<request, flags, rm, swapped, path, pc, n, ok, stack, seen>>

CutEnds ==
    /\ pc = "cut" /\ j = Len(found) /\ path' = found
    /\ Return /\ UNCHANGED <<request, flags, rm, swapped>>

\* RandomShortcutOptimizer::optimize(): two points of two segments are joined.
OptimizeRandom(i, k) ==
    /\ pc = "idle" /\ Len(path) \in 3..MaxPath /\ i < k /\ k < Len(path)
    /\ \E a \in Points(mob, path[i], path[i + 1]), b \in Points(mob, path[k], path[k + 1]) :
           /\ isReachable(mob, a, b)
           /\ path' = SubSeq(path, 1, i) \o <<a, b>> \o SubSeq(path, k + 1, Len(path))
    /\ UNCHANGED <<request, flags, rm, swapped, pc, locals>>

\* The random index rounds up to the number of segments: a read past the path.
OptimizeOverrun ==
    /\ pc = "idle" /\ Len(path) >= 3 /\ pc' = "crashed"
    /\ UNCHANGED <<request, flags, rm, swapped, path, locals>>

-----------------------------------------------------------------------------
(* Calls at once *)

\* Where a turn may take each of them, whatever it finds in the shared data.  They
\* read and write one isRunning_.
Turns ==
    [called  |-> IF alg = "PRM" THEN {"idle", "sample", "add"} ELSE {"idle", "grow"},
     sample  |-> IF running THEN {"link"} ELSE {"add"},
     link    |-> IF running THEN {"pair", "add"} ELSE {"add"},
     pair    |-> {"link"},
     add     |-> {"join"},
     join    |-> {"search"},
     search  |-> {"idle"},
     grow    |-> {"connect", "extract"},
     connect |-> {"grow", "extract"},
     extract |-> {"up"},
     up      |-> IF alg = "RRTboth" THEN {"down"} ELSE {"idle"},
     down    |-> {"idle"},
     cut     |-> {"idle"}]

\* preparePlanning() sets the flag under all of them.
Turned(i, next) ==
    [k \in DOMAIN calls |->
        [at      |-> IF k = i THEN next ELSE calls[k].at,
         stopped |-> calls[k].stopped /\ calls[i].at # "called"]]

AtWork(i) == pc = "raced" /\ calls[i].at # "idle"

RacedTurn(i) ==
    /\ AtWork(i) /\ calls[i].at # "freed"
    /\ running' = (running \/ calls[i].at = "called")
    /\ \E next \in Turns[calls[i].at] : calls' = Turned(i, next)
    /\ UNCHANGED <<request, cancelled, stopped, rm, swapped, path, pc, locals>>

\* Undefined behaviour: they may take the server down.
RacedCrash ==
    /\ \E i \in DOMAIN calls : AtWork(i) /\ calls[i].at # "called"
    /\ pc' = "crashed"
    /\ UNCHANGED <<request, flags, rm, swapped, path, locals>>

-----------------------------------------------------------------------------
Client ==
    \/ \E r \in Request : StartAgain(r) \/ \E a \in Algorithm, m \in Mobility : StartCalc(a, m, r)
    \/ StopPlanning \/ ClearRoadmap
    \/ OptimizeShortcut \/ OptimizeOverrun \/ OptimizeOver
    \/ \E i, k \in DOMAIN path : OptimizeRandom(i, k)

Planner ==
    \/ CalcPath
    \/ LinkNode \/ LinkPair \/ BuildAborted \/ AddEnds \/ JoinNode
    \/ Descend \/ Backtrack \/ SearchEnds
    \/ Connect \/ Extract \/ WalkUp \/ TurnRound \/ WalkDown \/ CalcEnds
    \/ Cut \/ CutEnds
    \/ \E q \in Config : Sample(q) \/ Grow(q)

Raced == RacedCrash \/ \E i \in DOMAIN calls : RacedTurn(i)

Next == Client \/ Planner \/ Raced

\* The ORB thread that serves a call runs, and a random configuration is drawn
\* free of collision sooner or later.
Spec == Init /\ [][Next]_vars /\ WF_vars(Planner)

-----------------------------------------------------------------------------
\* A path the client can fetch goes from the requested start to the requested
\* goal, and no configuration the robot takes on the way is in collision:
\* PathPlanner::getPath() at any moment from the call of calcPath() on (a client
\* that has cancelled does not wait for its end), and after any number of
\* optimize(), unless two calls have run at once.
PathIsMotion ==
    pc \notin {"called", "raced"} /\ path # <<>> =>
        /\ path[1] = start /\ path[Len(path)] = goal
        /\ \A i \in 1..(Len(path) - 1) : FreeMotion(mob, path[i], path[i + 1])

Count(s, x) == Cardinality({i \in DOMAIN s : s[i] = x})

\* Every edge of every tree is a motion the robot can make, entered at both of
\* its ends, through growing, linking, integrating and searching.
EdgesAreMoves ==
    LET h == rm.node
    IN  \A a, b \in DOMAIN h :
            /\ Count(h[a].children, b) = Count(h[b].parents, a)
            /\ Count(h[a].children, b) > 0 => FreeMotion(mob, h[a].pos, h[b].pos)

\* getRoadmap() finds every neighbour of a node in the road map it returns
\* (indexOfNode() never answers -1), and DFS() clears every mark it relies on.
RoadmapClosed ==
    \A t \in {"start", "goal"} :
        LET ids == {rm[t][i] : i \in DOMAIN rm[t]}
        IN  \A i \in ids : \A c \in DOMAIN rm.node[i].children :
                rm.node[i].children[c] \in ids

\* The depth-first search of PRM::calcPath() answers "no path" only when the
\* road map, start and goal joined to it, has none.
SearchComplete ==
    [][pc = "search" /\ pc' = "idle" =>
        (path' = <<>>) = ~Connected(rm.node, startNode, goalNode)]_vars

\* A stop request that finds buildRoadmap() at work is lost only to the
\* preparePlanning() of another call.  Until there is one, no further configuration is
\* drawn, and no edge is entered but those of the node in hand; and a call that goes
\* on beside others, left behind or not, begins no further loop.
PRMStops ==
    [][/\ stopped /\ pc \in {"sample", "link", "pair"} /\ pc' # "raced" =>
              /\ ~running' /\ Len(rm'.node) = Len(rm.node)
              /\ pc = "pair" \/ (rm' = rm /\ pc' # "pair")
       /\ \A i \in DOMAIN calls : calls[i].stopped =>
              <<calls[i].at, calls'[i].at>> \notin {<<"sample", "link">>, <<"link", "pair">>}]_vars

\* A calcPath() call is answered, or has taken the server down, unless another is
\* begun over it.
CalcReturns == pc = "called" ~> pc \in {"idle", "raced", "crashed"}

=============================================================================
