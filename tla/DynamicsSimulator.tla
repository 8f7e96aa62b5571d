------------------------- MODULE DynamicsSimulator -------------------------
(***************************************************************************)
(* The dynamics simulator server (AistDynamicsSimulator), the part of the  *)
(* world and of the constraint force solver that its calls change, and the *)
(* collision detector it creates, under the clients that drive it: the     *)
(* simulation of GrxSimulationItem with integration ("simulation") and     *)
(* without ("kinematic"), and the 3D view's BehaviorManager ("behavior").  *)
(* The simulator computes character positions, sensor states and contacts  *)
(* once and hands out copies; two flags say when to compute again.         *)
(***************************************************************************)
EXTENDS CollisionDetector

CONSTANTS
    Client,         \* subset of {"simulation", "kinematic", "behavior"}
    PairItem,       \* the link pairs the client registers, as ordered pairs
    MaxPairs,       \* bound: pairs registered in a session
    MaxSessions     \* bound: simulators created

ASSUME SimulatorAssumption ==
    /\ 0 \in Pose
    /\ \A l \in Link : Owner(l) \in Name
    /\ Client \subseteq {"simulation", "kinematic", "behavior"}
    /\ PairItem \subseteq Link \X Link
    /\ MaxPairs \in Nat /\ MaxSessions \in Nat

VARIABLES
    client, phase,  \* the client and where it is in its protocol
    names,          \* names of the bodies of the world, by index
    q, p,           \* per body: configuration set, and pose of its links
    sent, sens,     \* allCharacterPositions, allCharacterSensorStates
    needPos, needSens,  \* needToUpdatePositions, needToUpdateSensorStates
    solver,         \* collisionCheckLinkPairs
    collisions,     \* contacts of the last query
    seen,           \* what getWorldState() returned last
    todo, asked,    \* models not registered yet, pairs registered
    sessions

world == <<names, q, p>>
caches == <<sent, sens, needPos, needSens>>
vars == <<cdVars, world, caches, solver, collisions, client, phase, seen, todo,
          asked, sessions>>

Bodies == DOMAIN names
NotSeen == [pos |-> <<>>, col |-> <<>>]

\* Types; from init() on the sequences that are handed out have an entry for
\* every body, and the detector's pairs refer to bodies it has.
TypeOK ==
    /\ cdTypeOK
    /\ client \in Client \union {"none"}
    /\ phase \in {"none", "register", "setup", "pairs", "run"}
    /\ names \in Seq(Name) /\ q \in [Bodies -> Pose] /\ p \in [Bodies -> Pose]
    /\ phase \in {"setup", "pairs", "run"} =>
           sent \in [Bodies -> Pose] /\ sens \in [Bodies -> Pose]
    /\ {needPos, needSens} \subseteq BOOLEAN
    /\ \A i \in DOMAIN solver : solver[i] \in Link \X Link
    /\ todo \subseteq Name /\ asked \in 0..MaxPairs /\ sessions \in 0..MaxSessions

Init ==
    /\ client = "none" /\ phase = "none"
    /\ bodyOf = [c \in Name |-> 0] /\ posed = <<>> /\ pairs = <<>>
    /\ names = <<>> /\ q = <<>> /\ p = <<>> /\ sent = <<>> /\ sens = <<>>
    /\ needPos = TRUE /\ needSens = TRUE
    /\ solver = <<>> /\ collisions = <<>> /\ seen = NotSeen
    /\ todo = {} /\ asked = 0 /\ sessions = 0

-----------------------------------------------------------------------------
(* Setting up *)

\* Mutant: the simulator of the session before is used again.
getDynamicsSimulatorKept == UNCHANGED <<cdVars, world, caches, solver, collisions>>

\* The old simulator is destroyed, a new one created, with its detector.
getDynamicsSimulator ==
    /\ cdCreated
    /\ names' = <<>> /\ q' = <<>> /\ p' = <<>> /\ sent' = <<>> /\ sens' = <<>>
    /\ needPos' = TRUE /\ needSens' = TRUE /\ solver' = <<>> /\ collisions' = <<>>

NewSession(c) ==
    /\ sessions < MaxSessions /\ phase \in {"none", "run"}
    /\ getDynamicsSimulator
    /\ client' = c /\ phase' = "register" /\ sessions' = sessions + 1
    /\ todo' = Name /\ asked' = 0 /\ seen' = NotSeen

\* The client registers each of its models once.
registerCharacter(c) ==
    /\ phase = "register" /\ c \in todo /\ todo' = todo \ {c}
    /\ cdRegisterCharacter(c)
    /\ names' = Append(names, c) /\ q' = Append(q, 0) /\ p' = Append(p, 0)
    /\ UNCHANGED <<caches, solver, collisions, client, phase, seen, asked, sessions>>

Sized == [b \in Bodies |-> 0]

\* init() sets the bodies to their initial configuration and sizes the
\* sequences it will hand out; the two flags are left as they are.
init ==
    /\ phase = "register" /\ todo = {} /\ phase' = "setup"
    /\ q' = [b \in Bodies |-> 0] /\ p' = q'
    /\ sent' = Sized /\ sens' = Sized
    /\ UNCHANGED <<cdVars, names, needPos, needSens, solver, collisions, client,
                   seen, todo, asked, sessions>>

-----------------------------------------------------------------------------
(* Registering link pairs *)

\* getIndexOfLinkPairs(): the pair is looked up whichever way round it is.
IndexOfPair(l1, l2) ==
    LET known == {i \in DOMAIN solver : {solver[i][1], solver[i][2]} = {l1, l2}}
    IN  IF known = {} THEN Len(solver) + 1 ELSE CHOOSE i \in known : TRUE

\* Mutant: every registration is passed on to the detector.
PassedOnAlways(i) == TRUE

PassedOn(i) == i > Len(solver)

\* addCollisionCheckLinkPair() overwrites the entry of a pair it knows, links
\* in the order of this call; only a new pair is passed on to the detector.
registerCollisionCheckPair(l1, l2) ==
    LET i == IndexOfPair(l1, l2)
    IN  /\ phase = "pairs" /\ client # "behavior" /\ l1 # l2 /\ asked < MaxPairs
        /\ solver' = [k \in 1..(IF i > Len(solver) THEN i ELSE Len(solver)) |->
                         IF k = i THEN <<l1, l2>> ELSE solver[k]]
        /\ IF PassedOn(i) THEN cdAddCollisionPair(l1, l2) ELSE UNCHANGED pairs
        /\ asked' = asked + 1
        /\ UNCHANGED <<bodyOf, posed, world, caches, collisions, client, phase, seen,
                       todo, sessions>>

\* The detector alone learns of the pair.
registerIntersectionCheckPair(l1, l2) ==
    /\ phase = "pairs" /\ client = "behavior" /\ l1 # l2 /\ asked < MaxPairs
    /\ cdAddCollisionPair(l1, l2) /\ asked' = asked + 1
    /\ UNCHANGED <<bodyOf, posed, world, caches, solver, collisions, client, phase,
                   seen, todo, sessions>>

-----------------------------------------------------------------------------
(* Positions, sensor states, contacts *)

Touched == needPos' = TRUE /\ needSens' = TRUE

\* _updateCharacterPositions() with the poses of the state after the call.
UpdatePositions == sent' = p' /\ needPos' = FALSE

\* Mutant: the detector is asked before the positions are updated.
QueryEarly == cdUpdateAllLinkPositions(names, sent) /\ UNCHANGED <<bodyOf, pairs>>

\* A query of the detector begins with the positions it is sent.
Query == cdUpdateAllLinkPositions(names, sent') /\ UNCHANGED <<bodyOf, pairs>>

QueryContacts == Query /\ collisions' = cdDetectAllCollisions

\* setCharacterLinkData(), setCharacterAllLinkData() with joint values.
setCharacterAllLinkData(b, v) ==
    /\ phase \in {"setup", "run"} /\ b \in Bodies
    /\ q' = [q EXCEPT ![b] = v] /\ Touched
    /\ UNCHANGED <<cdVars, names, p, sent, sens, solver, collisions, client, phase,
                   seen, todo, asked, sessions>>

\* A solved inverse kinematics moves the joints and the links of the body.
calcCharacterInverseKinematics(b, v) ==
    /\ phase = "run" /\ client = "behavior" /\ b \in Bodies
    /\ q' = [q EXCEPT ![b] = v] /\ p' = [p EXCEPT ![b] = v] /\ Touched
    /\ UNCHANGED <<cdVars, names, sent, sens, solver, collisions, client, phase, seen,
                   todo, asked, sessions>>

\* The initial poses are set; the simulations then compute the links' positions.
calcWorldForwardKinematics ==
    /\ \/ phase = "setup" /\ client # "behavior" /\ phase' = "pairs"
       \/ phase = "run" /\ client = "kinematic" /\ phase' = "run"
    /\ p' = q /\ Touched
    /\ UNCHANGED <<cdVars, names, q, sent, sens, solver, collisions, client, seen, todo,
                   asked, sessions>>

initSimulation ==
    /\ phase = "pairs" /\ client # "behavior" /\ phase' = "run"
    /\ UNCHANGED world /\ UpdatePositions /\ QueryContacts
    /\ UNCHANGED <<sens, needSens, solver, client, seen, todo, asked, sessions>>

\* The 3D view only registers pairs and is ready.
ViewReady ==
    /\ client = "behavior"
    /\ \/ phase = "setup" /\ phase' = "pairs"
       \/ phase = "pairs" /\ phase' = "run"
    /\ UNCHANGED <<cdVars, world, caches, solver, collisions, client, seen, todo, asked,
                   sessions>>

\* Mutant: the sensor states of the step before stay valid.
AfterStepQuiet == UNCHANGED needSens

AfterStep == needSens' = TRUE

\* One integration step, with the contacts of the query before it.
stepSimulation ==
    /\ phase = "run" /\ client = "simulation"
    /\ q' \in [Bodies -> Pose] /\ p' = q' /\ AfterStep
    /\ UpdatePositions /\ QueryContacts
    /\ UNCHANGED <<names, sens, solver, client, phase, seen, todo, asked, sessions>>

\* getCollision() of the 3D view: the models' poses are set, checkCollision(true)
\* computes the contacts, and if there are any the world state is fetched.
getCollision ==
    /\ phase = "run" /\ client = "behavior"
    /\ q' \in [Bodies -> Pose] /\ p' = q' /\ needSens' = TRUE
    /\ UpdatePositions /\ QueryContacts
    /\ seen' \in {seen, [pos |-> sent', col |-> collisions']}
    /\ UNCHANGED <<names, sens, solver, client, phase, todo, asked, sessions>>

\* getIntersection() and getDistance(): the contacts are left alone.
getIntersection ==
    /\ phase = "run" /\ client = "behavior"
    /\ q' \in [Bodies -> Pose] /\ p' = q' /\ needSens' = TRUE
    /\ UpdatePositions /\ Query
    /\ UNCHANGED <<names, sens, solver, collisions, client, phase, seen, todo, asked,
                   sessions>>

getWorldState ==
    /\ phase = "run" /\ client # "behavior" /\ UNCHANGED p
    /\ IF needPos THEN UpdatePositions ELSE UNCHANGED <<sent, needPos>>
    /\ seen' = [pos |-> sent', col |-> collisions]
    /\ UNCHANGED <<cdVars, names, q, sens, needSens, solver, collisions, client, phase,
                   todo, asked, sessions>>

getCharacterSensorState ==
    /\ phase = "run" /\ client # "behavior" /\ needSens
    /\ sens' = q /\ needSens' = FALSE
    /\ UNCHANGED <<cdVars, world, sent, needPos, solver, collisions, client, phase,
                   seen, todo, asked, sessions>>

-----------------------------------------------------------------------------
Next ==
    \/ \E c \in Client : NewSession(c)
    \/ \E c \in Name : registerCharacter(c)
    \/ init \/ calcWorldForwardKinematics \/ initSimulation \/ ViewReady
    \/ \E i \in PairItem : \/ registerCollisionCheckPair(i[1], i[2])
                          \/ registerIntersectionCheckPair(i[1], i[2])
    \/ \E b \in Bodies, v \in Pose : \/ setCharacterAllLinkData(b, v)
                                   \/ calcCharacterInverseKinematics(b, v)
    \/ stepSimulation \/ getCollision \/ getIntersection
    \/ getWorldState \/ getCharacterSensorState

Spec == Init /\ [][Next]_vars

-----------------------------------------------------------------------------
\* The flags tell the truth: positions and sensor states that would be handed
\* out again without being computed are those of the bodies.
CachesFresh ==
    phase = "run" => (~needPos => sent = p) /\ (~needSens => sens = q)

\* When the solver reads the i-th entry of the detector's answer as the contacts
\* of its i-th link pair, it is that pair, the links in the same order (the
\* contact normal points into the second one).
ContactsOnTheirPair ==
    phase = "run" /\ client # "behavior" =>
        /\ Len(solver) <= Len(collisions)
        /\ \A i \in DOMAIN solver : collisions[i].link = solver[i]

PoseOf(pos, l) == pos[CHOOSE i \in Bodies : names[i] = Owner(l)]

\* The contacts of a world state were computed at the positions it shows.  The
\* simulation without integration shows the contacts of its initial state.
StateConsistent ==
    client # "kinematic" =>
        \A i \in DOMAIN seen.col :
            LET c == seen.col[i]
            IN  c.at = <<PoseOf(seen.pos, c.link[1]), PoseOf(seen.pos, c.link[2])>>

\* Every pair of the detector is a pair of bodies it still moves.
PairsFollowBodies ==
    \A i \in DOMAIN pairs :
        pairs[i].of = <<bodyOf[Owner(pairs[i].link[1])], bodyOf[Owner(pairs[i].link[2])]>>

=============================================================================
