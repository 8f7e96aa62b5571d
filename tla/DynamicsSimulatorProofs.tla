---------------------- MODULE DynamicsSimulatorProofs ----------------------
(* Proofs that DynamicsSimulator's invariants hold for any bodies, links,  *)
(* poses and link pairs, and any number of sessions of any client.         *)
EXTENDS DynamicsSimulator, SequenceTheorems, TLAPS

-----------------------------------------------------------------------------
(* The inductive invariant.                                                *)

Registering == {"none", "register", "setup"}
Ready == {"setup", "pairs", "run"}

\* All sequences over the bodies have the same length.
SimTypes ==
    /\ phase \in {"none", "register", "setup", "pairs", "run"}
    /\ IF phase = "none" THEN client = "none" ELSE client \in Client
    /\ names \in Seq(Name) /\ posed \in Seq(Pose) /\ Len(posed) = Len(names)
    /\ q \in [1..Len(names) -> Pose] /\ p \in [1..Len(names) -> Pose]
    /\ phase \in Ready =>
           sent \in [1..Len(names) -> Pose] /\ sens \in [1..Len(names) -> Pose]
    /\ needPos \in BOOLEAN /\ needSens \in BOOLEAN
    /\ bodyOf \in [Name -> 0..Len(names)]
    /\ todo \subseteq Name /\ asked \in 0..MaxPairs /\ sessions \in 0..MaxSessions

\* A name's body in the detector bears the index of the body in the world, and from
\* init() on every character has one.
BodiesNumbered ==
    /\ \A i \in 1..Len(names) : bodyOf[names[i]] = i
    /\ \A c \in Name : bodyOf[c] # 0 => names[bodyOf[c]] = c
    /\ phase = "register" => \A c \in todo : bodyOf[c] = 0
    /\ phase = "register" => \A c \in Name \ todo : bodyOf[c] # 0
    /\ phase \in Ready => \A c \in Name : bodyOf[c] # 0

\* A pair of the detector is one of the registered pairs, with the numbers that its
\* links' characters have.
PairNumbered(r) ==
    /\ r.link \in Link \X Link
    /\ r.of = <<bodyOf[Owner(r.link[1])], bodyOf[Owner(r.link[2])]>>

PairsNumbered ==
    /\ pairs \in Seq([link : Link \X Link, of : Nat \X Nat])
    /\ phase \in Registering => pairs = <<>> /\ solver = <<>>
    /\ \A i \in 1..Len(pairs) : PairNumbered(pairs[i])

\* No pair of links is given both ways round.
OneWay == \A i \in PairItem : i[1] # i[2] => <<i[2], i[1]>> \notin PairItem

\* The detector has the pairs of the solver, in the same order.
SameLinks(a, b) == {a[1], a[2]} = {b[1], b[2]} /\ (OneWay => a = b)
SolverFollows ==
    /\ solver \in Seq(PairItem)
    /\ phase # "none" /\ client # "behavior" =>
          /\ Len(pairs) = Len(solver)
          /\ \A i \in 1..Len(solver) : SameLinks(pairs[i].link, solver[i])

\* The flags are set until the simulation runs.
FlagsTrue ==
    IF phase = "run" THEN (~needPos => sent = p) /\ (~needSens => sens = q)
                     ELSE needPos /\ needSens

\* The poses pos of the bodies of a pair.
PosesAt(pos, r) == <<pos[bodyOf[Owner(r[1])]], pos[bodyOf[Owner(r[2])]]>>

\* The contacts are those of the detector's pairs, in the simulation at the poses
\* the bodies have.
ContactsOfPairs ==
    phase = "run" /\ client # "behavior" =>
        /\ DOMAIN collisions = 1..Len(pairs) /\ Len(collisions) = Len(pairs)
        /\ \A i \in 1..Len(pairs) :
              /\ collisions[i].link = pairs[i].link
              /\ client = "simulation" =>
                    collisions[i].at = PosesAt(p, pairs[i].link)

\* What was handed out was consistent.
SeenConsistent ==
    /\ phase # "run" => seen = NotSeen
    /\ client # "kinematic" =>
          \A i \in DOMAIN seen.col :
             /\ seen.col[i].link \in Link \X Link
             /\ seen.col[i].at = PosesAt(seen.pos, seen.col[i].link)

\* The inductive invariant.
SimulatorInv ==
    /\ SimTypes
    /\ BodiesNumbered
    /\ PairsNumbered
    /\ SolverFollows
    /\ FlagsTrue
    /\ ContactsOfPairs
    /\ SeenConsistent

-----------------------------------------------------------------------------
(* Sequences, and what the calls leave alone.                              *)

\* A function on 1..n is a sequence of length n.
LEMMA SeqOfFunction ==
    ASSUME NEW S, NEW n \in Nat, NEW f \in [1..n -> S]
    PROVE  f \in Seq(S) /\ Len(f) = n
<1>1. f \in Seq(S)
  BY SeqDef
<1>2. Len(f) \in Nat /\ DOMAIN f = 1..Len(f) /\ DOMAIN f = 1..n
  BY <1>1, LenProperties
<1> QED BY <1>1, <1>2

\* A sequence is a function on 1..n.
LEMMA FunctionOfSeq ==
    ASSUME NEW S, NEW f \in Seq(S)
    PROVE  f \in [1..Len(f) -> S] /\ Len(f) \in Nat /\ DOMAIN f = 1..Len(f)
  BY LenProperties

\* Append to a function on 1..n.
LEMMA AppendedFunction ==
    ASSUME NEW S, NEW n \in Nat, NEW f \in [1..n -> S], NEW e \in S
    PROVE  Append(f, e) \in [1..(n + 1) -> S]
<1>1. f \in Seq(S) /\ Len(f) = n
  BY SeqOfFunction
<1>2. Append(f, e) \in Seq(S) /\ Len(Append(f, e)) = n + 1
  BY <1>1, AppendProperties
<1> QED BY <1>2, FunctionOfSeq

\* The bodies, the pairs and the client.
fixed == <<names, bodyOf, pairs, solver, client, todo, asked, sessions>>

\* The calls that set the simulator up.
SetupStep ==
    \/ \E c \in Client : NewSession(c)
    \/ \E c \in Name : registerCharacter(c)
    \/ init
    \/ \E i \in PairItem : \/ registerCollisionCheckPair(i[1], i[2])
                          \/ registerIntersectionCheckPair(i[1], i[2])

\* All others leave the bodies and the pairs alone.
LEMMA FixedSteps ==
    ASSUME [Next]_vars
    PROVE  \/ SetupStep
           \/ /\ UNCHANGED fixed
              /\ \/ phase' = phase
                 \/ phase = "setup" /\ phase' = "pairs"
                 \/ phase = "pairs" /\ phase' = "run"
<1> USE DEF fixed, cdVars, world, caches
<1>1. CASE UNCHANGED vars
  BY <1>1 DEF vars
<1>2. CASE calcWorldForwardKinematics
  BY <1>2 DEF calcWorldForwardKinematics
<1>3. CASE initSimulation
  BY <1>3 DEF initSimulation, QueryContacts, Query
<1>4. CASE ViewReady
  BY <1>4 DEF ViewReady
<1>5. ASSUME NEW b \in Bodies, NEW v \in Pose, setCharacterAllLinkData(b, v)
      PROVE  UNCHANGED fixed /\ phase' = phase
  BY <1>5 DEF setCharacterAllLinkData
<1>6. ASSUME NEW b \in Bodies, NEW v \in Pose, calcCharacterInverseKinematics(b, v)
      PROVE  UNCHANGED fixed /\ phase' = phase
  BY <1>6 DEF calcCharacterInverseKinematics
<1>7. CASE stepSimulation
  BY <1>7 DEF stepSimulation, QueryContacts, Query
<1>8. CASE getCollision
  BY <1>8 DEF getCollision, QueryContacts, Query
<1>9. CASE getIntersection
  BY <1>9 DEF getIntersection, Query
<1>10. CASE getWorldState
  BY <1>10 DEF getWorldState
<1>11. CASE getCharacterSensorState
  BY <1>11 DEF getCharacterSensorState
<1> QED BY <1>1, <1>2, <1>3, <1>4, <1>5, <1>6, <1>7, <1>8, <1>9, <1>10, <1>11
           DEF Next, SetupStep

\* A query moves every body of the detector to the pose it is sent for it.
LEMMA QueryMoves ==
    ASSUME SimTypes, BodiesNumbered, NEW s \in [1..Len(names) -> Pose],
           cdUpdateAllLinkPositions(names, s)
    PROVE  posed' = s
<1>1. DOMAIN names = 1..Len(names) /\ DOMAIN posed = 1..Len(names)
  BY FunctionOfSeq DEF SimTypes
<1>2. ASSUME NEW b \in DOMAIN posed
      PROVE  {i \in DOMAIN names : bodyOf[names[i]] = b} = {b}
  BY <1>1, <1>2 DEF BodiesNumbered
<1>3. ASSUME NEW b \in DOMAIN posed PROVE (CHOOSE i \in {b} : \A j \in {b} : j <= i) = b
  <2>1. \E i \in {b} : \A j \in {b} : j <= i
    BY <1>1, <1>3
  <2> QED BY <2>1
<1>4. posed' = [b \in DOMAIN posed |-> s[b]]
  BY <1>2, <1>3 DEF cdUpdateAllLinkPositions
<1> QED BY <1>1, <1>4

-----------------------------------------------------------------------------
(* The types.                                                              *)

\* A new session.
LEMMA TypesSession ==
    ASSUME SimTypes, NEW c \in Client, NewSession(c)
    PROVE  SimTypes'
<1> USE DEF SimTypes, NewSession, getDynamicsSimulator, cdCreated
<1>1. names' \in Seq(Name) /\ posed' \in Seq(Pose) /\ Len(names') = 0 /\ Len(posed') = 0
  OBVIOUS
<1>2. q' \in [1..0 -> Pose] /\ p' \in [1..0 -> Pose]
  OBVIOUS
<1>3. bodyOf' \in [Name -> 0..0]
  OBVIOUS
<1>4. sessions' \in 0..MaxSessions /\ asked' \in 0..MaxPairs
  BY SimulatorAssumption
<1>5. phase' \notin Ready /\ needPos' \in BOOLEAN /\ needSens' \in BOOLEAN
  BY DEF Ready
<1> QED BY <1>1, <1>2, <1>3, <1>4, <1>5

\* A character more.
LEMMA TypesRegister ==
    ASSUME SimTypes, NEW c \in Name, registerCharacter(c)
    PROVE  SimTypes'
<1> DEFINE n == Len(names)
<1>1. n \in Nat /\ 0 \in Pose
  BY SimulatorAssumption, FunctionOfSeq DEF SimTypes
<1>2. names' \in Seq(Name) /\ Len(names') = n + 1
  BY AppendProperties DEF SimTypes, registerCharacter
<1>3. posed' \in Seq(Pose) /\ Len(posed') = n + 1
  BY <1>1, AppendProperties DEF SimTypes, registerCharacter, cdRegisterCharacter
<1>4. q' \in [1..(n + 1) -> Pose] /\ p' \in [1..(n + 1) -> Pose]
  BY <1>1, AppendedFunction DEF SimTypes, registerCharacter
<1>5. bodyOf' \in [Name -> 0..(n + 1)]
  BY <1>1 DEF SimTypes, registerCharacter, cdRegisterCharacter
<1>6. phase' = "register" /\ phase' \notin Ready
  BY DEF registerCharacter, Ready
<1> HIDE DEF n
<1> QED BY <1>2, <1>3, <1>4, <1>5, <1>6 DEF SimTypes, registerCharacter, caches

\* The types of what a step changes when it leaves the bodies alone.
LEMMA TypesKept ==
    ASSUME SimTypes, UNCHANGED <<names, bodyOf, client, todo, sessions>>,
           phase # "none", posed' \in [1..Len(names) -> Pose],
           q' \in [1..Len(names) -> Pose], p' \in [1..Len(names) -> Pose],
           phase' \in {"register", "setup", "pairs", "run"},
           phase' \in Ready =>
             sent' \in [1..Len(names) -> Pose] /\ sens' \in [1..Len(names) -> Pose],
           needPos' \in BOOLEAN, needSens' \in BOOLEAN, asked' \in 0..MaxPairs
    PROVE  SimTypes'
<1>1. Len(names) \in Nat
  BY FunctionOfSeq DEF SimTypes
<1>2. posed' \in Seq(Pose) /\ Len(posed') = Len(names)
  BY <1>1, SeqOfFunction
<1> QED BY <1>2 DEF SimTypes

\* Every call keeps the types.
LEMMA SimTypesStep ==
    ASSUME SimTypes, BodiesNumbered, [Next]_vars
    PROVE  SimTypes'
<1> DEFINE N == 1..Len(names)
           Bs == [N -> Pose]
<1>1. /\ posed \in Bs /\ q \in Bs /\ p \in Bs /\ Bodies = N /\ Len(names) \in Nat
      /\ phase \in Ready => sent \in Bs /\ sens \in Bs
      /\ needPos \in BOOLEAN /\ needSens \in BOOLEAN /\ asked \in 0..MaxPairs
  BY FunctionOfSeq DEF SimTypes, Bodies
<1>2. CASE UNCHANGED vars
  BY <1>2 DEF vars, SimTypes, cdVars, world, caches
<1>3. CASE init
  <2>1. 0 \in Pose
    BY SimulatorAssumption
  <2>2. q' \in Bs /\ p' \in Bs /\ sent' \in Bs /\ sens' \in Bs
    BY <1>1, <1>3, <2>1 DEF init, Sized
  <2> QED BY <1>1, <1>3, <2>2, TypesKept DEF init, cdVars
<1>4. ASSUME NEW l1, NEW l2, \/ registerCollisionCheckPair(l1, l2)
                             \/ registerIntersectionCheckPair(l1, l2)
      PROVE  SimTypes'
  <2>1. asked' \in 0..MaxPairs
    BY <1>1, <1>4, SimulatorAssumption
       DEF registerCollisionCheckPair, registerIntersectionCheckPair
  <2>2. phase = "pairs" /\ UNCHANGED <<names, bodyOf, client, todo, sessions>>
    BY <1>4 DEF registerCollisionCheckPair, registerIntersectionCheckPair, world
  <2>3. UNCHANGED <<posed, q, p, phase, sent, sens, needPos, needSens>>
    BY <1>4 DEF registerCollisionCheckPair, registerIntersectionCheckPair, world, caches
  <2> QED BY <1>1, <2>1, <2>2, <2>3, TypesKept
<1>5. ASSUME NEW b \in Bodies, NEW v \in Pose, setCharacterAllLinkData(b, v)
      PROVE  SimTypes'
  <2>1. q' \in Bs /\ phase \in Ready /\ phase \in {"setup", "run"}
    BY <1>1, <1>5 DEF setCharacterAllLinkData, Ready
  <2> QED BY <1>1, <1>5, <2>1, TypesKept DEF setCharacterAllLinkData, Touched, cdVars
<1>6. ASSUME NEW b \in Bodies, NEW v \in Pose, calcCharacterInverseKinematics(b, v)
      PROVE  SimTypes'
  <2>1. q' \in Bs /\ p' \in Bs /\ phase \in Ready /\ phase = "run"
    BY <1>1, <1>6 DEF calcCharacterInverseKinematics, Ready
  <2> QED BY <1>1, <1>6, <2>1, TypesKept
          DEF calcCharacterInverseKinematics, Touched, cdVars
<1>7. CASE calcWorldForwardKinematics
  <2>1. phase \in Ready /\ phase' \in {"pairs", "run"}
    BY <1>7 DEF calcWorldForwardKinematics, Ready
  <2> QED BY <1>1, <1>7, <2>1, TypesKept DEF calcWorldForwardKinematics, Touched, cdVars
<1>8. CASE ViewReady
  <2>1. phase \in Ready /\ phase' \in {"pairs", "run"}
    BY <1>8 DEF ViewReady, Ready
  <2> QED BY <1>1, <1>8, <2>1, TypesKept DEF ViewReady, cdVars, world, caches
<1>9. CASE getWorldState
  <2>1. phase \in Ready /\ phase = "run"
    BY <1>9 DEF getWorldState, Ready
  <2>2. sent' \in Bs /\ needPos' \in BOOLEAN
    BY <1>1, <1>9, <2>1 DEF getWorldState, UpdatePositions
  <2> QED BY <1>1, <1>9, <2>1, <2>2, TypesKept DEF getWorldState, cdVars
<1>10. CASE getCharacterSensorState
  <2>1. phase \in Ready /\ phase = "run"
    BY <1>10 DEF getCharacterSensorState, Ready
  <2> QED BY <1>1, <1>10, <2>1, TypesKept DEF getCharacterSensorState, cdVars, world
<1>11. ASSUME Query, UpdatePositions, phase \in Ready, phase' \in {"pairs", "run"},
              p' \in Bs, q' \in Bs,
              UNCHANGED <<names, sens, client, todo, asked, sessions>>,
              needSens' \in BOOLEAN
       PROVE  SimTypes'
  <2>1. sent' \in Bs /\ needPos' \in BOOLEAN
    BY <1>11 DEF UpdatePositions
  <2>2. posed' = sent'
    BY <1>11, <2>1, QueryMoves DEF Query
  <2> QED BY <1>1, <1>11, <2>1, <2>2, TypesKept DEF Query, Ready
<1>12. CASE initSimulation
  BY <1>1, <1>11, <1>12 DEF initSimulation, QueryContacts, world, Ready
<1>13. CASE stepSimulation
  BY <1>1, <1>11, <1>13 DEF stepSimulation, QueryContacts, Ready, AfterStep
<1>14. CASE getCollision
  BY <1>1, <1>11, <1>14 DEF getCollision, QueryContacts, Ready
<1>15. CASE getIntersection
  BY <1>1, <1>11, <1>15 DEF getIntersection, Ready
<1> QED BY <1>2, <1>3, <1>4, <1>5, <1>6, <1>7, <1>8, <1>9, <1>10, <1>12, <1>13,
           <1>14, <1>15, TypesSession, TypesRegister DEF Next

-----------------------------------------------------------------------------
(* Bodies and pairs.                                                       *)

\* A character registered gets the next number in the world and in the detector.
LEMMA BodiesNumberedStep ==
    ASSUME SimTypes, BodiesNumbered, [Next]_vars
    PROVE  BodiesNumbered'
<1>1. ASSUME NEW c \in Client, NewSession(c) PROVE BodiesNumbered'
  BY <1>1 DEF NewSession, getDynamicsSimulator, cdCreated, BodiesNumbered, Ready
<1>2. ASSUME NEW c \in Name, registerCharacter(c) PROVE BodiesNumbered'
  <2> DEFINE n == Len(names)
  <2>1. n \in Nat /\ names \in [1..n -> Name] /\ bodyOf \in [Name -> 0..n]
    BY FunctionOfSeq DEF SimTypes
  <2>2. /\ Len(names') = n + 1 /\ names'[n + 1] = c
        /\ \A i \in 1..n : names'[i] = names[i]
    BY <1>2, AppendProperties DEF SimTypes, registerCharacter
  <2>3. bodyOf' = [bodyOf EXCEPT ![c] = n + 1]
    BY <1>2 DEF SimTypes, registerCharacter, cdRegisterCharacter
  <2>4. phase = "register" /\ phase' = "register" /\ c \in todo /\ todo' = todo \ {c}
    BY <1>2 DEF registerCharacter
  <2>5. bodyOf[c] = 0
    BY <2>4 DEF BodiesNumbered
  <2> HIDE DEF n
  <2>6. \A i \in 1..n : bodyOf[names[i]] = i /\ names[i] # c
    <3>1. \A i \in 1..n : bodyOf[names[i]] = i /\ i # 0
      BY <2>1 DEF BodiesNumbered, n
    <3> QED BY <2>5, <3>1
  <2>7. \A i \in 1..(n + 1) : bodyOf'[names'[i]] = i
    BY <2>1, <2>2, <2>3, <2>6
  <2>8. \A d \in Name : bodyOf'[d] # 0 => names'[bodyOf'[d]] = d
    <3>1. \A d \in Name : bodyOf[d] # 0 => bodyOf[d] \in 1..n /\ names[bodyOf[d]] = d
      BY <2>1 DEF BodiesNumbered
    <3> QED BY <2>1, <2>2, <2>3, <3>1
  <2>9. \A d \in todo' : bodyOf'[d] = 0
    BY <2>1, <2>3, <2>4 DEF BodiesNumbered, SimTypes
  <2>10. \A d \in Name \ todo' : bodyOf'[d] # 0
    BY <2>1, <2>3, <2>4 DEF BodiesNumbered, SimTypes
  <2> QED BY <2>2, <2>4, <2>7, <2>8, <2>9, <2>10 DEF BodiesNumbered, Ready
<1>3. CASE init
  BY <1>3 DEF init, BodiesNumbered, cdVars, SimTypes, Ready
<1>4. ASSUME NEW l1, NEW l2, \/ registerCollisionCheckPair(l1, l2)
                             \/ registerIntersectionCheckPair(l1, l2)
      PROVE  BodiesNumbered'
  BY <1>4 DEF registerCollisionCheckPair, registerIntersectionCheckPair, world,
              BodiesNumbered, Ready
<1>5. CASE /\ UNCHANGED fixed
           /\ \/ phase' = phase
              \/ phase = "setup" /\ phase' = "pairs"
              \/ phase = "pairs" /\ phase' = "run"
  BY <1>5 DEF fixed, BodiesNumbered, Ready
<1> QED BY <1>1, <1>2, <1>3, <1>4, <1>5, FixedSteps DEF SetupStep

\* A pair that is added goes behind the others, with the numbers of its bodies.
LEMMA PairAdded ==
    ASSUME SimTypes, BodiesNumbered, PairsNumbered, phase = "pairs", UNCHANGED bodyOf,
           NEW l1 \in Link, NEW l2 \in Link, cdAddCollisionPair(l1, l2)
    PROVE  /\ pairs' \in Seq([link : Link \X Link, of : Nat \X Nat])
           /\ Len(pairs') = Len(pairs) + 1 /\ Len(pairs) \in Nat
           /\ \A i \in 1..Len(pairs) : pairs'[i] = pairs[i]
           /\ pairs'[Len(pairs) + 1].link = <<l1, l2>>
           /\ PairNumbered(pairs'[Len(pairs) + 1])
<1> DEFINE r == [link |-> <<l1, l2>>, of |-> <<bodyOf[Owner(l1)], bodyOf[Owner(l2)]>>]
           Pairs == [link : Link \X Link, of : Nat \X Nat]
<1>1. Owner(l1) \in Name /\ Owner(l2) \in Name
  BY SimulatorAssumption
<1>2. /\ bodyOf[Owner(l1)] \in Nat /\ bodyOf[Owner(l2)] \in Nat
      /\ bodyOf[Owner(l1)] # 0 /\ bodyOf[Owner(l2)] # 0
  BY <1>1, FunctionOfSeq DEF SimTypes, BodiesNumbered, Ready
<1>3. r \in Pairs /\ r.link = <<l1, l2>> /\ PairNumbered(r)
  BY <1>2 DEF PairNumbered
<1>4. pairs' = Append(pairs, r)
  BY <1>2 DEF cdAddCollisionPair
<1>5. pairs \in Seq(Pairs) /\ Len(pairs) \in Nat
  BY FunctionOfSeq DEF PairsNumbered
<1> HIDE DEF r, Pairs
<1>6. /\ pairs' \in Seq(Pairs) /\ Len(pairs') = Len(pairs) + 1
      /\ \A i \in 1..Len(pairs) : pairs'[i] = pairs[i]
      /\ pairs'[Len(pairs) + 1] = r
  BY <1>3, <1>4, <1>5, AppendProperties
<1> QED BY <1>3, <1>5, <1>6 DEF Pairs

\* Every pair of the detector keeps the numbers of its bodies.
LEMMA PairsNumberedStep ==
    ASSUME SimTypes, BodiesNumbered, PairsNumbered, [Next]_vars
    PROVE  PairsNumbered'
<1>1. ASSUME NEW c \in Client, NewSession(c) PROVE PairsNumbered'
  BY <1>1 DEF NewSession, getDynamicsSimulator, cdCreated, PairsNumbered
<1>2. ASSUME NEW c \in Name, registerCharacter(c) PROVE PairsNumbered'
  BY <1>2 DEF registerCharacter, cdRegisterCharacter, PairsNumbered, Registering
<1>3. CASE init
  BY <1>3 DEF init, cdVars, PairsNumbered, Registering, PairNumbered
<1>4. ASSUME NEW l1 \in Link, NEW l2 \in Link, phase = "pairs", phase' = "pairs",
             UNCHANGED bodyOf, UNCHANGED pairs \/ cdAddCollisionPair(l1, l2)
      PROVE  PairsNumbered'
  <2>1. phase' \notin Registering
    BY <1>4 DEF Registering
  <2>2. CASE UNCHANGED pairs
    BY <1>4, <2>1, <2>2 DEF PairsNumbered, PairNumbered
  <2>3. CASE cdAddCollisionPair(l1, l2)
    <3>1. /\ pairs' \in Seq([link : Link \X Link, of : Nat \X Nat])
          /\ Len(pairs') = Len(pairs) + 1 /\ Len(pairs) \in Nat
          /\ \A i \in 1..Len(pairs) : pairs'[i] = pairs[i]
          /\ PairNumbered(pairs'[Len(pairs) + 1])
      BY <1>4, <2>3, PairAdded
    <3>2. ASSUME NEW i \in 1..Len(pairs') PROVE PairNumbered(pairs'[i])
      <4>1. i \in 1..Len(pairs) \/ i = Len(pairs) + 1
        BY <3>1
      <4>2. ASSUME i \in 1..Len(pairs) PROVE PairNumbered(pairs'[i])
        BY <3>1, <4>2 DEF PairsNumbered, PairNumbered
      <4> QED BY <3>1, <4>1, <4>2
    <3>3. \A i \in 1..Len(pairs') : PairNumbered(pairs[i])'
      BY <1>4, <3>2 DEF PairNumbered
    <3> QED BY <2>1, <3>1, <3>3 DEF PairsNumbered
  <2> QED BY <1>4, <2>2, <2>3
<1>5. ASSUME NEW i \in PairItem, \/ registerCollisionCheckPair(i[1], i[2])
                                 \/ registerIntersectionCheckPair(i[1], i[2])
      PROVE  PairsNumbered'
  <2>1. i[1] \in Link /\ i[2] \in Link
    BY SimulatorAssumption
  <2> QED BY <1>4, <1>5, <2>1
          DEF registerCollisionCheckPair, registerIntersectionCheckPair
<1>6. CASE /\ UNCHANGED fixed
           /\ \/ phase' = phase
              \/ phase = "setup" /\ phase' = "pairs"
              \/ phase = "pairs" /\ phase' = "run"
  BY <1>6 DEF fixed, PairsNumbered, PairNumbered, Registering
<1> QED BY <1>1, <1>2, <1>3, <1>5, <1>6, FixedSteps DEF SetupStep

\* Registering a pair with the solver: a pair it knows is overwritten with the same
\* links, a new one goes to the end.
LEMMA SolverEntry ==
    ASSUME SolverFollows, NEW l \in PairItem, l[1] # l[2],
           registerCollisionCheckPair(l[1], l[2])
    PROVE  LET i == IndexOfPair(l[1], l[2])
               n == Len(solver)
           IN  /\ n \in Nat
               /\ \/ i \in 1..n /\ SameLinks(solver[i], l) /\ ~PassedOn(i)
                     /\ Len(solver') = n
                  \/ i = n + 1 /\ PassedOn(i) /\ Len(solver') = n + 1
               /\ solver' \in Seq(PairItem) /\ solver'[i] = l
               /\ \A k \in 1..n : k # i => solver'[k] = solver[k]
<1> DEFINE n == Len(solver)
           i == IndexOfPair(l[1], l[2])
           known == {k \in DOMAIN solver : {solver[k][1], solver[k][2]} = {l[1], l[2]}}
           m == IF i > n THEN i ELSE n
<1>1. n \in Nat /\ solver \in [1..n -> PairItem] /\ DOMAIN solver = 1..n
  BY FunctionOfSeq DEF SolverFollows
<1>2. l = <<l[1], l[2]>> /\ \A k \in 1..n : solver[k] = <<solver[k][1], solver[k][2]>>
  BY <1>1, SimulatorAssumption
<1>3. \/ i \in 1..n /\ SameLinks(solver[i], l) /\ ~PassedOn(i)
      \/ i = n + 1 /\ PassedOn(i)
  <2>1. CASE known = {}
    BY <1>1, <2>1 DEF IndexOfPair, PassedOn
  <2>2. CASE known # {}
    <3>1. i \in known
      BY <2>2 DEF IndexOfPair
    <3>2. i \in 1..n /\ {solver[i][1], solver[i][2]} = {l[1], l[2]} /\ ~(i > n)
      <4> HIDE DEF i
      <4> QED BY <1>1, <3>1
    <3>3. OneWay => solver[i] = l
      <4> HIDE DEF i
      <4>1. solver[i] \in PairItem
        BY <1>1, <3>2
      <4>2. solver[i] = <<l[1], l[2]>> \/ solver[i] = <<l[2], l[1]>>
        BY <1>2, <3>2
      <4> QED BY <1>2, <4>1, <4>2 DEF OneWay
    <3> QED BY <3>2, <3>3 DEF SameLinks, PassedOn
  <2> QED BY <2>1, <2>2
<1>4. solver' = [k \in 1..m |-> IF k = i THEN <<l[1], l[2]>> ELSE solver[k]]
  BY DEF registerCollisionCheckPair
<1> HIDE DEF i
<1>5. m \in Nat /\ i \in 1..m /\ \A k \in 1..m : k # i => k \in 1..n
  BY <1>1, <1>3
<1>6. solver' \in [1..m -> PairItem] /\ solver'[i] = l
  BY <1>1, <1>2, <1>4, <1>5
<1>7. solver' \in Seq(PairItem) /\ Len(solver') = m
  BY <1>5, <1>6, SeqOfFunction
<1>8. \A k \in 1..n : k # i => solver'[k] = solver[k]
  BY <1>1, <1>4, <1>5
<1>9. (i \in 1..n => m = n) /\ (i = n + 1 => m = n + 1)
  BY <1>1
<1> QED BY <1>1, <1>3, <1>6, <1>7, <1>8, <1>9 DEF i

\* The detector has the pairs of the solver, in its order.
LEMMA SolverFollowsStep ==
    ASSUME SimTypes, BodiesNumbered, PairsNumbered, SolverFollows, [Next]_vars
    PROVE  SolverFollows'
<1>1. ASSUME NEW c \in Client, NewSession(c) PROVE SolverFollows'
  BY <1>1 DEF NewSession, getDynamicsSimulator, cdCreated, SolverFollows
<1>2. ASSUME NEW c \in Name, registerCharacter(c) PROVE SolverFollows'
  BY <1>2 DEF registerCharacter, cdRegisterCharacter, SolverFollows
<1>3. CASE init
  BY <1>3 DEF init, cdVars, SolverFollows
<1>4. ASSUME NEW l \in PairItem, registerIntersectionCheckPair(l[1], l[2])
      PROVE  SolverFollows'
  BY <1>4 DEF registerIntersectionCheckPair, SolverFollows
<1>5. ASSUME NEW l \in PairItem, registerCollisionCheckPair(l[1], l[2])
      PROVE  SolverFollows'
  <2> DEFINE n == Len(solver)
             i == IndexOfPair(l[1], l[2])
  <2>1. /\ phase = "pairs" /\ client # "behavior" /\ l[1] # l[2]
        /\ UNCHANGED <<bodyOf, phase, client>>
    BY <1>5 DEF registerCollisionCheckPair
  <2>2. /\ Len(pairs) = n /\ \A k \in 1..n : SameLinks(pairs[k].link, solver[k])
    BY <2>1 DEF SolverFollows
  <2>3. l[1] \in Link /\ l[2] \in Link /\ l = <<l[1], l[2]>>
    BY SimulatorAssumption
  <2>4. /\ n \in Nat
        /\ \/ i \in 1..n /\ SameLinks(solver[i], l) /\ ~PassedOn(i) /\ Len(solver') = n
           \/ i = n + 1 /\ PassedOn(i) /\ Len(solver') = n + 1
        /\ solver' \in Seq(PairItem) /\ solver'[i] = l
        /\ \A k \in 1..n : k # i => solver'[k] = solver[k]
    BY <1>5, <2>1, SolverEntry
  <2>5. IF PassedOn(i) THEN cdAddCollisionPair(l[1], l[2]) ELSE UNCHANGED pairs
    BY <1>5 DEF registerCollisionCheckPair
  <2> HIDE DEF i
  <2>6. CASE ~PassedOn(i)
    <3>1. pairs' = pairs /\ i \in 1..n /\ SameLinks(solver[i], l) /\ Len(solver') = n
      BY <2>4, <2>5, <2>6
    <3>2. ASSUME NEW k \in 1..n PROVE SameLinks(pairs'[k].link, solver'[k])
      <4>1. CASE k = i
        BY <2>2, <2>4, <3>1, <4>1 DEF SameLinks
      <4>2. CASE k # i
        BY <2>2, <2>4, <3>1, <4>2
      <4> QED BY <4>1, <4>2
    <3> QED BY <2>2, <2>4, <3>1, <3>2 DEF SolverFollows
  <2>7. CASE PassedOn(i)
    <3>1. cdAddCollisionPair(l[1], l[2]) /\ i = n + 1 /\ Len(solver') = n + 1
      BY <2>4, <2>5, <2>7
    <3>2. /\ Len(pairs') = n + 1 /\ pairs'[n + 1].link = l
          /\ \A k \in 1..n : pairs'[k] = pairs[k]
      BY <2>1, <2>2, <2>3, <3>1, PairAdded
    <3>3. ASSUME NEW k \in 1..(n + 1) PROVE SameLinks(pairs'[k].link, solver'[k])
      <4>1. CASE k = n + 1
        BY <2>4, <3>1, <3>2, <4>1 DEF SameLinks
      <4>2. CASE k # n + 1
        <5>1. k \in 1..n /\ k # i
          BY <2>4, <3>1, <4>2
        <5> QED BY <2>2, <2>4, <3>2, <5>1
      <4> QED BY <4>1, <4>2
    <3> QED BY <2>4, <3>1, <3>2, <3>3 DEF SolverFollows
  <2> QED BY <2>6, <2>7
<1>6. CASE /\ UNCHANGED fixed
           /\ \/ phase' = phase
              \/ phase = "setup" /\ phase' = "pairs"
              \/ phase = "pairs" /\ phase' = "run"
  BY <1>6 DEF fixed, SolverFollows, SameLinks
<1> QED BY <1>1, <1>2, <1>3, <1>4, <1>5, <1>6, FixedSteps DEF SetupStep

-----------------------------------------------------------------------------
(* Positions, sensor states and contacts.                                  *)

\* Whatever moves a body, and whatever computes, keeps the flags true.
LEMMA FlagsTrueStep ==
    ASSUME SimTypes, FlagsTrue, [Next]_vars
    PROVE  FlagsTrue'
<1> USE DEF FlagsTrue
<1>1. CASE UNCHANGED vars
  BY <1>1 DEF vars, world, caches
<1>2. ASSUME NEW c \in Client, NewSession(c) PROVE FlagsTrue'
  BY <1>2 DEF NewSession, getDynamicsSimulator
<1>3. ASSUME NEW c \in Name, registerCharacter(c) PROVE FlagsTrue'
  BY <1>3 DEF registerCharacter, caches
<1>4. CASE init
  BY <1>4 DEF init
<1>5. ASSUME NEW l1, NEW l2, \/ registerCollisionCheckPair(l1, l2)
                             \/ registerIntersectionCheckPair(l1, l2)
      PROVE  FlagsTrue'
  BY <1>5 DEF registerCollisionCheckPair, registerIntersectionCheckPair, world, caches
<1>6. ASSUME NEW b \in Bodies, NEW v \in Pose,
             setCharacterAllLinkData(b, v) \/ calcCharacterInverseKinematics(b, v)
      PROVE  FlagsTrue'
  BY <1>6 DEF setCharacterAllLinkData, calcCharacterInverseKinematics, Touched
<1>7. CASE calcWorldForwardKinematics
  BY <1>7 DEF calcWorldForwardKinematics, Touched
<1>8. CASE initSimulation
  BY <1>8 DEF initSimulation, UpdatePositions
<1>9. CASE ViewReady
  BY <1>9 DEF ViewReady, world, caches
<1>10. CASE stepSimulation
  BY <1>10 DEF stepSimulation, UpdatePositions, AfterStep
<1>11. CASE getCollision \/ getIntersection
  BY <1>11 DEF getCollision, getIntersection, UpdatePositions
<1>12. CASE getWorldState
  BY <1>12 DEF getWorldState, UpdatePositions
<1>13. CASE getCharacterSensorState
  BY <1>13 DEF getCharacterSensorState, world
<1> QED BY <1>1, <1>2, <1>3, <1>4, <1>5, <1>6, <1>7, <1>8, <1>9, <1>10, <1>11,
           <1>12, <1>13 DEF Next

\* The contacts of a query are those of the detector's pairs, at the bodies' poses.
LEMMA ContactsComputed ==
    ASSUME SimTypes, BodiesNumbered, PairsNumbered, UpdatePositions, QueryContacts,
           p' \in [1..Len(names) -> Pose]
    PROVE  /\ DOMAIN collisions' = 1..Len(pairs) /\ Len(collisions') = Len(pairs)
           /\ \A i \in 1..Len(pairs) :
                 /\ collisions'[i].link = pairs[i].link
                 /\ pairs[i].link \in Link \X Link
                 /\ collisions'[i].at = PosesAt(p', pairs[i].link)
           /\ sent' = p' /\ UNCHANGED <<bodyOf, pairs>>
<1>1. sent' = p' /\ posed' = p' /\ UNCHANGED <<bodyOf, pairs>>
  <2>1. sent' = p' /\ UNCHANGED <<bodyOf, pairs>>
    BY DEF UpdatePositions, QueryContacts, Query
  <2>2. cdUpdateAllLinkPositions(names, p')
    BY <2>1 DEF QueryContacts, Query
  <2> QED BY <2>1, <2>2, QueryMoves
<1>2. DOMAIN pairs = 1..Len(pairs)
  BY FunctionOfSeq DEF PairsNumbered
<1>3. collisions' = [i \in 1..Len(pairs) |->
        [link |-> pairs[i].link,
         at   |-> <<p'[pairs[i].of[1]], p'[pairs[i].of[2]]>>]]
  BY <1>1, <1>2 DEF QueryContacts, cdDetectAllCollisions
<1>4. \A i \in 1..Len(pairs) : PairNumbered(pairs[i])
  BY DEF PairsNumbered
<1>5. ASSUME NEW i \in 1..Len(pairs)
      PROVE  /\ collisions'[i].link = pairs[i].link
             /\ pairs[i].link \in Link \X Link
             /\ collisions'[i].at = PosesAt(p', pairs[i].link)
  <2>1. /\ collisions'[i].link = pairs[i].link
        /\ collisions'[i].at = <<p'[pairs[i].of[1]], p'[pairs[i].of[2]]>>
    BY <1>3
  <2>2. /\ pairs[i].link \in Link \X Link
        /\ pairs[i].of = <<bodyOf[Owner(pairs[i].link[1])],
                           bodyOf[Owner(pairs[i].link[2])]>>
    BY <1>4 DEF PairNumbered
  <2>3. /\ pairs[i].of[1] = bodyOf[Owner(pairs[i].link[1])]
        /\ pairs[i].of[2] = bodyOf[Owner(pairs[i].link[2])]
    BY <2>2
  <2> QED BY <2>1, <2>2, <2>3 DEF PosesAt
<1>6. Len(collisions') = Len(pairs)
  <2>1. Len(pairs) \in Nat
    BY FunctionOfSeq DEF PairsNumbered
  <2>2. collisions' \in [1..Len(pairs) -> {collisions'[i] : i \in 1..Len(pairs)}]
    BY <1>3
  <2> QED BY <2>1, <2>2, SeqOfFunction
<1> QED BY <1>1, <1>3, <1>5, <1>6

\* The solver's contacts stay those of the pairs.
LEMMA ContactsOfPairsStep ==
    ASSUME SimTypes, BodiesNumbered, PairsNumbered, ContactsOfPairs, [Next]_vars,
           SimTypes'
    PROVE  ContactsOfPairs'
<1> SUFFICES ASSUME phase' = "run", client' # "behavior" PROVE ContactsOfPairs'
  BY DEF ContactsOfPairs
<1>1. ASSUME phase = "run", UNCHANGED <<bodyOf, pairs, client, collisions>>,
             client = "simulation" => UNCHANGED p
      PROVE  ContactsOfPairs'
  BY <1>1 DEF ContactsOfPairs, PosesAt
<1>2. ASSUME UpdatePositions, QueryContacts, UNCHANGED names
      PROVE  ContactsOfPairs'
  <2>1. p' \in [1..Len(names) -> Pose]
    BY <1>2 DEF SimTypes
  <2> QED BY <1>2, <2>1, ContactsComputed DEF ContactsOfPairs, PosesAt
<1>3. CASE UNCHANGED vars
  BY <1>1, <1>3 DEF vars, cdVars, world
<1>4. ~SetupStep
  <2>1. ASSUME NEW c, NewSession(c) PROVE FALSE
    BY <2>1 DEF NewSession
  <2>2. ASSUME NEW c, registerCharacter(c) PROVE FALSE
    BY <2>2 DEF registerCharacter
  <2>3. ASSUME NEW l1, NEW l2, \/ registerCollisionCheckPair(l1, l2)
                               \/ registerIntersectionCheckPair(l1, l2)
        PROVE  FALSE
    BY <2>3 DEF registerCollisionCheckPair, registerIntersectionCheckPair
  <2> QED BY <2>1, <2>2, <2>3 DEF SetupStep, init
<1>5. ASSUME NEW b \in Bodies, NEW v \in Pose, setCharacterAllLinkData(b, v)
      PROVE  ContactsOfPairs'
  BY <1>1, <1>5 DEF setCharacterAllLinkData, cdVars
<1>6. ASSUME NEW b \in Bodies, NEW v \in Pose, calcCharacterInverseKinematics(b, v)
      PROVE  FALSE
  BY <1>6 DEF calcCharacterInverseKinematics
<1>7. CASE calcWorldForwardKinematics
  BY <1>1, <1>7 DEF calcWorldForwardKinematics, cdVars
<1>8. CASE initSimulation
  BY <1>2, <1>8 DEF initSimulation, world
<1>9. CASE stepSimulation
  BY <1>2, <1>9 DEF stepSimulation
<1>10. ~ViewReady /\ ~getCollision /\ ~getIntersection
  BY DEF ViewReady, getCollision, getIntersection
<1>11. CASE getWorldState
  BY <1>1, <1>11 DEF getWorldState, cdVars
<1>12. CASE getCharacterSensorState
  BY <1>1, <1>12 DEF getCharacterSensorState, cdVars, world
<1> QED BY <1>3, <1>4, <1>5, <1>6, <1>7, <1>8, <1>9, <1>10, <1>11, <1>12
           DEF Next, SetupStep

\* What is handed out is consistent.
LEMMA SeenConsistentStep ==
    ASSUME SimulatorInv, [Next]_vars, SimTypes'
    PROVE  SeenConsistent'
<1> USE DEF SimulatorInv
<1>1. ASSUME UNCHANGED <<seen, client, bodyOf>>, phase = "run" => phase' = "run"
      PROVE  SeenConsistent'
  BY <1>1 DEF SeenConsistent, PosesAt
<1>2. ASSUME seen' = NotSeen PROVE SeenConsistent'
  BY <1>2 DEF SeenConsistent, NotSeen
<1>3. CASE SetupStep
  <2>1. ASSUME NEW c, NewSession(c) PROVE SeenConsistent'
    BY <1>2, <2>1 DEF NewSession
  <2>2. ASSUME NEW c, registerCharacter(c) PROVE SeenConsistent'
    BY <1>2, <2>2 DEF registerCharacter, SeenConsistent
  <2>3. ASSUME NEW l1, NEW l2, \/ registerCollisionCheckPair(l1, l2)
                               \/ registerIntersectionCheckPair(l1, l2)
        PROVE  SeenConsistent'
    BY <1>1, <2>3 DEF registerCollisionCheckPair, registerIntersectionCheckPair
  <2>4. CASE init
    BY <1>1, <2>4 DEF init, cdVars
  <2> QED BY <1>3, <2>1, <2>2, <2>3, <2>4 DEF SetupStep
<1>4. CASE getCollision
  <2>1. CASE seen' = seen
    BY <1>1, <1>4, <2>1 DEF getCollision, QueryContacts, Query
  <2>2. CASE seen' = [pos |-> sent', col |-> collisions']
    <3>1. UpdatePositions /\ QueryContacts /\ p' \in [1..Len(names) -> Pose]
      BY <1>4 DEF getCollision, SimTypes
    <3>2. seen'.pos = p' /\ seen'.col = collisions' /\ UNCHANGED bodyOf /\ phase' = "run"
      BY <1>4, <2>2, <3>1, ContactsComputed DEF getCollision
    <3>3. \A i \in DOMAIN collisions' :
             /\ collisions'[i].link \in Link \X Link
             /\ collisions'[i].at = PosesAt(p', collisions'[i].link)
      BY <3>1, ContactsComputed
    <3> QED BY <3>2, <3>3 DEF SeenConsistent, PosesAt
  <2> QED BY <1>4, <2>1, <2>2 DEF getCollision
<1>5. CASE getWorldState
  <2>1. CASE client = "kinematic"
    BY <1>5, <2>1 DEF getWorldState, SeenConsistent
  <2>2. CASE client # "kinematic"
    <3>2. client = "simulation"
      BY <1>5, <2>2, SimulatorAssumption DEF getWorldState, SimTypes
    <3>3. /\ seen'.pos = p /\ seen'.col = collisions /\ UNCHANGED <<bodyOf, client>>
          /\ phase = "run" /\ phase' = "run"
      BY <1>5 DEF getWorldState, UpdatePositions, FlagsTrue, cdVars, SimTypes
    <3>4. \A i \in DOMAIN collisions :
             /\ collisions[i].link \in Link \X Link
             /\ collisions[i].at = PosesAt(p, collisions[i].link)
      BY <3>2, <3>3 DEF ContactsOfPairs, PairsNumbered, PairNumbered
    <3> QED BY <3>3, <3>4 DEF SeenConsistent, PosesAt
  <2> QED BY <2>1, <2>2
<1>6. CASE UNCHANGED vars
  BY <1>1, <1>6 DEF vars, cdVars
<1>7. ASSUME NEW b \in Bodies, NEW v \in Pose,
             setCharacterAllLinkData(b, v) \/ calcCharacterInverseKinematics(b, v)
      PROVE  SeenConsistent'
  BY <1>1, <1>7 DEF setCharacterAllLinkData, calcCharacterInverseKinematics, cdVars
<1>8. CASE calcWorldForwardKinematics \/ initSimulation \/ ViewReady
  BY <1>1, <1>8
     DEF calcWorldForwardKinematics, initSimulation, ViewReady, QueryContacts, Query,
         cdVars
<1>9. CASE stepSimulation \/ getIntersection \/ getCharacterSensorState
  BY <1>1, <1>9
     DEF stepSimulation, getIntersection, getCharacterSensorState, QueryContacts, Query,
         cdVars
<1> QED BY <1>3, <1>4, <1>5, <1>6, <1>7, <1>8, <1>9 DEF Next, SetupStep

-----------------------------------------------------------------------------
(* The invariant holds.                                                    *)

\* Before the first session.
LEMMA SimulatorInvInit == Init => SimulatorInv
<1> SUFFICES ASSUME Init PROVE SimulatorInv
  OBVIOUS
<1>1. SimTypes
  <2>1. names \in Seq(Name) /\ posed \in Seq(Pose) /\ Len(names) = 0 /\ Len(posed) = 0
    BY DEF Init
  <2>2. q \in [1..0 -> Pose] /\ p \in [1..0 -> Pose] /\ bodyOf \in [Name -> 0..0]
    BY DEF Init
  <2>3. needPos \in BOOLEAN /\ needSens \in BOOLEAN
    BY DEF Init
  <2>4. sessions \in 0..MaxSessions /\ asked \in 0..MaxPairs
    BY SimulatorAssumption DEF Init
  <2> QED BY <2>1, <2>2, <2>3, <2>4 DEF Init, SimTypes, Ready
<1>2. BodiesNumbered
  BY DEF Init, BodiesNumbered, Ready
<1>3. PairsNumbered
  BY DEF Init, PairsNumbered
<1>4. SolverFollows
  BY DEF Init, SolverFollows
<1>5. FlagsTrue /\ ContactsOfPairs
  BY DEF Init, FlagsTrue, ContactsOfPairs
<1>6. SeenConsistent
  BY DEF Init, SeenConsistent, NotSeen
<1> QED BY <1>1, <1>2, <1>3, <1>4, <1>5, <1>6 DEF SimulatorInv

\* Every call keeps it.
LEMMA SimulatorInvNext == SimulatorInv /\ [Next]_vars => SimulatorInv'
<1> SUFFICES ASSUME SimulatorInv, [Next]_vars PROVE SimulatorInv'
  OBVIOUS
<1>1. SimTypes' /\ BodiesNumbered' /\ PairsNumbered'
  BY SimTypesStep, BodiesNumberedStep, PairsNumberedStep DEF SimulatorInv
<1>2. SolverFollows' /\ FlagsTrue'
  BY SolverFollowsStep, FlagsTrueStep DEF SimulatorInv
<1>3. ContactsOfPairs' /\ SeenConsistent'
  BY <1>1, ContactsOfPairsStep, SeenConsistentStep DEF SimulatorInv
<1> QED BY <1>1, <1>2, <1>3 DEF SimulatorInv

\* So it always holds.
LEMMA SimulatorInvHolds == Spec => []SimulatorInv
  BY SimulatorInvInit, SimulatorInvNext, PTL DEF Spec

-----------------------------------------------------------------------------
(* What follows from it.                                                   *)

\* Types: from init() on the sequences that are handed out have an entry for every
\* body, and the detector's pairs refer to bodies it has.
THEOREM SimulatorTypeCorrect == Spec => []TypeOK
<1>1. ASSUME SimulatorInv PROVE TypeOK
  <2> USE <1>1 DEF SimulatorInv
  <2>1. Bodies = 1..Len(names) /\ DOMAIN posed = 1..Len(names) /\ Len(names) \in Nat
    BY FunctionOfSeq DEF SimTypes, Bodies
  <2>2. DOMAIN pairs = 1..Len(pairs) /\ DOMAIN solver = 1..Len(solver)
    BY FunctionOfSeq DEF PairsNumbered, SolverFollows
  <2>3. ASSUME NEW i \in DOMAIN pairs
        PROVE  /\ pairs[i].link \in Link \X Link
               /\ pairs[i].of \in (DOMAIN posed) \X (DOMAIN posed)
    <3>1. PairNumbered(pairs[i]) /\ phase \in Ready
      <4>1. PairNumbered(pairs[i])
        BY <2>2, <2>3 DEF PairsNumbered
      <4>2. pairs # <<>>
        BY <2>3
      <4> QED BY <4>1, <4>2 DEF PairsNumbered, SimTypes, Ready, Registering
    <3>2. ASSUME NEW l \in Link PROVE bodyOf[Owner(l)] \in 1..Len(names)
      <4>1. Owner(l) \in Name
        BY SimulatorAssumption
      <4> QED BY <2>1, <3>1, <4>1 DEF SimTypes, BodiesNumbered
    <3>3. pairs[i].link[1] \in Link /\ pairs[i].link[2] \in Link
      BY <3>1 DEF PairNumbered
    <3> QED BY <2>1, <3>1, <3>2, <3>3 DEF PairNumbered
  <2>4. \A i \in DOMAIN solver : solver[i] \in Link \X Link
    BY FunctionOfSeq, SimulatorAssumption DEF SolverFollows
  <2>5. cdTypeOK
    BY <2>1, <2>3 DEF cdTypeOK, SimTypes
  <2>6. client \in Client \union {"none"} /\ {needPos, needSens} \subseteq BOOLEAN
    BY DEF SimTypes
  <2> QED BY <2>1, <2>4, <2>5, <2>6 DEF TypeOK, SimTypes, Ready
<1> QED BY <1>1, SimulatorInvHolds, PTL

\* Positions and sensor states that are handed out without being computed again are
\* those of the bodies.
THEOREM CachesAreFresh == Spec => []CachesFresh
<1>1. SimulatorInv => CachesFresh
  BY DEF SimulatorInv, FlagsTrue, CachesFresh
<1> QED BY <1>1, SimulatorInvHolds, PTL

\* Every pair of the detector is a pair of bodies it still moves.
THEOREM PairsFollowTheirBodies == Spec => []PairsFollowBodies
<1>1. ASSUME SimulatorInv PROVE PairsFollowBodies
  <2>1. DOMAIN pairs = 1..Len(pairs)
    BY <1>1, FunctionOfSeq DEF SimulatorInv, PairsNumbered
  <2> QED BY <1>1, <2>1 DEF SimulatorInv, PairsNumbered, PairNumbered, PairsFollowBodies
<1> QED BY <1>1, SimulatorInvHolds, PTL

\* The solver reads the contacts of its pairs and no others, if no pair of links is
\* given both ways round.
THEOREM ContactsAreTheirPairs ==
    ASSUME OneWay
    PROVE  Spec => []ContactsOnTheirPair
<1>1. ASSUME SimulatorInv PROVE ContactsOnTheirPair
  <2> SUFFICES ASSUME phase = "run", client # "behavior"
               PROVE  /\ Len(solver) <= Len(collisions)
                      /\ \A i \in DOMAIN solver : collisions[i].link = solver[i]
    BY DEF ContactsOnTheirPair
  <2>1. DOMAIN solver = 1..Len(solver) /\ Len(solver) \in Nat
    BY <1>1, FunctionOfSeq DEF SimulatorInv, SolverFollows
  <2>2. Len(pairs) = Len(solver)
    BY <1>1 DEF SimulatorInv, SolverFollows
  <2>3. Len(collisions) = Len(solver)
    BY <1>1, <2>2 DEF SimulatorInv, ContactsOfPairs
  <2>4. \A i \in 1..Len(solver) : pairs[i].link = solver[i]
    BY <1>1 DEF SimulatorInv, SolverFollows, SameLinks
  <2>5. \A i \in 1..Len(solver) : collisions[i].link = pairs[i].link
    BY <1>1, <2>2 DEF SimulatorInv, ContactsOfPairs
  <2> QED BY <2>1, <2>3, <2>4, <2>5
<1> QED BY <1>1, SimulatorInvHolds, PTL

\* The contacts of a world state were computed at the positions it shows.
THEOREM StatesConsistent == Spec => []StateConsistent
<1>1. ASSUME SimulatorInv PROVE StateConsistent
  <2> SUFFICES ASSUME client # "kinematic", NEW i \in DOMAIN seen.col
               PROVE  seen.col[i].at = <<PoseOf(seen.pos, seen.col[i].link[1]),
                                         PoseOf(seen.pos, seen.col[i].link[2])>>
    BY DEF StateConsistent
  <2> DEFINE c == seen.col[i]
  <2>1. c.link \in Link \X Link /\ c.at = PosesAt(seen.pos, c.link)
    BY <1>1 DEF SimulatorInv, SeenConsistent
  <2>2. phase = "run"
    <3>1. seen # NotSeen
      BY DEF NotSeen
    <3> QED BY <1>1, <3>1 DEF SimulatorInv, SeenConsistent
  <2>3. ASSUME NEW l \in Link PROVE PoseOf(seen.pos, l) = seen.pos[bodyOf[Owner(l)]]
    <3>1. Owner(l) \in Name /\ Bodies = 1..Len(names) /\ Len(names) \in Nat
      BY <1>1, SimulatorAssumption, FunctionOfSeq DEF SimulatorInv, SimTypes, Bodies
    <3>2. bodyOf[Owner(l)] \in Bodies /\ names[bodyOf[Owner(l)]] = Owner(l)
      BY <1>1, <2>2, <3>1 DEF SimulatorInv, SimTypes, BodiesNumbered, Ready
    <3>3. \A k \in Bodies : names[k] = Owner(l) => k = bodyOf[Owner(l)]
      BY <1>1, <3>1 DEF SimulatorInv, BodiesNumbered
    <3>4. (CHOOSE k \in Bodies : names[k] = Owner(l)) = bodyOf[Owner(l)]
      BY <3>2, <3>3
    <3> QED BY <3>4 DEF PoseOf
  <2>4. c.link[1] \in Link /\ c.link[2] \in Link
    BY <2>1
  <2> QED BY <2>1, <2>3, <2>4 DEF PosesAt
<1> QED BY <1>1, SimulatorInvHolds, PTL

=============================================================================
