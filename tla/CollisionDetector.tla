------------------------- MODULE CollisionDetector -------------------------
(***************************************************************************)
(* The collision detector server (CollisionDetector_impl.cpp): the bodies  *)
(* registered under a name, where their links are, and the pairs of links  *)
(* that a query looks at.  Its operations are synchronous calls made by a  *)
(* dynamics simulator, so they are actions the caller conjoins.  Geometry  *)
(* is left out: a contact is the pose of the two bodies it was computed at.*)
(***************************************************************************)
EXTENDS Integers, Sequences, FiniteSets

CONSTANTS
    Name,           \* names of characters
    Link,           \* links of all characters
    Owner(_),       \* the character a link belongs to
    Pose            \* poses of a body, 0 the initial one

VARIABLES
    bodyOf,         \* nameToColdetBodyMap: a body's number, 0 = none
    posed,          \* per body number, its pose (setLinkPositions)
    pairs           \* coldetModelPairs

cdVars == <<bodyOf, posed, pairs>>

cdTypeOK ==
    /\ bodyOf \in [Name -> 0..Len(posed)] /\ posed \in Seq(Pose)
    /\ \A i \in DOMAIN pairs :
           pairs[i].link \in Link \X Link /\ pairs[i].of \in (DOMAIN posed) \X (DOMAIN posed)

cdCreated == bodyOf' = [c \in Name |-> 0] /\ posed' = <<>> /\ pairs' = <<>>

\* A name registered again gets the new body; pairs keep the old one.
cdRegisterCharacter(c) ==
    /\ posed' = Append(posed, 0)
    /\ bodyOf' = [bodyOf EXCEPT ![c] = Len(posed) + 1]
    /\ UNCHANGED pairs

cdAddCollisionPair(l1, l2) ==
    LET b == <<bodyOf[Owner(l1)], bodyOf[Owner(l2)]>>
    IN  pairs' = IF b[1] = 0 \/ b[2] = 0 THEN pairs
                 ELSE Append(pairs, [link |-> <<l1, l2>>, of |-> b])

\* updateAllLinkPositions(): the character positions in the order given, each
\* to the body that bears the name.
cdUpdateAllLinkPositions(names, poses) ==
    posed' = [b \in DOMAIN posed |->
        LET mine == {i \in DOMAIN names : bodyOf[names[i]] = b}
        IN  IF mine = {} THEN posed[b]
            ELSE poses[CHOOSE i \in mine : \A j \in mine : j <= i]]

\* detectAllCollisions(): one entry per pair, in the order of registration.
cdDetectAllCollisions ==
    [i \in DOMAIN pairs |->
        [link |-> pairs[i].link,
         at   |-> <<posed'[pairs[i].of[1]], posed'[pairs[i].of[2]]>>]]

=============================================================================
