------------------------------ MODULE Roadmap ------------------------------
(***************************************************************************)
(* The road map of the planning library (hrpPlanner/Roadmap.cpp,           *)
(* RoadmapNode.cpp) and the local motions it is built from (Mobility.cpp,  *)
(* PathPlanner::checkCollision), as operators.  A road map's nodes live in *)
(* a heap h, a sequence of records; the road map itself is a sequence of   *)
(* indexes into it, so that one node can be handed from tree to tree.      *)
(* Index 0 is the null pointer.                                            *)
(***************************************************************************)
EXTENDS Integers, Sequences

CONSTANTS
    Config,                 \* configurations of the robot
    Blocked,                \* the ones in collision
    Mobility,
    Distance(_, _, _),      \* Distance(m, a, b): the mobility's metric
    Interpolate(_, _, _, _, _), \* Interpolate(m, a, b, i, n): the point i/n of the way
    Reversible(_),          \* Mobility::isReversible()
    InterpDist,             \* property "interpolation-distance"
    MaxDist                 \* property "max-dist"

-----------------------------------------------------------------------------
\* The configurations a robot goes through from a to b.
Steps(m, a, b) == Distance(m, a, b) \div InterpDist + 1

getPath(m, a, b) ==
    <<a>> \o [i \in 1..(Steps(m, a, b) - 1) |-> Interpolate(m, a, b, i, Steps(m, a, b))]
          \o <<b>>

Points(m, a, b) == LET p == getPath(m, a, b) IN {p[i] : i \in DOMAIN p}

\* checkCollision(path) visits a path of k configurations with the strides
\* k/2, k/3, ... down to 1, coarse ones first, but for its two ends (indexes
\* from 0).
Strides(k) == {k \div div : div \in 2..k}

Visited(k) == {i \in 1..(k - 2) : \E step \in Strides(k) : i % step = 0}

checkCollision(path) == \E i \in Visited(Len(path)) : path[i + 1] \in Blocked

isReachable(m, a, b) == ~checkCollision(getPath(m, a, b))

FreeMotion(m, a, b) == Points(m, a, b) \cap Blocked = {}

\* Configurations stay in the space, and isReversible() is what Mobility.h says of
\* it: whoever can go from a to b can go back the same way.
ASSUME MobilityAssumption ==
    /\ InterpDist \in Nat \ {0}
    /\ \A m \in Mobility, a, b \in Config :
        /\ Distance(m, a, b) \in Nat
        /\ Points(m, a, b) \subseteq Config
        /\ Reversible(m) => Points(m, b, a) \subseteq Points(m, a, b)

\* What a shortcut between two points of a path takes for granted: a point of the
\* way from a to b parts it into two ways that go through no other configuration.
Divisible ==
    \A m \in Mobility, a, b \in Config : \A p \in Points(m, a, b) :
        Points(m, a, p) \union Points(m, p, b) \subseteq Points(m, a, b)

-----------------------------------------------------------------------------
Node == [pos : Config, parents : Seq(Nat), children : Seq(Nat)]

NewNode(pos) == [pos |-> pos, parents |-> <<>>, children |-> <<>>]

\* parent(0), child(0)
First(nodes) == IF nodes = <<>> THEN 0 ELSE nodes[1]

addEdge(h, from, to) ==
    [h EXCEPT ![from].children = Append(@, to), ![to].parents = Append(@, from)]

\* The first of the nodes nearest to q, as a set of one.
findNearestNode(h, m, tree, q) ==
    LET d(i) == Distance(m, h[tree[i]].pos, q)
    IN  {tree[i] : i \in {i \in DOMAIN tree : \A k \in DOMAIN tree :
                                 d(i) < d(k) \/ (d(i) = d(k) /\ i <= k)}}

tryConnection(h, m, from, to) ==
    LET there == isReachable(m, h[from].pos, h[to].pos)
        back  == IF Reversible(m) THEN there
                 ELSE isReachable(m, h[to].pos, h[from].pos)
        g     == IF there THEN addEdge(h, from, to) ELSE h
    IN  IF back THEN addEdge(g, to, from) ELSE g

\* How PRM uses it.
ConnectNear(h, m, from, to) ==
    IF Distance(m, h[from].pos, h[to].pos) < MaxDist THEN tryConnection(h, m, from, to)
    ELSE h

\* Mutant: only the first child is looked at.
UnvisitedFirst(h, node, seen) ==
    {c \in DOMAIN h[node].children : c = 1 /\ h[node].children[c] \notin seen}

\* Which children of a node the depth-first search has not visited.
Unvisited(h, node, seen) == {c \in DOMAIN h[node].children : h[node].children[c] \notin seen}

\* No set of nodes that holds a, and with a node its children, leaves b out.
Connected(h, a, b) ==
    \A S \in SUBSET DOMAIN h :
        /\ a \in S
        /\ \A i \in S : \A c \in DOMAIN h[i].children : h[i].children[c] \in S
        => b \in S

=============================================================================
