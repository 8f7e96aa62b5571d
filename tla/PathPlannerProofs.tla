------------------------- MODULE PathPlannerProofs -------------------------
(***************************************************************************)
(* What holds of the path planner for every space, mobility, obstacle and  *)
(* number of trials, samples and plannings: its road maps are made of      *)
(* motions and closed, a depth-first search is complete, and what the      *)
(* client fetches is a motion from the start to the goal.                  *)
(***************************************************************************)
EXTENDS PathPlanner, FiniteSetTheorems, SequenceTheorems, TLAPS

PRMWork == {"sample", "link", "pair", "add", "join", "search"}
RRTWork == {"grow", "connect", "extract", "up", "down"}

Elements(s) == {s[i] : i \in DOMAIN s}

-----------------------------------------------------------------------------
(* Heaps *)

LinksInside(h) ==
    \A a \in DOMAIN h : h[a].parents \in Seq(DOMAIN h) /\ h[a].children \in Seq(DOMAIN h)

NodesFree(h) == \A a \in DOMAIN h : h[a].pos \notin Blocked

LinksAreMoves(m, h) ==
    \A a, b \in DOMAIN h :
        /\ Count(h[a].children, b) = Count(h[b].parents, a)
        /\ Count(h[a].children, b) > 0 => FreeMotion(m, h[a].pos, h[b].pos)

GoodHeap(m, h) == h \in Seq(Node) /\ LinksInside(h) /\ NodesFree(h) /\ LinksAreMoves(m, h)

\* A set of nodes that no edge enters or leaves.
Closed(h, S) == \A a \in S : Elements(h[a].children) \subseteq S /\ Elements(h[a].parents) \subseteq S

\* h with edges between nodes of S added.
Linked(h, g, S) ==
    /\ DOMAIN g = DOMAIN h
    /\ \A a \in DOMAIN h :
        /\ g[a].pos = h[a].pos
        /\ a \notin S => g[a] = h[a]
        /\ Elements(g[a].children) \subseteq Elements(h[a].children) \union S
        /\ Elements(g[a].parents) \subseteq Elements(h[a].parents) \union S

\* A good heap and two trees that share no node and that no edge leaves.
MapOK(m, r) ==
    /\ r \in Trees /\ GoodHeap(m, r.node)
    /\ Elements(r.start) \subseteq DOMAIN r.node /\ Elements(r.goal) \subseteq DOMAIN r.node
    /\ Elements(r.start) \cap Elements(r.goal) = {}
    /\ Closed(r.node, Elements(r.start)) /\ Closed(r.node, Elements(r.goal))

-----------------------------------------------------------------------------
(* The invariant of the road maps *)

Typed ==
    /\ alg \in Algorithm \union {"none"} /\ mob \in Mobility \union {"none"}
    /\ <<start, goal>> \in Request /\ start \in Config /\ goal \in Config
    /\ calcs \in 0..MaxCalcs
    /\ pc \in Working \union {"idle", "called", "cut", "raced", "crashed"}
    /\ running \in BOOLEAN /\ cancelled \in BOOLEAN /\ swapped \in BOOLEAN /\ ok \in BOOLEAN
    /\ path \in Seq(Config) /\ found \in Seq(Config)
    /\ n \in Nat /\ j \in Nat
    /\ stack \in Seq(DOMAIN rm.node) /\ seen \subseteq DOMAIN rm.node
    /\ pc # "search" => stack = <<>> /\ seen = {}
    /\ pc \notin {"up", "down", "cut", "crashed"} => found = <<>>
    /\ pc \in {"up", "down"} => j \in 0..Len(rm.node)

\* The algorithm and mobility of a planning, and which loops they run.
NamesOK ==
    /\ alg = "none" => mob = "none" /\ rm = NoRoadmap /\ path = <<>> /\ pc \in {"idle", "crashed"}
    /\ alg # "none" => mob \in Mobility
    /\ pc \in PRMWork => alg = "PRM"
    /\ pc \in RRTWork => alg # "PRM"

ListsOK ==
    /\ pc \notin RRTWork \union {"crashed"} => rm.goal = <<>>
    /\ pc \in RRTWork => rm.start # <<>> /\ rm.goal # <<>>

\* The counters of the loops over the road map.
LoopsOK ==
    /\ pc = "link" => n \in 1..Len(rm.start)
    /\ pc = "pair" => n \in 1..(Len(rm.start) - 1) /\ j \in (n + 1)..Len(rm.start)
    /\ pc = "join" => n \in 1..Len(rm.start)
    /\ pc = "cut" => j \in 2..Len(found)

EndsFree == pc \in Working => start \notin Blocked /\ goal \notin Blocked /\ path = <<>>

EndsJoined ==
    pc \in {"join", "search"} =>
        /\ Len(rm.node) >= 2
        /\ {startNode, goalNode} \subseteq Elements(rm.start)
        /\ rm.node[startNode].pos = start /\ rm.node[goalNode].pos = goal

MapInv ==
    /\ Typed /\ NamesOK /\ ListsOK /\ LoopsOK /\ EndsFree /\ EndsJoined
    /\ MapOK(mob, rm)

-----------------------------------------------------------------------------
(* The invariant of the stop requests *)

\* As long as a call is alone, nobody but its own beginning sets the flag again.
StopInv ==
    /\ stopped \in BOOLEAN /\ calls \in Seq(Call)
    /\ pc = "called" => ~stopped
    /\ stopped /\ pc \notin {"raced", "crashed"} => ~running
    /\ pc = "raced" => Len(calls) >= 2
    /\ pc \notin {"raced", "crashed"} => calls = <<>>
    /\ \A i \in DOMAIN calls : calls[i].stopped => ~running

-----------------------------------------------------------------------------
(* The invariant of the depth-first search *)

ChildClosed(h, S) == \A a \in S : Elements(h[a].children) \subseteq S

\* The stack is a path from the start; what has been seen can be reached from there,
\* and the children of what has left the stack have been seen.
SearchInv ==
    pc = "search" =>
        /\ stack # <<>> => stack[1] = startNode
        /\ \A i \in 1..(Len(stack) - 1) : stack[i + 1] \in Elements(rm.node[stack[i]].children)
        /\ startNode \in seen /\ Elements(stack) \subseteq seen
        /\ \A a \in seen \ Elements(stack) : Elements(rm.node[a].children) \subseteq seen
        /\ \A S \in SUBSET DOMAIN rm.node :
               startNode \in S /\ ChildClosed(rm.node, S) => seen \subseteq S
        /\ goalNode \in seen => stack # <<>> /\ Top = goalNode

-----------------------------------------------------------------------------
(* The invariant of the paths *)

\* A motion from a to b, one leg at a time.
Leads(m, p, a, b) ==
    /\ p \in Seq(Config) /\ p # <<>> /\ p[1] = a /\ p[Len(p)] = b
    /\ \A i \in 1..(Len(p) - 1) : FreeMotion(m, p[i], p[i + 1])

\* Whoever has no parent in the start tree is its root, and in the goal tree
\* whoever has no child.
RootsOK ==
    /\ pc = "called" /\ alg # "PRM" => rm.start = <<>>
    /\ pc \in RRTWork =>
        /\ \A a \in Elements(rm.start) : rm.node[a].parents = <<>> => rm.node[a].pos = start
        /\ \A a \in Elements(rm.goal) : rm.node[a].children = <<>> => rm.node[a].pos = goal

\* A search that succeeds has led both trees, or the one, to the same place.
Met ==
    pc \in {"extract", "up", "down"} /\ ok =>
        rm.node[lastAddedNode("start")].pos =
            IF Both THEN rm.node[lastAddedNode("goal")].pos ELSE goal

\* What extractPath() has collected.
ExtractOK ==
    /\ pc \in {"grow", "connect", "extract"} => found = <<>>
    /\ pc = "up" =>
        /\ j # 0 => j \in Elements(rm.start)
        /\ found = <<>> => j = lastAddedNode("start")
        /\ found # <<>> =>
            /\ Leads(mob, found, found[1], rm.node[lastAddedNode("start")].pos)
            /\ IF j = 0 THEN found[1] = start ELSE FreeMotion(mob, rm.node[j].pos, found[1])
    /\ pc = "down" =>
        /\ Both
        /\ j # 0 => j \in Elements(rm.goal)
        /\ ok =>
            /\ Leads(mob, found, start, found[Len(found)])
            /\ IF j = 0 THEN found[Len(found)] = goal
               ELSE FreeMotion(mob, found[Len(found)], rm.node[j].pos)

CutOK == pc = "cut" => Leads(mob, found, start, goal)

PathOK == pc # "called" /\ path # <<>> => Leads(mob, path, start, goal)

PathInv == RootsOK /\ Met /\ ExtractOK /\ CutOK /\ PathOK

-----------------------------------------------------------------------------
(* Local motions *)

\* A motion has at least its two ends, which are its first and its last
\* configuration.
LEMMA PathShape ==
    ASSUME NEW m \in Mobility, NEW a \in Config, NEW b \in Config
    PROVE  /\ Steps(m, a, b) \in Nat \ {0}
           /\ Len(getPath(m, a, b)) = Steps(m, a, b) + 1
           /\ DOMAIN getPath(m, a, b) = 1..(Steps(m, a, b) + 1)
           /\ getPath(m, a, b)[1] = a
           /\ getPath(m, a, b)[Steps(m, a, b) + 1] = b
<1> DEFINE k == Steps(m, a, b)
           s == [i \in 1..(k - 1) |-> Interpolate(m, a, b, i, k)]
<1>1. k \in Nat \ {0}
  <2>1. Distance(m, a, b) \in Nat /\ InterpDist \in Nat \ {0}
    BY MobilityAssumption
  <2>2. Distance(m, a, b) \div InterpDist \in Nat
    BY <2>1
  <2> QED BY <2>2 DEF Steps
<1>2. getPath(m, a, b) = <<a>> \o s \o <<b>>
  BY DEF getPath
<1> HIDE DEF k
<1> DEFINE T == {a, b} \union {s[i] : i \in 1..(k - 1)}
<1>3. s \in Seq(T) /\ Len(s) = k - 1 /\ <<a>> \in Seq(T) /\ <<b>> \in Seq(T)
  BY <1>1
<1> HIDE DEF s, T
<1> QED BY <1>1, <1>2, <1>3 DEF k

\* The ends of a free motion are free.
LEMMA FreeEnds ==
    ASSUME NEW m \in Mobility, NEW a \in Config, NEW b \in Config, FreeMotion(m, a, b)
    PROVE  a \notin Blocked /\ b \notin Blocked
<1>1. 1 \in DOMAIN getPath(m, a, b) /\ Steps(m, a, b) + 1 \in DOMAIN getPath(m, a, b)
  BY PathShape
<1> DEFINE p == getPath(m, a, b)
<1>2. Points(m, a, b) = {p[i] : i \in DOMAIN p}
  BY DEF Points
<1>3. p[1] = a /\ p[Steps(m, a, b) + 1] = b
  BY PathShape
<1> HIDE DEF p
<1>4. a \in Points(m, a, b) /\ b \in Points(m, a, b)
  BY <1>1, <1>2, <1>3 DEF p
<1> QED BY <1>4 DEF FreeMotion

\* The last stride of checkCollision() is 1: with free ends, a reachable place is a
\* free motion away.
LEMMA ReachableIsFree ==
    ASSUME NEW m \in Mobility, NEW a \in Config, NEW b \in Config,
           a \notin Blocked, b \notin Blocked, isReachable(m, a, b)
    PROVE  FreeMotion(m, a, b)
<1> DEFINE p == getPath(m, a, b)
           k == Steps(m, a, b) + 1
<1>1. k \in Nat /\ k >= 2 /\ Len(p) = k /\ DOMAIN p = 1..k /\ p[1] = a /\ p[k] = b
  BY PathShape
<1>2. \A i \in Visited(Len(p)) : p[i + 1] \notin Blocked
  BY DEF isReachable, checkCollision
<1> HIDE DEF p, k
<1>3. 1 \in Strides(k)
  <2>1. k \div k = 1 BY <1>1
  <2> QED BY <1>1, <2>1 DEF Strides
<1>4. \A i \in 1..(k - 2) : i \in Visited(k)
  <2>1. \A i \in 1..(k - 2) : i % 1 = 0 BY <1>1
  <2> QED BY <1>1, <1>3, <2>1 DEF Visited
<1>5. ASSUME NEW i \in 1..k PROVE p[i] \notin Blocked
  <2>1. CASE i = 1 \/ i = k BY <2>1, <1>1
  <2>2. CASE i # 1 /\ i # k
    <3>1. i - 1 \in 1..(k - 2) BY <2>2, <1>1
    <3>2. p[(i - 1) + 1] \notin Blocked BY <3>1, <1>1, <1>2, <1>4
    <3> QED BY <3>2, <1>1
  <2> QED BY <2>1, <2>2
<1> QED BY <1>1, <1>5 DEF FreeMotion, Points, p


-----------------------------------------------------------------------------
(* Counting and elements *)

\* Appending x to a sequence adds one to the count of x and nothing else.
LEMMA CountAppend ==
    ASSUME NEW s \in Seq(Nat), NEW x \in Nat, NEW y
    PROVE  /\ Count(s, y) \in Nat
           /\ Count(Append(s, x), y) = Count(s, y) + (IF x = y THEN 1 ELSE 0)
<1> DEFINE I == {i \in DOMAIN s : s[i] = y}
           t == Append(s, x)
           K == {i \in DOMAIN t : t[i] = y}
<1>1. /\ Len(s) \in Nat /\ DOMAIN s = 1..Len(s) /\ DOMAIN t = 1..(Len(s) + 1)
      /\ \A i \in 1..Len(s) : t[i] = s[i]
      /\ t[Len(s) + 1] = x
  BY AppendProperties
<1>2. IsFiniteSet(I)
  <2>1. IsFiniteSet(1..Len(s)) /\ I \in SUBSET (1..Len(s))
    BY <1>1, FS_Interval
  <2> QED BY <2>1, FS_Subset
<1>3. Len(s) + 1 \notin I BY <1>1
<1>4. CASE x = y
  <2>1. K = I \union {Len(s) + 1}
    <3> HIDE DEF t
    <3> QED BY <1>1, <1>4
  <2> QED BY <2>1, <1>2, <1>3, <1>4, FS_AddElement, FS_CardinalityType DEF Count
<1>5. CASE x # y
  <2>1. K = I
    <3> HIDE DEF t
    <3> QED BY <1>1, <1>5
  <2>2. Cardinality(I) \in Nat BY <1>2, FS_CardinalityType
  <2>3. Count(s, y) = Cardinality(I) /\ Count(t, y) = Cardinality(K)
    BY DEF Count
  <2> HIDE DEF I, K, t
  <2> QED BY <2>1, <2>2, <2>3, <1>5 DEF t
<1> QED BY <1>4, <1>5

\* Only what a sequence has counts.
LEMMA CountElements ==
    ASSUME NEW s \in Seq(Nat), NEW y
    PROVE  Count(s, y) \in Nat /\ (Count(s, y) > 0 <=> y \in Elements(s))
<1> DEFINE I == {i \in DOMAIN s : s[i] = y}
<1>1. Len(s) \in Nat /\ DOMAIN s = 1..Len(s) BY LenProperties
<1>2. IsFiniteSet(I)
  <2>1. IsFiniteSet(1..Len(s)) /\ I \in SUBSET (1..Len(s))
    BY <1>1, FS_Interval
  <2> QED BY <2>1, FS_Subset
<1>3. Cardinality(I) \in Nat /\ (Cardinality(I) = 0 <=> I = {})
  BY <1>2, FS_CardinalityType, FS_EmptySet
<1>4. I # {} <=> y \in Elements(s)
  BY DEF Elements
<1> HIDE DEF I
<1>5. Count(s, y) = Cardinality(I) BY DEF Count, I
<1> QED BY <1>3, <1>4, <1>5

LEMMA ElementsAppend ==
    ASSUME NEW S, NEW s \in Seq(S), NEW x \in S
    PROVE  /\ Append(s, x) \in Seq(S) /\ Append(s, x) # <<>>
           /\ Elements(Append(s, x)) = Elements(s) \union {x}
<1>1. /\ Len(s) \in Nat /\ DOMAIN s = 1..Len(s) /\ DOMAIN Append(s, x) = 1..(Len(s) + 1)
      /\ \A i \in 1..Len(s) : Append(s, x)[i] = s[i]
      /\ Append(s, x)[Len(s) + 1] = x
      /\ Append(s, x) \in Seq(S) /\ Append(s, x) # <<>>
  BY AppendProperties
<1> DEFINE t == Append(s, x)
<1> HIDE DEF t
<1>2. /\ Len(s) \in Nat /\ DOMAIN s = 1..Len(s) /\ DOMAIN t = 1..(Len(s) + 1)
      /\ \A i \in 1..Len(s) : t[i] = s[i]
      /\ t[Len(s) + 1] = x
  BY <1>1 DEF t
<1>3. Elements(t) = Elements(s) \union {x}
  BY <1>2 DEF Elements
<1> QED BY <1>1, <1>3 DEF t

LEMMA ElementsConcat ==
    ASSUME NEW S, NEW s \in Seq(S), NEW u \in Seq(S)
    PROVE  s \o u \in Seq(S) /\ Elements(s \o u) = Elements(s) \union Elements(u)
<1> DEFINE t == s \o u
<1>1. /\ Len(s) \in Nat /\ DOMAIN s = 1..Len(s) /\ Len(u) \in Nat /\ DOMAIN u = 1..Len(u)
      /\ DOMAIN t = 1..(Len(s) + Len(u))
      /\ \A i \in 1..(Len(s) + Len(u)) : t[i] = IF i <= Len(s) THEN s[i] ELSE u[i - Len(s)]
      /\ t \in Seq(S)
  BY ConcatProperties, LenProperties
<1> HIDE DEF t
<1>2. ASSUME NEW i \in 1..(Len(s) + Len(u)) PROVE t[i] \in Elements(s) \union Elements(u)
  <2>1. CASE i <= Len(s) BY <1>1, <2>1 DEF Elements
  <2>2. CASE ~(i <= Len(s))
    <3>1. i - Len(s) \in 1..Len(u) BY <1>1, <2>2
    <3> QED BY <1>1, <2>2, <3>1 DEF Elements
  <2> QED BY <2>1, <2>2
<1>3. Elements(s) \subseteq Elements(t)
  BY <1>1 DEF Elements
<1>4. Elements(u) \subseteq Elements(t)
  <2> SUFFICES ASSUME NEW i \in 1..Len(u) PROVE u[i] \in Elements(t)
    BY <1>1 DEF Elements
  <2>1. i + Len(s) \in 1..(Len(s) + Len(u)) /\ ~(i + Len(s) <= Len(s)) /\ (i + Len(s)) - Len(s) = i
    BY <1>1
  <2>2. t[i + Len(s)] = u[i] BY <1>1, <2>1
  <2> QED BY <1>1, <2>1, <2>2 DEF Elements
<1>5. Elements(t) \subseteq Elements(s) \union Elements(u)
  BY <1>1, <1>2 DEF Elements
<1> QED BY <1>1, <1>3, <1>4, <1>5 DEF t

\* The elements of a sequence over S are in S, the first and last of a non-empty one
\* among them.
LEMMA ElementsIn ==
    ASSUME NEW S, NEW s \in Seq(S)
    PROVE  /\ Elements(s) \subseteq S
           /\ s = <<>> <=> Elements(s) = {}
           /\ s # <<>> => s[1] \in Elements(s) /\ s[Len(s)] \in Elements(s)
           /\ First(s) # 0 => First(s) \in Elements(s)
<1>1. Len(s) \in Nat /\ DOMAIN s = 1..Len(s) /\ (\A i \in 1..Len(s) : s[i] \in S)
      /\ (s = <<>> <=> Len(s) = 0)
  BY LenProperties, ElementOfSeq, EmptySeq
<1>2. s # <<>> => 1 \in DOMAIN s /\ Len(s) \in DOMAIN s
  BY <1>1
<1>3. Elements(s) \subseteq S
  BY <1>1 DEF Elements
<1>4. s # <<>> => s[1] \in Elements(s) /\ s[Len(s)] \in Elements(s)
  BY <1>2 DEF Elements
<1>5. s = <<>> => Elements(s) = {}
  BY <1>1 DEF Elements
<1> QED BY <1>3, <1>4, <1>5 DEF First


-----------------------------------------------------------------------------
(* Heaps grow *)

LEMMA HeapTypes ==
    ASSUME NEW h \in Seq(Node)
    PROVE  /\ Len(h) \in Nat /\ DOMAIN h = 1..Len(h)
           /\ \A a \in DOMAIN h :
                /\ h[a] \in Node /\ a \in Nat /\ a # 0
                /\ h[a].pos \in Config /\ h[a].parents \in Seq(Nat) /\ h[a].children \in Seq(Nat)
                /\ h[a] = [pos |-> h[a].pos, parents |-> h[a].parents, children |-> h[a].children]
<1>1. Len(h) \in Nat /\ DOMAIN h = 1..Len(h) /\ \A a \in 1..Len(h) : h[a] \in Node
  BY LenProperties, ElementOfSeq
<1>2. ASSUME NEW a \in 1..Len(h)
      PROVE  /\ a \in Nat /\ a # 0
             /\ h[a].pos \in Config /\ h[a].parents \in Seq(Nat) /\ h[a].children \in Seq(Nat)
             /\ h[a] = [pos |-> h[a].pos, parents |-> h[a].parents, children |-> h[a].children]
  <2>1. h[a] \in Node /\ a \in Nat /\ a # 0 BY <1>1
  <2> QED BY <2>1 DEF Node
<1> QED BY <1>1, <1>2

\* addEdge() enters the edge at its two ends and touches nothing else.
LEMMA AddEdgeEffect ==
    ASSUME NEW h \in Seq(Node), NEW from \in DOMAIN h, NEW to \in DOMAIN h
    PROVE  /\ addEdge(h, from, to) \in Seq(Node)
           /\ DOMAIN addEdge(h, from, to) = DOMAIN h
           /\ \A a \in DOMAIN h :
                /\ addEdge(h, from, to)[a].pos = h[a].pos
                /\ addEdge(h, from, to)[a].children =
                       IF a = from THEN Append(h[a].children, to) ELSE h[a].children
                /\ addEdge(h, from, to)[a].parents =
                       IF a = to THEN Append(h[a].parents, from) ELSE h[a].parents
                /\ a \notin {from, to} => addEdge(h, from, to)[a] = h[a]
<1> DEFINE g == addEdge(h, from, to)
           hc == [h EXCEPT ![from].children = Append(@, to)]
<1>1. g = [hc EXCEPT ![to].parents = Append(@, from)]
  BY DEF addEdge
<1>2. Len(h) \in Nat /\ DOMAIN h = 1..Len(h) /\ from \in Nat /\ to \in Nat
  BY HeapTypes
<1>3. /\ DOMAIN hc = DOMAIN h
      /\ \A a \in DOMAIN h : a # from => hc[a] = h[a]
      /\ hc[from] = [h[from] EXCEPT !.children = Append(@, to)]
  OBVIOUS
<1>4. /\ hc[from].pos = h[from].pos /\ hc[from].parents = h[from].parents
      /\ hc[from].children = Append(h[from].children, to)
      /\ hc[from] \in Node
  <2>1. /\ h[from] \in Node /\ Append(h[from].children, to) \in Seq(Nat)
    BY <1>2, HeapTypes, ElementsAppend
  <2> QED BY <1>3, <2>1 DEF Node
<1> HIDE DEF hc
<1>5. /\ DOMAIN g = DOMAIN h
      /\ \A a \in DOMAIN h : a # to => g[a] = hc[a]
      /\ g[to] = [hc[to] EXCEPT !.parents = Append(@, from)]
  BY <1>1, <1>3
<1>6. hc[to] \in Node /\ hc[to].parents \in Seq(Nat)
  <2>1. hc[to] \in Node BY <1>3, <1>4, HeapTypes
  <2> QED BY <2>1 DEF Node
<1>7. /\ g[to].pos = hc[to].pos /\ g[to].children = hc[to].children
      /\ g[to].parents = Append(hc[to].parents, from)
      /\ g[to] \in Node
  <2>1. Append(hc[to].parents, from) \in Seq(Nat)
    BY <1>2, <1>6, ElementsAppend
  <2> QED BY <1>5, <1>6, <2>1 DEF Node
<1> HIDE DEF g
<1>8. \A a \in DOMAIN h :
          /\ g[a] \in Node /\ g[a].pos = h[a].pos
          /\ g[a].children = IF a = from THEN Append(h[a].children, to) ELSE h[a].children
          /\ g[a].parents = IF a = to THEN Append(h[a].parents, from) ELSE h[a].parents
          /\ a \notin {from, to} => g[a] = h[a]
  <2> SUFFICES ASSUME NEW a \in DOMAIN h
               PROVE /\ g[a] \in Node /\ g[a].pos = h[a].pos
                     /\ g[a].children = IF a = from THEN Append(h[a].children, to)
                                       ELSE h[a].children
                     /\ g[a].parents = IF a = to THEN Append(h[a].parents, from)
                                      ELSE h[a].parents
                     /\ a \notin {from, to} => g[a] = h[a]
    OBVIOUS
  <2>1. CASE a # to /\ a # from
    <3>1. g[a] = h[a] BY <2>1, <1>3, <1>5
    <3> QED BY <3>1, <2>1, HeapTypes
  <2>2. CASE a # to /\ a = from
    <3>1. g[a] = hc[a] BY <2>2, <1>5
    <3> QED BY <3>1, <2>2, <1>4
  <2>3. CASE a = to /\ a # from
    <3>1. hc[a] = h[a] BY <2>3, <1>3
    <3> QED BY <3>1, <2>3, <1>7
  <2>4. CASE a = to /\ a = from
    BY <2>4, <1>4, <1>7
  <2> QED BY <2>1, <2>2, <2>3, <2>4
<1>9. g \in Seq(Node)
  <2>1. g = [i \in 1..Len(h) |-> g[i]]
    BY <1>1, <1>2, <1>5, <1>3 DEF g, hc
  <2>2. \A i \in 1..Len(h) : g[i] \in Node BY <1>2, <1>8
  <2> QED BY <1>2, <2>1, <2>2
<1> QED BY <1>5, <1>8, <1>9 DEF g


\* The positions stay, no list of neighbours gets empty, and the edge is there.
EdgeEntered(h, g, from, to) ==
    /\ DOMAIN g = DOMAIN h
    /\ \A a \in DOMAIN h :
         /\ g[a].pos = h[a].pos
         /\ g[a].parents = <<>> => h[a].parents = <<>>
         /\ g[a].children = <<>> => h[a].children = <<>>
    /\ g[from].children # <<>> /\ g[to].parents # <<>>

LEMMA AddEdgeKeeps ==
    ASSUME NEW h \in Seq(Node), NEW from \in DOMAIN h, NEW to \in DOMAIN h
    PROVE  EdgeEntered(h, addEdge(h, from, to), from, to)
<1>1. ASSUME NEW s \in Seq(Nat), NEW y \in Nat PROVE Append(s, y) # <<>>
  BY AppendProperties
<1>2. from \in Nat /\ to \in Nat
      /\ \A a \in DOMAIN h : h[a].parents \in Seq(Nat) /\ h[a].children \in Seq(Nat)
  BY HeapTypes
<1>3. \A a \in DOMAIN h : Append(h[a].children, to) # <<>> /\ Append(h[a].parents, from) # <<>>
  BY <1>1, <1>2
<1> DEFINE e == addEdge(h, from, to)
<1>4. /\ e \in Seq(Node) /\ DOMAIN e = DOMAIN h
      /\ \A a \in DOMAIN h :
           /\ e[a].pos = h[a].pos
           /\ e[a].children = IF a = from THEN Append(h[a].children, to) ELSE h[a].children
           /\ e[a].parents = IF a = to THEN Append(h[a].parents, from) ELSE h[a].parents
           /\ a \notin {from, to} => e[a] = h[a]
  BY AddEdgeEffect
<1> HIDE DEF e
<1>5. EdgeEntered(h, e, from, to) BY <1>3, <1>4 DEF EdgeEntered
<1> QED BY <1>5 DEF e

\* A motion between free places may be entered as an edge.
LEMMA AddEdgeGood ==
    ASSUME NEW m \in Mobility, NEW h, GoodHeap(m, h),
           NEW from \in DOMAIN h, NEW to \in DOMAIN h,
           FreeMotion(m, h[from].pos, h[to].pos), NEW S, from \in S, to \in S
    PROVE  /\ GoodHeap(m, addEdge(h, from, to)) /\ Linked(h, addEdge(h, from, to), S)
<1> DEFINE g == addEdge(h, from, to)
<1>1. /\ h \in Seq(Node) /\ g \in Seq(Node) /\ DOMAIN g = DOMAIN h
      /\ \A a \in DOMAIN h :
           /\ g[a].pos = h[a].pos
           /\ g[a].children = IF a = from THEN Append(h[a].children, to) ELSE h[a].children
           /\ g[a].parents = IF a = to THEN Append(h[a].parents, from) ELSE h[a].parents
           /\ a \notin {from, to} => g[a] = h[a]
  BY AddEdgeEffect DEF GoodHeap
<1> HIDE DEF g
<1>2. \A a \in DOMAIN h : a \in Nat /\ h[a].parents \in Seq(Nat) /\ h[a].children \in Seq(Nat)
  BY <1>1, HeapTypes
<1>3. \A a \in DOMAIN h : h[a].parents \in Seq(DOMAIN h) /\ h[a].children \in Seq(DOMAIN h)
  BY DEF GoodHeap, LinksInside
<1>4. LinksInside(g)
  <2>1. \A a \in DOMAIN h : /\ Append(h[a].children, to) \in Seq(DOMAIN h)
                            /\ Append(h[a].parents, from) \in Seq(DOMAIN h)
    BY <1>3, ElementsAppend
  <2> QED BY ZenonT(40), <1>1, <1>3, <2>1 DEF LinksInside
<1>5. NodesFree(g)
  BY <1>1 DEF GoodHeap, NodesFree
<1>6. ASSUME NEW a \in DOMAIN h, NEW b \in DOMAIN h
      PROVE  /\ Count(g[a].children, b) = Count(g[b].parents, a)
             /\ Count(g[a].children, b) > 0 => FreeMotion(m, g[a].pos, g[b].pos)
  <2>1. /\ Count(h[a].children, b) = Count(h[b].parents, a)
        /\ Count(h[a].children, b) > 0 => FreeMotion(m, h[a].pos, h[b].pos)
    BY DEF GoodHeap, LinksAreMoves
  <2>2. Count(h[a].children, b) \in Nat /\ Count(h[b].parents, a) \in Nat
    BY <1>2, CountAppend
  <2>3. Count(Append(h[a].children, to), b) = Count(h[a].children, b) + (IF to = b THEN 1 ELSE 0)
    BY <1>2, CountAppend
  <2>4. Count(Append(h[b].parents, from), a) = Count(h[b].parents, a) + (IF from = a THEN 1 ELSE 0)
    BY <1>2, CountAppend
  <2>5. CASE a = from /\ b = to
    BY <1>1, <2>1, <2>2, <2>3, <2>4, <2>5
  <2>6. CASE ~(a = from /\ b = to)
    <3>1. Count(g[a].children, b) = Count(h[a].children, b)
      BY <1>1, <2>2, <2>3, <2>6
    <3>2. Count(g[b].parents, a) = Count(h[b].parents, a)
      BY <1>1, <2>2, <2>4, <2>6
    <3> QED BY <1>1, <2>1, <3>1, <3>2
  <2> QED BY <2>5, <2>6
<1>7. GoodHeap(m, g)
  BY <1>1, <1>4, <1>5, <1>6 DEF GoodHeap, LinksAreMoves
<1>8. Linked(h, g, S)
  <2>1. \A a \in DOMAIN h :
           /\ Elements(Append(h[a].children, to)) = Elements(h[a].children) \union {to}
           /\ Elements(Append(h[a].parents, from)) = Elements(h[a].parents) \union {from}
    BY <1>3, ElementsAppend
  <2> QED BY SMTT(20), <1>1, <2>1 DEF Linked
<1> QED BY <1>7, <1>8 DEF g

LEMMA LinkedTwice ==
    ASSUME NEW h, NEW g, NEW f, NEW S, Linked(h, g, S), Linked(g, f, S)
    PROVE  Linked(h, f, S)
BY DEF Linked

LEMMA LinkedSelf ==
    ASSUME NEW h, NEW S
    PROVE  Linked(h, h, S)
BY DEF Linked

\* A new node is in nobody's way.
LEMMA AppendGood ==
    ASSUME NEW m \in Mobility, NEW h, GoodHeap(m, h), NEW q \in Config \ Blocked
    PROVE  /\ GoodHeap(m, Append(h, NewNode(q)))
           /\ DOMAIN Append(h, NewNode(q)) = DOMAIN h \union {Len(h) + 1}
           /\ Len(h) + 1 \notin DOMAIN h
           /\ \A a \in DOMAIN h : Append(h, NewNode(q))[a] = h[a]
           /\ Append(h, NewNode(q))[Len(h) + 1] = NewNode(q)
<1> DEFINE k == Len(h) + 1
           g == Append(h, NewNode(q))
<1>1. h \in Seq(Node) /\ NewNode(q) \in Node
  BY DEF GoodHeap, Node, NewNode
<1>2. /\ Len(h) \in Nat /\ DOMAIN h = 1..Len(h) /\ g \in Seq(Node) /\ DOMAIN g = 1..k
      /\ \A a \in 1..Len(h) : g[a] = h[a]
      /\ g[k] = NewNode(q)
  BY <1>1, AppendProperties
<1> HIDE DEF g
<1>3. DOMAIN g = DOMAIN h \union {k} /\ k \notin DOMAIN h
  BY <1>2
<1>4. /\ \A a \in DOMAIN h : g[a] = h[a]
      /\ g[k].parents = <<>> /\ g[k].children = <<>> /\ g[k].pos = q
  BY <1>2 DEF NewNode
<1>5. \A a \in DOMAIN h : h[a].parents \in Seq(DOMAIN h) /\ h[a].children \in Seq(DOMAIN h)
  BY DEF GoodHeap, LinksInside
<1>6. LinksInside(g)
  <2>1. \A a \in DOMAIN h : h[a].parents \in Seq(DOMAIN g) /\ h[a].children \in Seq(DOMAIN g)
    BY <1>3, <1>5, SeqMonotonic
  <2>2. <<>> \in Seq(DOMAIN g) BY EmptySeq
  <2> QED BY <1>3, <1>4, <2>1, <2>2 DEF LinksInside
<1>7. NodesFree(g)
  BY <1>3, <1>4 DEF GoodHeap, NodesFree
<1>8. ASSUME NEW y PROVE Count(<<>>, y) = 0
  BY FS_EmptySet DEF Count
<1>9. \A a \in DOMAIN h : Count(h[a].children, k) = 0 /\ Count(h[a].parents, k) = 0
  <2> SUFFICES ASSUME NEW a \in DOMAIN h
               PROVE Count(h[a].children, k) = 0 /\ Count(h[a].parents, k) = 0
    OBVIOUS
  <2>1. h[a].parents \in Seq(Nat) /\ h[a].children \in Seq(Nat)
    BY <1>1, HeapTypes
  <2>2. k \notin Elements(h[a].parents) /\ k \notin Elements(h[a].children)
    BY <1>3, <1>5, ElementsIn
  <2>3. /\ Count(h[a].children, k) \in Nat /\ ~(Count(h[a].children, k) > 0)
        /\ Count(h[a].parents, k) \in Nat /\ ~(Count(h[a].parents, k) > 0)
    BY <2>1, <2>2, CountElements
  <2> QED BY <2>3
<1>10. LinksAreMoves(m, g)
  <2> SUFFICES ASSUME NEW a \in DOMAIN g, NEW b \in DOMAIN g
               PROVE  /\ Count(g[a].children, b) = Count(g[b].parents, a)
                      /\ Count(g[a].children, b) > 0 => FreeMotion(m, g[a].pos, g[b].pos)
    BY DEF LinksAreMoves
  <2>1. CASE a \in DOMAIN h /\ b \in DOMAIN h
    BY <1>4, <2>1 DEF GoodHeap, LinksAreMoves
  <2>2. CASE a = k \/ b = k
    <3>1. Count(g[a].children, b) = 0 /\ Count(g[b].parents, a) = 0
      BY <1>3, <1>4, <1>8, <1>9, <2>2
    <3> QED BY <3>1
  <2> QED BY <1>3, <2>1, <2>2
<1> QED BY <1>2, <1>3, <1>4, <1>6, <1>7, <1>10 DEF GoodHeap, g, NewNode


\* tryConnection() enters motions only, also where it trusts isReversible().
LEMMA ConnectNearGood ==
    ASSUME NEW m \in Mobility, NEW h, GoodHeap(m, h),
           NEW from \in DOMAIN h, NEW to \in DOMAIN h, NEW S, from \in S, to \in S
    PROVE  GoodHeap(m, ConnectNear(h, m, from, to)) /\ Linked(h, ConnectNear(h, m, from, to), S)
<1> DEFINE there == isReachable(m, h[from].pos, h[to].pos)
           back  == IF Reversible(m) THEN there ELSE isReachable(m, h[to].pos, h[from].pos)
           g     == IF there THEN addEdge(h, from, to) ELSE h
           f     == IF back THEN addEdge(g, to, from) ELSE g
<1>1. ConnectNear(h, m, from, to) = f \/ ConnectNear(h, m, from, to) = h
  BY DEF ConnectNear, tryConnection
<1>2. /\ h[from].pos \in Config /\ h[to].pos \in Config
      /\ h[from].pos \notin Blocked /\ h[to].pos \notin Blocked
  BY HeapTypes DEF GoodHeap, NodesFree
<1>3. there => FreeMotion(m, h[from].pos, h[to].pos)
  BY <1>2, ReachableIsFree
<1>4. back => FreeMotion(m, h[to].pos, h[from].pos)
  <2>1. CASE Reversible(m)
    <3>1. Points(m, h[to].pos, h[from].pos) \subseteq Points(m, h[from].pos, h[to].pos)
      BY <1>2, <2>1, MobilityAssumption
    <3> QED BY <1>3, <2>1, <3>1 DEF FreeMotion
  <2>2. CASE ~Reversible(m)
    BY <1>2, <2>2, ReachableIsFree
  <2> QED BY <2>1, <2>2
<1> HIDE DEF there, back
<1>5. GoodHeap(m, g) /\ Linked(h, g, S)
  BY <1>3, AddEdgeGood, LinkedSelf
<1>6. from \in DOMAIN g /\ to \in DOMAIN g /\ g[from].pos = h[from].pos /\ g[to].pos = h[to].pos
  BY <1>5 DEF Linked
<1> HIDE DEF g
<1>7. GoodHeap(m, f) /\ Linked(g, f, S)
  BY <1>4, <1>5, <1>6, AddEdgeGood, LinkedSelf
<1>8. Linked(h, f, S)
  BY <1>5, <1>7, LinkedTwice
<1> HIDE DEF f
<1> QED BY <1>1, <1>7, <1>8, LinkedSelf

\* Edges within S leave S closed, and every set that S does not meet.
LEMMA LinkedClosed ==
    ASSUME NEW h, NEW g, NEW S, NEW T, Linked(h, g, S), Closed(h, T), T \subseteq DOMAIN h,
           S \subseteq T \/ S \cap T = {}
    PROVE  Closed(g, T)
BY DEF Linked, Closed

LEMMA ConcatTwo ==
    ASSUME NEW S, NEW s \in Seq(S), NEW x \in S, NEW y \in S
    PROVE  s \o <<x, y>> = Append(Append(s, x), y)
<1> DEFINE t == s \o <<x, y>>
           a == Append(s, x)
           u == Append(a, y)
<1>1. /\ Len(s) \in Nat /\ <<x, y>> \in Seq(S) /\ Len(<<x, y>>) = 2
  BY LenProperties
<1>2. /\ t \in Seq(S) /\ Len(t) = Len(s) + 2
      /\ \A i \in 1..(Len(s) + 2) : t[i] = IF i <= Len(s) THEN s[i] ELSE <<x, y>>[i - Len(s)]
  BY <1>1, ConcatProperties
<1>3. /\ a \in Seq(S) /\ Len(a) = Len(s) + 1 /\ a[Len(s) + 1] = x
      /\ \A i \in 1..Len(s) : a[i] = s[i]
  BY <1>1, AppendProperties
<1> HIDE DEF t, a
<1>4. /\ u \in Seq(S) /\ Len(u) = Len(s) + 2 /\ u[Len(s) + 2] = y
      /\ \A i \in 1..(Len(s) + 1) : u[i] = a[i]
  <2>1. /\ u \in Seq(S) /\ Len(u) = Len(a) + 1 /\ u[Len(a) + 1] = y
        /\ \A i \in 1..Len(a) : u[i] = a[i]
    BY <1>3, AppendProperties
  <2> QED BY <1>1, <1>3, <2>1
<1> HIDE DEF u
<1>5. ASSUME NEW i \in 1..Len(t) PROVE t[i] = u[i]
  <2>1. CASE i <= Len(s) BY <1>1, <1>2, <1>3, <1>4, <2>1
  <2>2. CASE i = Len(s) + 1
    <3>1. i \in 1..(Len(s) + 2) /\ ~(i <= Len(s)) /\ i - Len(s) = 1 /\ i \in 1..(Len(s) + 1)
      BY <1>1, <2>2
    <3>2. t[i] = <<x, y>>[i - Len(s)] BY <1>2, <3>1
    <3>3. u[i] = a[i] BY <1>4, <3>1
    <3>4. a[i] = x BY <1>3, <2>2
    <3>5. <<x, y>>[1] = x OBVIOUS
    <3> QED BY <3>1, <3>2, <3>3, <3>4, <3>5
  <2>3. CASE i = Len(s) + 2
    <3>1. i \in 1..(Len(s) + 2) /\ ~(i <= Len(s)) /\ i - Len(s) = 2
      BY <1>1, <2>3
    <3>2. t[i] = <<x, y>>[i - Len(s)] BY <1>2, <3>1
    <3>3. u[i] = y BY <1>4, <2>3
    <3>4. <<x, y>>[2] = y OBVIOUS
    <3> QED BY <3>1, <3>2, <3>3, <3>4
  <2> QED BY <1>1, <1>2, <2>1, <2>2, <2>3
<1>6. t = u
  BY <1>2, <1>4, <1>5, SeqEqual
<1> QED BY <1>6 DEF t, u, a


-----------------------------------------------------------------------------
(* Road maps grow *)

\* Tree t with a node for q.
Added(r, t, q) ==
    [r EXCEPT !.node = Append(@, NewNode(q)), ![t] = Append(@, Len(r.node) + 1)]

LEMMA TreesFields ==
    ASSUME NEW r \in Trees
    PROVE  /\ r.node \in Seq(Node) /\ r.start \in Seq(Nat) /\ r.goal \in Seq(Nat)
           /\ r["start"] = r.start /\ r["goal"] = r.goal
           /\ r = [node |-> r.node, start |-> r.start, goal |-> r.goal]
BY DEF Trees

LEMMA AddedFields ==
    ASSUME NEW r \in Trees, NEW t \in {"start", "goal"}, NEW q \in Config
    PROVE  /\ Added(r, t, q) \in Trees
           /\ Added(r, t, q).node = Append(r.node, NewNode(q))
           /\ Added(r, t, q).start =
                IF t = "start" THEN Append(r.start, Len(r.node) + 1) ELSE r.start
           /\ Added(r, t, q).goal =
                IF t = "goal" THEN Append(r.goal, Len(r.node) + 1) ELSE r.goal
<1>1. Len(r.node) + 1 \in Nat
  BY TreesFields, HeapTypes
<1>2. NewNode(q) \in Node
  <2>1. <<>> \in Seq(Nat) BY EmptySeq
  <2> QED BY <2>1 DEF NewNode, Node
<1>3. Append(r.node, NewNode(q)) \in Seq(Node)
  BY <1>2, TreesFields, AppendProperties
<1>4. /\ Append(r.start, Len(r.node) + 1) \in Seq(Nat)
      /\ Append(r.goal, Len(r.node) + 1) \in Seq(Nat)
  BY <1>1, TreesFields, AppendProperties
<1>5. CASE t = "start"
  <2>1. Added(r, t, q) = [r EXCEPT !.node = Append(r.node, NewNode(q)),
                                   !.start = Append(r.start, Len(r.node) + 1)]
    BY <1>5, TreesFields DEF Added, Trees
  <2> QED BY <2>1, <1>3, <1>4, <1>5 DEF Trees
<1>6. CASE t = "goal"
  <2>1. Added(r, t, q) = [r EXCEPT !.node = Append(r.node, NewNode(q)),
                                   !.goal = Append(r.goal, Len(r.node) + 1)]
    BY <1>6, TreesFields DEF Added, Trees
  <2> QED BY <2>1, <1>3, <1>4, <1>6 DEF Trees
<1> QED BY <1>5, <1>6


LEMMA EmptyMapOK ==
    ASSUME NEW m PROVE MapOK(m, NoRoadmap)
<1>1. <<>> \in Seq(Node) /\ <<>> \in Seq(Nat) BY EmptySeq
<1>2. NoRoadmap \in Trees BY <1>1 DEF NoRoadmap, Trees
<1>3. Elements(<<>>) = {} BY DEF Elements
<1>4. GoodHeap(m, <<>>)
  BY <1>1 DEF GoodHeap, LinksInside, NodesFree, LinksAreMoves
<1> QED BY <1>2, <1>3, <1>4 DEF MapOK, NoRoadmap, Closed

LEMMA AddedOK ==
    ASSUME NEW m \in Mobility, NEW r, MapOK(m, r), NEW t \in {"start", "goal"},
           NEW q \in Config \ Blocked
    PROVE  MapOK(m, Added(r, t, q))
<1> DEFINE g == Append(r.node, NewNode(q))
           k == Len(r.node) + 1
           A == Added(r, t, q)
<1>1. /\ r \in Trees /\ GoodHeap(m, r.node) /\ r.start \in Seq(Nat) /\ r.goal \in Seq(Nat)
      /\ r.node \in Seq(Node)
  BY TreesFields DEF MapOK
<1>2. /\ GoodHeap(m, g) /\ DOMAIN g = DOMAIN r.node \union {k} /\ k \notin DOMAIN r.node
      /\ \A a \in DOMAIN r.node : g[a] = r.node[a]
      /\ g[k] = NewNode(q)
  BY <1>1, AppendGood
<1>3. k \in Nat BY <1>1, HeapTypes
<1>4. /\ A \in Trees /\ A.node = g
      /\ A.start = IF t = "start" THEN Append(r.start, k) ELSE r.start
      /\ A.goal = IF t = "goal" THEN Append(r.goal, k) ELSE r.goal
  BY <1>1, AddedFields
<1> HIDE DEF g, A
<1>5. /\ Elements(Append(r.start, k)) = Elements(r.start) \union {k}
      /\ Elements(Append(r.goal, k)) = Elements(r.goal) \union {k}
  BY ZenonT(40), <1>1, <1>3, ElementsAppend
<1>6. g[k].parents = <<>> /\ g[k].children = <<>> /\ Elements(<<>>) = {}
  BY <1>2 DEF NewNode, Elements
<1>7. ASSUME NEW T, T \subseteq DOMAIN r.node, Closed(r.node, T)
      PROVE  Closed(g, T) /\ Closed(g, T \union {k})
  BY <1>2, <1>6, <1>7 DEF Closed
<1>8. /\ Elements(r.start) \subseteq DOMAIN r.node /\ Elements(r.goal) \subseteq DOMAIN r.node
      /\ Elements(r.start) \cap Elements(r.goal) = {}
      /\ Closed(r.node, Elements(r.start)) /\ Closed(r.node, Elements(r.goal))
  BY DEF MapOK
<1>9. ASSUME t = "start" PROVE MapOK(m, A)
  BY <1>2, <1>4, <1>5, <1>7, <1>8, <1>9 DEF MapOK
<1>10. ASSUME t = "goal" PROVE MapOK(m, A)
  BY <1>2, <1>4, <1>5, <1>7, <1>8, <1>10 DEF MapOK
<1> QED BY <1>9, <1>10 DEF A

\* Edges within one of the trees.
LEMMA RelinkedOK ==
    ASSUME NEW m \in Mobility, NEW r, MapOK(m, r), NEW t \in {"start", "goal"}, NEW g,
           GoodHeap(m, g), NEW S, Linked(r.node, g, S), S \subseteq Elements(r[t])
    PROVE  MapOK(m, [r EXCEPT !.node = g])
<1> DEFINE A == [r EXCEPT !.node = g]
<1>1. r \in Trees /\ g \in Seq(Node) /\ r["start"] = r.start /\ r["goal"] = r.goal
  BY TreesFields DEF MapOK, GoodHeap
<1>2. A \in Trees /\ A.node = g /\ A.start = r.start /\ A.goal = r.goal
  BY <1>1 DEF Trees
<1> HIDE DEF A
<1>3. /\ Elements(r.start) \subseteq DOMAIN r.node /\ Elements(r.goal) \subseteq DOMAIN r.node
      /\ Elements(r.start) \cap Elements(r.goal) = {}
      /\ Closed(r.node, Elements(r.start)) /\ Closed(r.node, Elements(r.goal))
  BY DEF MapOK
<1>4. S \subseteq Elements(r.start) \/ S \subseteq Elements(r.goal)
  BY <1>1
<1>5. Closed(g, Elements(r.start)) /\ Closed(g, Elements(r.goal))
  BY <1>3, <1>4, LinkedClosed
<1>6. DOMAIN g = DOMAIN r.node BY DEF Linked
<1> QED BY <1>2, <1>3, <1>5, <1>6 DEF MapOK, A

\* integrate() hands every node over, none is left between the trees.
LEMMA IntegratedOK ==
    ASSUME NEW m, NEW r, MapOK(m, r)
    PROVE  MapOK(m, Integrated(r)) /\ Integrated(r).node = r.node /\ Integrated(r).goal = <<>>
<1> DEFINE A == Integrated(r)
<1>1. r \in Trees /\ r.start \in Seq(Nat) /\ r.goal \in Seq(Nat) /\ <<>> \in Seq(Nat)
  BY TreesFields, EmptySeq DEF MapOK
<1>2. r.start \o r.goal \in Seq(Nat)
      /\ Elements(r.start \o r.goal) = Elements(r.start) \union Elements(r.goal)
  BY <1>1, ElementsConcat
<1>3. /\ A \in Trees /\ A.node = r.node /\ A.goal = <<>> /\ A.start = r.start \o r.goal
  BY <1>1, <1>2 DEF Integrated, Trees
<1> HIDE DEF A
<1>4. Elements(<<>>) = {} BY DEF Elements
<1> QED BY <1>2, <1>3, <1>4 DEF MapOK, Closed, A

\* PlantTrees and the joining of the two ends add two nodes each.
LEMMA PlantTreesOK ==
    ASSUME NEW m \in Mobility, NEW r, MapOK(m, r), start \in Config \ Blocked,
           goal \in Config \ Blocked
    PROVE  /\ PlantTrees(r) = Added(Added(r, "start", start), "goal", goal)
           /\ MapOK(m, PlantTrees(r))
           /\ PlantTrees(r).start # <<>> /\ PlantTrees(r).goal # <<>>
<1> DEFINE A == Added(r, "start", start)
           B == Added(A, "goal", goal)
           k == Len(r.node)
<1>1. r \in Trees /\ r.node \in Seq(Node) /\ r.start \in Seq(Nat) /\ r.goal \in Seq(Nat) /\ k \in Nat
  BY TreesFields, HeapTypes DEF MapOK
<1>2. NewNode(start) \in Node /\ NewNode(goal) \in Node
  <2>1. <<>> \in Seq(Nat) BY EmptySeq
  <2> QED BY <2>1 DEF NewNode, Node
<1>3. /\ A \in Trees /\ A.node = Append(r.node, NewNode(start)) /\ A.start = Append(r.start, k + 1)
      /\ A.goal = r.goal
  BY <1>1, AddedFields
<1>4. Len(A.node) + 1 = k + 2
  BY <1>1, <1>2, <1>3, AppendProperties
<1> HIDE DEF A
<1>5. /\ B \in Trees /\ B.node = Append(A.node, NewNode(goal)) /\ B.start = A.start
      /\ B.goal = Append(r.goal, k + 2)
  <2>1. /\ B \in Trees /\ B.node = Append(A.node, NewNode(goal)) /\ B.start = A.start
        /\ B.goal = Append(A.goal, Len(A.node) + 1)
    BY <1>3, AddedFields
  <2> QED BY <2>1, <1>3, <1>4
<1> HIDE DEF B
<1>6. r.node \o <<NewNode(start), NewNode(goal)>> = B.node
  <2>1. r.node \o <<NewNode(start), NewNode(goal)>>
            = Append(Append(r.node, NewNode(start)), NewNode(goal))
    BY <1>1, <1>2, ConcatTwo
  <2> QED BY <2>1, <1>3, <1>5
<1>7. PlantTrees(r) = [node |-> B.node, start |-> B.start, goal |-> B.goal]
  BY <1>3, <1>5, <1>6 DEF PlantTrees
<1>8. PlantTrees(r) = B
  BY <1>5, <1>7, TreesFields
<1>9. MapOK(m, A) BY AddedOK DEF A
<1>10. MapOK(m, B) BY <1>9, AddedOK DEF B
<1>11. Append(r.start, k + 1) # <<>> /\ Append(r.goal, k + 2) # <<>>
  BY <1>1, AppendProperties
<1> QED BY <1>3, <1>5, <1>8, <1>10, <1>11 DEF A, B


LEMMA JoinedOK ==
    ASSUME NEW m \in Mobility, NEW r, MapOK(m, r), start \in Config \ Blocked,
           goal \in Config \ Blocked,
           NEW A, A = [r EXCEPT !.node = @ \o <<NewNode(start), NewNode(goal)>>,
                                !.start = @ \o <<Len(r.node) + 1, Len(r.node) + 2>>]
    PROVE  /\ MapOK(m, A) /\ A.goal = r.goal /\ Len(A.node) = Len(r.node) + 2
           /\ Len(A.start) = Len(r.start) + 2
           /\ {Len(A.node) - 1, Len(A.node)} \subseteq Elements(A.start)
           /\ A.node[Len(A.node) - 1].pos = start /\ A.node[Len(A.node)].pos = goal
<1> DEFINE k == Len(r.node)
           B == Added(r, "start", start)
           D == Added(B, "start", goal)
<1>1. r \in Trees /\ r.node \in Seq(Node) /\ r.start \in Seq(Nat) /\ r.goal \in Seq(Nat) /\ k \in Nat
  BY TreesFields, HeapTypes DEF MapOK
<1>2. NewNode(start) \in Node /\ NewNode(goal) \in Node
  <2>1. <<>> \in Seq(Nat) BY EmptySeq
  <2> QED BY <2>1 DEF NewNode, Node
<1>3. /\ B \in Trees /\ B.node = Append(r.node, NewNode(start)) /\ B.start = Append(r.start, k + 1)
      /\ B.goal = r.goal
  BY <1>1, AddedFields
<1>4. Len(B.node) + 1 = k + 2
  BY <1>1, <1>2, <1>3, AppendProperties
<1> HIDE DEF B
<1>5. /\ D \in Trees /\ D.node = Append(B.node, NewNode(goal)) /\ D.goal = r.goal
      /\ D.start = Append(B.start, k + 2)
  <2>1. /\ D \in Trees /\ D.node = Append(B.node, NewNode(goal)) /\ D.goal = B.goal
        /\ D.start = Append(B.start, Len(B.node) + 1)
    BY <1>3, AddedFields
  <2> QED BY <2>1, <1>3, <1>4
<1>6. MapOK(m, D)
  <2>1. MapOK(m, B) BY AddedOK DEF B
  <2> QED BY <2>1, AddedOK
<1> HIDE DEF D
<1>7. r.node \o <<NewNode(start), NewNode(goal)>> = D.node
  <2>1. r.node \o <<NewNode(start), NewNode(goal)>>
            = Append(Append(r.node, NewNode(start)), NewNode(goal))
    BY <1>1, <1>2, ConcatTwo
  <2> QED BY <2>1, <1>3, <1>5
<1>8. r.start \o <<k + 1, k + 2>> = D.start
  <2>1. k + 1 \in Nat /\ k + 2 \in Nat BY <1>1
  <2>2. r.start \o <<k + 1, k + 2>> = Append(Append(r.start, k + 1), k + 2)
    BY SMTT(20), <1>1, <2>1, ConcatTwo
  <2> QED BY <2>2, <1>3, <1>5
<1>9. A = D
  <2>1. A = [r EXCEPT !.node = D.node, !.start = D.start]
    BY <1>7, <1>8
  <2>2. A \in Trees /\ A.node = D.node /\ A.start = D.start /\ A.goal = r.goal
    BY <2>1, <1>1, <1>5, TreesFields DEF Trees
  <2> QED BY <2>2, <1>5, TreesFields
<1>10. /\ Len(D.node) = k + 2 /\ D.node[k + 2] = NewNode(goal) /\ D.node[k + 1] = NewNode(start)
  <2>1. /\ B.node \in Seq(Node) /\ Len(B.node) = k + 1 /\ B.node[k + 1] = NewNode(start)
    BY <1>1, <1>2, <1>3, AppendProperties
  <2>2. /\ Len(D.node) = Len(B.node) + 1 /\ D.node[Len(B.node) + 1] = NewNode(goal)
        /\ \A i \in 1..Len(B.node) : D.node[i] = B.node[i]
    BY <1>2, <1>5, <2>1, AppendProperties
  <2>3. k + 1 \in 1..Len(B.node) /\ Len(B.node) + 1 = k + 2 BY <2>1, <1>1
  <2> QED BY <2>1, <2>2, <2>3
<1>11. Len(D.start) = Len(r.start) + 2 /\ {k + 1, k + 2} \subseteq Elements(D.start)
  <2>1. k + 1 \in Nat /\ k + 2 \in Nat BY <1>1
  <2>2. /\ B.start \in Seq(Nat) /\ Len(B.start) = Len(r.start) + 1 /\ Len(r.start) \in Nat
        /\ Elements(B.start) = Elements(r.start) \union {k + 1}
    BY <1>1, <1>3, <2>1, ElementsAppend, AppendProperties, LenProperties
  <2>3. /\ Len(Append(B.start, k + 2)) = Len(B.start) + 1
        /\ Elements(Append(B.start, k + 2)) = Elements(B.start) \union {k + 2}
    <3>1. \A y \in Nat : /\ Len(Append(B.start, y)) = Len(B.start) + 1
                         /\ Elements(Append(B.start, y)) = Elements(B.start) \union {y}
      <4> TAKE y \in Nat
      <4>1. Len(Append(B.start, y)) = Len(B.start) + 1 BY <2>2, AppendProperties
      <4>2. Elements(Append(B.start, y)) = Elements(B.start) \union {y} BY <2>2, ElementsAppend
      <4> QED BY <4>1, <4>2
    <3> QED BY <2>1, <3>1
  <2> QED BY <1>5, <2>2, <2>3
<1>12. (k + 2) - 1 = k + 1 BY <1>1
<1>13. NewNode(start).pos = start /\ NewNode(goal).pos = goal BY DEF NewNode
<1> QED BY <1>5, <1>6, <1>9, <1>10, <1>11, <1>12, <1>13

LEMMA SteerType ==
    ASSUME mob \in Mobility, NEW p \in Config, NEW q \in Config
    PROVE  Steer(p, q) \in Config
BY PlannerAssumption DEF Steer

\* What extend() does to the road map: nothing, or a node k that hangs on tree t.
Grown(r, t, k) ==
    /\ MapOK(mob, r)
    /\ r.start = IF t = "start" THEN Append(rm.start, k) ELSE rm.start
    /\ r.goal = IF t = "goal" THEN Append(rm.goal, k) ELSE rm.goal
    /\ k \in Nat /\ k \notin DOMAIN rm.node /\ DOMAIN r.node = DOMAIN rm.node \union {k}
    /\ t = "start" => r.node[k].parents # <<>>
    /\ t = "goal" => r.node[k].children # <<>>
    /\ \A a \in DOMAIN rm.node :
         /\ r.node[a].pos = rm.node[a].pos
         /\ r.node[a].parents = <<>> => rm.node[a].parents = <<>>
         /\ r.node[a].children = <<>> => rm.node[a].children = <<>>

\* A tree extended by a node under near: what its nodes are, and that it is good.
LEMMA ExtendedOK ==
    ASSUME mob \in Mobility, MapOK(mob, rm), NEW t \in {"start", "goal"}, NEW q \in Config,
           NEW near \in Elements(rm[t]), NEW x, x = Steer(rm.node[near].pos, q),
           x \notin Blocked, Moves(rm.node[near].pos, x, t = "goal"),
           NEW k, k = Len(rm.node) + 1, NEW A, A = Extended(t, near, q)
    PROVE  Grown(A, t, k) /\ A.node[k].pos = x
<1> DEFINE B == Added(rm, t, x)
           g == IF t = "goal" THEN addEdge(B.node, k, near) ELSE addEdge(B.node, near, k)
<1>1. /\ rm \in Trees /\ GoodHeap(mob, rm.node) /\ rm.node \in Seq(Node)
      /\ rm.start \in Seq(Nat) /\ rm.goal \in Seq(Nat)
      /\ rm["start"] = rm.start /\ rm["goal"] = rm.goal
  BY TreesFields DEF MapOK
<1>2. near \in DOMAIN rm.node
  BY <1>1 DEF MapOK
<1>3. rm.node[near].pos \in Config /\ rm.node[near].pos \notin Blocked
  BY <1>1, <1>2, HeapTypes DEF GoodHeap, NodesFree
<1>4. x \in Config BY <1>3, SteerType
<1>5. /\ B \in Trees /\ B.node = Append(rm.node, NewNode(x))
      /\ B.start = IF t = "start" THEN Append(rm.start, k) ELSE rm.start
      /\ B.goal = IF t = "goal" THEN Append(rm.goal, k) ELSE rm.goal
  BY ZenonT(40), <1>1, <1>4, AddedFields
<1>6. MapOK(mob, B)
  BY <1>4, AddedOK
<1> HIDE DEF B
<1>7. /\ GoodHeap(mob, B.node) /\ DOMAIN B.node = DOMAIN rm.node \union {k}
      /\ k \notin DOMAIN rm.node /\ B.node[k] = NewNode(x)
      /\ \A a \in DOMAIN rm.node : B.node[a] = rm.node[a]
  BY <1>1, <1>4, <1>5, AppendGood
<1>8. k \in Nat BY <1>1, HeapTypes
<1>9. B.node[near].pos = rm.node[near].pos /\ B.node[k].pos = x
  BY <1>2, <1>7 DEF NewNode
<1>10. /\ t = "start" => FreeMotion(mob, B.node[near].pos, B.node[k].pos)
       /\ t = "goal" => FreeMotion(mob, B.node[k].pos, B.node[near].pos)
  BY <1>3, <1>4, <1>9, ReachableIsFree DEF Moves
<1>11. GoodHeap(mob, g) /\ Linked(B.node, g, {near, k})
  BY <1>2, <1>7, <1>10, AddEdgeGood
<1>12. A = [B EXCEPT !.node = g]
  <2>1. /\ rm \in Trees /\ B = [rm EXCEPT !.node = Append(@, NewNode(x)), ![t] = Append(@, Len(rm.node) + 1)]
    BY <1>1 DEF B, Added
  <2>2. A = [rm EXCEPT !.node = g, ![t] = Append(@, k)]
    BY <1>5 DEF Extended
  <2>3. CASE t = "start"
    <3>1. A = [rm EXCEPT !.node = g, !.start = Append(rm.start, k)]
      BY <2>2, <2>3, <1>1 DEF Trees
    <3>2. B = [rm EXCEPT !.node = Append(rm.node, NewNode(x)), !.start = Append(rm.start, k)]
      BY <2>1, <2>3, <1>1 DEF Trees
    <3> HIDE DEF g
    <3> QED BY <3>1, <3>2, <1>1 DEF Trees
  <2>4. CASE t = "goal"
    <3>1. A = [rm EXCEPT !.node = g, !.goal = Append(rm.goal, k)]
      BY <2>2, <2>4, <1>1 DEF Trees
    <3>2. B = [rm EXCEPT !.node = Append(rm.node, NewNode(x)), !.goal = Append(rm.goal, k)]
      BY <2>1, <2>4, <1>1 DEF Trees
    <3> HIDE DEF g
    <3> QED BY <3>1, <3>2, <1>1 DEF Trees
  <2> QED BY <2>3, <2>4
<1>13. {near, k} \subseteq Elements(B[t])
  <2>1. CASE t = "start"
    <3>1. Elements(Append(rm.start, k)) = Elements(rm.start) \union {k}
      BY <1>1, <1>8, ElementsAppend
    <3> QED BY <3>1, <2>1, <1>1, <1>5, TreesFields
  <2>2. CASE t = "goal"
    <3>1. Elements(Append(rm.goal, k)) = Elements(rm.goal) \union {k}
      BY <1>1, <1>8, ElementsAppend
    <3> QED BY <3>1, <2>2, <1>1, <1>5, TreesFields
  <2> QED BY <2>1, <2>2
<1>14. MapOK(mob, A)
  <2> HIDE DEF g
  <2>1. MapOK(mob, [B EXCEPT !.node = g])
    BY <1>6, <1>11, <1>13, RelinkedOK
  <2> QED BY <2>1, <1>12
<1>15. A.node = g /\ A.start = B.start /\ A.goal = B.goal
  <2> HIDE DEF g
  <2> QED BY <1>5, <1>12 DEF Trees
<1>16. B.node \in Seq(Node) /\ near \in DOMAIN B.node /\ k \in DOMAIN B.node
  BY <1>2, <1>7 DEF GoodHeap
<1>17. ASSUME t = "start"
       PROVE  /\ DOMAIN g = DOMAIN B.node
              /\ \A a \in DOMAIN B.node :
                    /\ g[a].pos = B.node[a].pos
                    /\ g[a].parents = <<>> => B.node[a].parents = <<>>
                    /\ g[a].children = <<>> => B.node[a].children = <<>>
              /\ g[k].parents # <<>>
  <2>1. g = addEdge(B.node, near, k) BY <1>17
  <2> HIDE DEF g
  <2> DEFINE h == B.node
  <2>2. h \in Seq(Node) /\ near \in DOMAIN h /\ k \in DOMAIN h BY <1>16
  <2>3. g = addEdge(h, near, k) BY <2>1
  <2>4. EdgeEntered(h, addEdge(h, near, k), near, k) BY <2>2, AddEdgeKeeps
  <2>5. EdgeEntered(h, g, near, k) BY <2>3, <2>4
  <2> QED BY <2>5 DEF EdgeEntered
<1>18. ASSUME t = "goal"
       PROVE  /\ DOMAIN g = DOMAIN B.node
              /\ \A a \in DOMAIN B.node :
                    /\ g[a].pos = B.node[a].pos
                    /\ g[a].parents = <<>> => B.node[a].parents = <<>>
                    /\ g[a].children = <<>> => B.node[a].children = <<>>
              /\ g[k].children # <<>>
  <2>1. g = addEdge(B.node, k, near) BY <1>18
  <2> HIDE DEF g
  <2> DEFINE h == B.node
  <2>2. h \in Seq(Node) /\ near \in DOMAIN h /\ k \in DOMAIN h BY <1>16
  <2>3. g = addEdge(h, k, near) BY <2>1
  <2>4. EdgeEntered(h, addEdge(h, k, near), k, near) BY <2>2, AddEdgeKeeps
  <2>5. EdgeEntered(h, g, k, near) BY <2>3, <2>4
  <2> QED BY <2>5 DEF EdgeEntered
<1> HIDE DEF g
<1>20. /\ DOMAIN g = DOMAIN B.node
       /\ \A a \in DOMAIN rm.node :
            /\ g[a].pos = rm.node[a].pos
            /\ g[a].parents = <<>> => rm.node[a].parents = <<>>
            /\ g[a].children = <<>> => rm.node[a].children = <<>>
       /\ g[k].pos = x
  BY <1>7, <1>9, <1>16, <1>17, <1>18
<1> QED BY <1>5, <1>7, <1>8, <1>14, <1>15, <1>17, <1>18, <1>20 DEF Grown


-----------------------------------------------------------------------------
(* Paths get shorter and longer *)

LEMMA SubSeqParts ==
    ASSUME NEW S, NEW p \in Seq(S), NEW k \in 0..Len(p)
    PROVE  /\ SubSeq(p, 1, k) \in Seq(S) /\ Len(SubSeq(p, 1, k)) = k
           /\ \A l \in 1..k : SubSeq(p, 1, k)[l] = p[l]
           /\ SubSeq(p, k + 1, Len(p)) \in Seq(S) /\ Len(SubSeq(p, k + 1, Len(p))) = Len(p) - k
           /\ \A l \in 1..(Len(p) - k) : SubSeq(p, k + 1, Len(p))[l] = p[k + l]
<1>1. Len(p) \in Nat /\ k \in Nat /\ k <= Len(p) /\ \A i \in 1..Len(p) : p[i] \in S
  BY LenProperties, ElementOfSeq
<1>2. \A i \in 1..k : p[i] \in S BY <1>1
<1>3. \A i \in (k + 1)..Len(p) : p[i] \in S BY <1>1
<1> DEFINE s == SubSeq(p, 1, k)
           u == SubSeq(p, k + 1, Len(p))
<1>4. /\ s \in Seq(S) /\ Len(s) = (IF 1 <= k THEN k - 1 + 1 ELSE 0)
      /\ \A l \in 1..(k - 1 + 1) : s[l] = p[1 + l - 1]
  BY <1>1, <1>2, SubSeqProperties
<1>5. /\ u \in Seq(S)
      /\ Len(u) = (IF k + 1 <= Len(p) THEN Len(p) - (k + 1) + 1 ELSE 0)
      /\ \A l \in 1..(Len(p) - (k + 1) + 1) : u[l] = p[(k + 1) + l - 1]
  <2>1. k + 1 \in Int /\ Len(p) \in Int BY <1>1
  <2> QED BY <2>1, <1>3, SubSeqProperties
<1> HIDE DEF s, u
<1>6. Len(s) = k /\ Len(u) = Len(p) - k
  BY <1>1, <1>4, <1>5
<1>7. ASSUME NEW l \in 1..k PROVE s[l] = p[l]
  <2>1. l \in 1..(k - 1 + 1) /\ 1 + l - 1 = l BY <1>1
  <2> QED BY <2>1, <1>4
<1>8. ASSUME NEW l \in 1..(Len(p) - k) PROVE u[l] = p[k + l]
  <2>1. l \in 1..(Len(p) - (k + 1) + 1) /\ (k + 1) + l - 1 = k + l BY <1>1
  <2> QED BY <2>1, <1>5
<1> QED BY <1>4, <1>5, <1>6, <1>7, <1>8 DEF s, u

LEMMA ConcatParts ==
    ASSUME NEW S, NEW s \in Seq(S), NEW u \in Seq(S)
    PROVE  /\ s \o u \in Seq(S) /\ Len(s \o u) = Len(s) + Len(u)
           /\ Len(s) \in Nat /\ Len(u) \in Nat
           /\ \A i \in 1..Len(s) : (s \o u)[i] = s[i]
           /\ \A i \in 1..Len(u) : (s \o u)[Len(s) + i] = u[i]
<1> DEFINE t == s \o u
<1>1. /\ t \in Seq(S) /\ Len(t) = Len(s) + Len(u) /\ Len(s) \in Nat /\ Len(u) \in Nat
      /\ \A i \in 1..(Len(s) + Len(u)) : t[i] = IF i <= Len(s) THEN s[i] ELSE u[i - Len(s)]
  BY ConcatProperties, LenProperties
<1> HIDE DEF t
<1>2. ASSUME NEW i \in 1..Len(u) PROVE t[Len(s) + i] = u[i]
  <2>1. /\ Len(s) + i \in 1..(Len(s) + Len(u)) /\ ~(Len(s) + i <= Len(s))
        /\ (Len(s) + i) - Len(s) = i
    BY <1>1
  <2> QED BY <2>1, <1>1
<1>3. \A i \in 1..Len(s) : t[i] = s[i]
  BY <1>1
<1> QED BY <1>1, <1>2, <1>3 DEF t

LEMMA EraseType ==
    ASSUME NEW p \in Seq(Config), NEW i \in 2..(Len(p) - 1)
    PROVE  /\ Erase(p, i) \in Seq(Config) /\ Len(Erase(p, i)) = Len(p) - 1
           /\ \A k \in 1..(i - 1) : Erase(p, i)[k] = p[k]
           /\ \A k \in i..(Len(p) - 1) : Erase(p, i)[k] = p[k + 1]
<1> DEFINE s == SubSeq(p, 1, i - 1)
           u == SubSeq(p, i + 1, Len(p))
<1>1. Len(p) \in Nat /\ i \in Nat /\ i >= 2 /\ i + 1 <= Len(p)
      /\ i - 1 \in 0..Len(p) /\ i \in 0..Len(p)
  BY LenProperties
<1>2. s \in Seq(Config) /\ Len(s) = i - 1 /\ \A l \in 1..(i - 1) : s[l] = p[l]
  BY <1>1, SubSeqParts
<1>3. u \in Seq(Config) /\ Len(u) = Len(p) - i /\ \A l \in 1..(Len(p) - i) : u[l] = p[i + l]
  BY <1>1, SubSeqParts
<1> DEFINE t == s \o u
<1>4. Erase(p, i) = t BY DEF Erase
<1> HIDE DEF s, u
<1>5. /\ t \in Seq(Config) /\ Len(t) = Len(s) + Len(u)
      /\ \A l \in 1..Len(s) : t[l] = s[l]
      /\ \A l \in 1..Len(u) : t[Len(s) + l] = u[l]
  <2>1. s \in Seq(Config) /\ u \in Seq(Config) BY <1>2, <1>3
  <2> QED BY <2>1, ConcatParts
<1> HIDE DEF t
<1>6. ASSUME NEW k \in i..(Len(p) - 1) PROVE t[k] = p[k + 1]
  <2>1. k - (i - 1) \in 1..(Len(p) - i) /\ (i - 1) + (k - (i - 1)) = k
        /\ i + (k - (i - 1)) = k + 1
    BY <1>1
  <2>2. t[(i - 1) + (k - (i - 1))] = u[k - (i - 1)] BY <2>1, <1>2, <1>3, <1>5
  <2> QED BY <2>1, <2>2, <1>3
<1>7. Len(t) = Len(p) - 1 BY <1>1, <1>2, <1>3, <1>5
<1>8. ASSUME NEW k \in 1..(i - 1) PROVE t[k] = p[k]
  <2>1. k \in 1..Len(s) BY <1>2
  <2>2. t[k] = s[k] BY <1>5, <2>1
  <2> QED BY <1>2, <2>2
<1> QED BY <1>4, <1>5, <1>6, <1>7, <1>8

\* A random shortcut replaces the points between the i-th and the k + 1-st.
Joined(p, i, k, a, b) == SubSeq(p, 1, i) \o <<a, b>> \o SubSeq(p, k + 1, Len(p))

HasShortcut(p, i, k, a, b, t) ==
    /\ t \in Seq(Config) /\ Len(t) = i + 2 + (Len(p) - k)
    /\ \A l \in 1..i : t[l] = p[l]
    /\ t[i + 1] = a /\ t[i + 2] = b
    /\ \A l \in 1..(Len(p) - k) : t[(i + 2) + l] = p[k + l]

LEMMA RandomShortcutType ==
    ASSUME NEW p \in Seq(Config), NEW i \in Nat, NEW k \in Nat, i >= 1, i < k, k < Len(p),
           NEW a \in Config, NEW b \in Config
    PROVE  HasShortcut(p, i, k, a, b, Joined(p, i, k, a, b))
<1> DEFINE s == SubSeq(p, 1, i)
           v == <<a, b>>
           u == SubSeq(p, k + 1, Len(p))
           w == s \o v
           t == w \o u
<1>1. Len(p) \in Nat /\ v \in Seq(Config) /\ Len(v) = 2 /\ v[1] = a /\ v[2] = b
      /\ i \in 0..Len(p) /\ k \in 0..Len(p)
  BY LenProperties
<1>2. s \in Seq(Config) /\ Len(s) = i /\ \A l \in 1..i : s[l] = p[l]
  BY <1>1, SubSeqParts
<1>3. u \in Seq(Config) /\ Len(u) = Len(p) - k /\ \A l \in 1..(Len(p) - k) : u[l] = p[k + l]
  BY <1>1, SubSeqParts
<1> HIDE DEF s, u, v
<1>4. /\ w \in Seq(Config) /\ Len(w) = Len(s) + Len(v)
      /\ Len(s) \in Nat /\ Len(v) \in Nat
      /\ \A l \in 1..Len(s) : w[l] = s[l]
      /\ \A l \in 1..Len(v) : w[Len(s) + l] = v[l]
  <2>1. s \in Seq(Config) /\ v \in Seq(Config) BY <1>1, <1>2
  <2> QED BY <2>1, ConcatParts
<1>5. Joined(p, i, k, a, b) = t BY DEF s, u, v, Joined
<1> HIDE DEF w
<1>6. Len(w) = i + 2 /\ (\A l \in 1..i : w[l] = p[l]) /\ w[i + 1] = a /\ w[i + 2] = b
  BY <1>1, <1>2, <1>4
<1>7. /\ t \in Seq(Config) /\ Len(t) = Len(w) + Len(u)
      /\ \A l \in 1..Len(w) : t[l] = w[l]
      /\ \A l \in 1..Len(u) : t[Len(w) + l] = u[l]
  <2>1. w \in Seq(Config) /\ u \in Seq(Config) BY <1>3, <1>4
  <2> QED BY <2>1, ConcatParts
<1> HIDE DEF t
<1>8. \A l \in 1..i : t[l] = p[l] BY <1>6, <1>7
<1>9. t[i + 1] = a /\ t[i + 2] = b BY <1>6, <1>7
<1>10. \A l \in 1..(Len(p) - k) : t[(i + 2) + l] = p[k + l] BY <1>3, <1>6, <1>7
<1>11. Len(t) = i + 2 + (Len(p) - k) BY <1>3, <1>6, <1>7
<1> QED BY <1>5, <1>7, <1>8, <1>9, <1>10, <1>11 DEF HasShortcut

-----------------------------------------------------------------------------
(* The invariant of the road maps is one *)

LEMMA MapInitial == Init => MapInv
<1> SUFFICES ASSUME Init PROVE MapInv
  OBVIOUS
<1>1. \E r \in Request : start = r[1] /\ goal = r[2]
  BY DEF Init
<1>2. <<start, goal>> \in Request /\ start \in Config /\ goal \in Config
  BY <1>1, PlannerAssumption
<1>3. MapOK(mob, rm)
  BY EmptyMapOK DEF Init
<1>4. <<>> \in Seq(Config) /\ <<>> \in Seq(DOMAIN rm.node)
  BY EmptySeq
<1>5. Typed
  <2>1. calcs \in 0..MaxCalcs BY PlannerAssumption DEF Init
  <2>2. pc = "idle" /\ path = <<>> /\ found = <<>> /\ stack = <<>> /\ seen = {}
        /\ n = 0 /\ j = 0 /\ alg = "none" /\ mob = "none" /\ running = FALSE
        /\ cancelled = FALSE /\ swapped = FALSE /\ ok = FALSE
    BY DEF Init
  <2> QED BY <1>2, <1>4, <2>1, <2>2 DEF Typed
<1>6. rm.goal = <<>>
  BY DEF Init, NoRoadmap
<1> QED
  BY <1>3, <1>5, <1>6 DEF Init, MapInv, NamesOK, ListsOK, LoopsOK, EndsFree, EndsJoined,
     PRMWork, RRTWork, Working

\* Once calls overlap, there are no data to say anything of.
LEMMA OverlapMap ==
    ASSUME NEW others, NEW at, Overlaps(others, at),
           alg' \in Algorithm, mob' \in Mobility, calcs' \in 0..MaxCalcs,
           <<start', goal'>> \in Request, start' \in Config, goal' \in Config,
           running' \in BOOLEAN, cancelled' \in BOOLEAN
    PROVE  MapInv'
<1> USE DEF PRMWork, RRTWork, Working
<1>1. /\ pc' = "raced" /\ rm' = NoRoadmap /\ path' = <<>> /\ swapped' = FALSE /\ ok' = FALSE
      /\ n' = 0 /\ j' = 0 /\ found' = <<>> /\ stack' = <<>> /\ seen' = {}
  BY DEF Overlaps
<1>2. MapOK(mob, rm)'
  BY <1>1, EmptyMapOK
<1>3. NoRoadmap.goal = <<>> /\ <<>> \in Seq(Config) /\ <<>> \in Seq(DOMAIN rm'.node)
  BY EmptySeq DEF NoRoadmap
<1>4. Typed'
  BY <1>1, <1>3 DEF Typed
<1>5. alg' # "none"
  BY PlannerAssumption
<1> QED
  BY <1>1, <1>2, <1>3, <1>4, <1>5
     DEF MapInv, NamesOK, ListsOK, LoopsOK, EndsFree, EndsJoined

\* What the client does between and during the plannings.
LEMMA ClientMap == MapInv /\ Client => MapInv'
<1> SUFFICES ASSUME MapInv, Client PROVE MapInv'
  OBVIOUS
<1> USE DEF request, flags, walk, locals, PRMWork, RRTWork, Working
<1>1. /\ Typed /\ NamesOK /\ ListsOK /\ LoopsOK /\ EndsFree /\ EndsJoined /\ MapOK(mob, rm)
      /\ calcs \in Nat /\ MaxCalcs \in Nat
  BY PlannerAssumption DEF MapInv, Typed
<1>2. ASSUME NEW r \in Request
      PROVE  <<r[1], r[2]>> \in Request /\ r[1] \in Config /\ r[2] \in Config
  BY PlannerAssumption
<1>3. NoRoadmap.goal = <<>> /\ NoRoadmap.node = <<>> /\ <<>> \in Seq(DOMAIN <<>>)
  BY EmptySeq DEF NoRoadmap
<1>0. (ClientIsFree /\ pc # "idle") \/ OptimizeOver => alg \in Algorithm /\ mob \in Mobility
  <2>1. (ClientIsFree /\ pc # "idle") \/ OptimizeOver => pc \notin {"idle", "crashed"}
    BY DEF ClientIsFree, LeftBehind, OptimizeOver
  <2> QED BY <1>1, <2>1 DEF NamesOK, Typed
<1>4. ASSUME NEW a \in Algorithm, NEW m \in Mobility, NEW r \in Request, StartCalc(a, m, r),
             pc = "idle"
      PROVE  MapInv'
  <2>1. MapOK(mob, rm)'
    BY <1>4, EmptyMapOK DEF StartCalc
  <2>2. Typed'
    <3>1. calcs' \in 0..MaxCalcs BY <1>1, <1>4 DEF StartCalc
    <3>2. a \in Algorithm \union {"none"} /\ m \in Mobility \union {"none"}
      OBVIOUS
    <3>3. start' = r[1] /\ goal' = r[2] BY <1>4 DEF StartCalc
    <3>4. <<start, goal>>' \in Request /\ start' \in Config /\ goal' \in Config
      BY <1>2, <3>3
    <3>5. stack' \in Seq(DOMAIN rm'.node) /\ seen' \subseteq DOMAIN rm'.node
          /\ stack' = <<>> /\ seen' = {} /\ found' = <<>> /\ pc' = "called"
      BY <1>1, <1>3, <1>4 DEF StartCalc, Typed
    <3> QED BY <1>1, <1>4, <3>1, <3>2, <3>4, <3>5 DEF StartCalc, Typed
  <2>3. a # "none" /\ m \in Mobility BY PlannerAssumption
  <2> QED
    BY <1>1, <1>3, <1>4, <2>1, <2>2, <2>3
       DEF StartCalc, MapInv, NamesOK, ListsOK, LoopsOK, EndsFree, EndsJoined
<1>40. ASSUME NEW a \in Algorithm, NEW m \in Mobility, NEW r \in Request, StartCalc(a, m, r),
              pc # "idle"
       PROVE  MapInv'
  <2>1. /\ Overlaps(Freed(UnderWay), "called") /\ alg' = a /\ mob' = m
        /\ start' = r[1] /\ goal' = r[2] /\ running' = FALSE /\ cancelled' = FALSE
    BY <1>40 DEF StartCalc
  <2>2. calcs' \in 0..MaxCalcs BY <1>1, <1>40 DEF StartCalc
  <2> QED BY <1>2, <2>1, <2>2, OverlapMap
<1>5. ASSUME NEW r \in Request, StartAgain(r), pc = "idle"
      PROVE  MapInv'
  <2>1. MapOK(mob, rm)'
    BY <1>1, <1>5 DEF StartAgain
  <2>2. Typed'
    <3>1. calcs' \in 0..MaxCalcs BY <1>1, <1>5 DEF StartAgain
    <3>2. start' = r[1] /\ goal' = r[2] BY <1>5 DEF StartAgain
    <3>3. <<start, goal>>' \in Request /\ start' \in Config /\ goal' \in Config
      BY <1>2, <3>2
    <3>4. stack' = <<>> /\ seen' = {} /\ found' = <<>> /\ pc' \in {"called", "crashed"}
          /\ rm' = rm
      BY <1>1, <1>5 DEF StartAgain, Typed
    <3> QED BY <1>1, <1>5, <3>1, <3>3, <3>4 DEF StartAgain, Typed
  <2> QED
    BY <1>1, <1>5, <2>1, <2>2
       DEF StartAgain, MapInv, NamesOK, ListsOK, LoopsOK, EndsFree, EndsJoined
<1>50. ASSUME NEW r \in Request, StartAgain(r), pc # "idle"
       PROVE  MapInv'
  <2>1. /\ Overlaps(UnderWay, "called") /\ alg' = alg /\ mob' = mob /\ ClientIsFree
        /\ start' = r[1] /\ goal' = r[2] /\ running' = running /\ cancelled' = FALSE
    BY <1>50 DEF StartAgain
  <2>2. calcs' \in 0..MaxCalcs BY <1>1, <1>50 DEF StartAgain
  <2>3. running \in BOOLEAN BY <1>1 DEF Typed
  <2> QED BY <1>0, <1>2, <1>50, <2>1, <2>2, <2>3, OverlapMap
<1>51. CASE OptimizeOver
  <2>1. /\ Overlaps(UnderWay, "cut") /\ running' = running /\ cancelled' = cancelled
        /\ alg' = alg /\ mob' = mob /\ start' = start /\ goal' = goal /\ calcs' = calcs
    BY <1>51 DEF OptimizeOver
  <2>2. /\ running \in BOOLEAN /\ cancelled \in BOOLEAN /\ calcs \in 0..MaxCalcs
        /\ <<start, goal>> \in Request /\ start \in Config /\ goal \in Config
    BY <1>1 DEF Typed
  <2> QED BY <1>0, <1>51, <2>1, <2>2, OverlapMap
<1>6. CASE StopPlanning
  <2>1. MapOK(mob, rm)' /\ Typed'
    BY <1>1, <1>6 DEF StopPlanning, Typed
  <2> QED
    BY <1>1, <1>6, <2>1
       DEF StopPlanning, MapInv, NamesOK, ListsOK, LoopsOK, EndsFree, EndsJoined, startNode, goalNode
<1>7. CASE ClearRoadmap
  <2>1. MapOK(mob, rm)'
    BY <1>7, EmptyMapOK DEF ClearRoadmap
  <2>2. Typed'
    BY <1>1, <1>3, <1>7 DEF ClearRoadmap, Typed
  <2> QED
    BY <1>1, <1>3, <1>7, <2>1, <2>2
       DEF ClearRoadmap, MapInv, NamesOK, ListsOK, LoopsOK, EndsFree, EndsJoined
<1>8. CASE OptimizeShortcut
  <2>1. MapOK(mob, rm)' /\ Typed'
    BY <1>1, <1>8 DEF OptimizeShortcut, Typed
  <2>2. path # <<>> /\ Len(path) \in Nat /\ Len(path) >= 3
    BY <1>1, <1>8, LenProperties DEF OptimizeShortcut, Typed
  <2>3. LoopsOK'
    BY <1>8, <2>2 DEF OptimizeShortcut, LoopsOK
  <2> QED
    BY <1>1, <1>8, <2>1, <2>2, <2>3
       DEF OptimizeShortcut, MapInv, NamesOK, ListsOK, EndsFree, EndsJoined
<1>9. CASE OptimizeOverrun
  <2>1. MapOK(mob, rm)' /\ Typed'
    BY <1>1, <1>9 DEF OptimizeOverrun, Typed
  <2> QED
    BY <1>1, <1>9, <2>1
       DEF OptimizeOverrun, MapInv, NamesOK, ListsOK, LoopsOK, EndsFree, EndsJoined
<1>10. ASSUME NEW i \in DOMAIN path, NEW k \in DOMAIN path, OptimizeRandom(i, k)
       PROVE  MapInv'
  <2>1. path' \in Seq(Config)
    <3>0. path # <<>> BY <1>10 DEF OptimizeRandom
    <3>1. PICK a \in Points(mob, path[i], path[i + 1]), b \in Points(mob, path[k], path[k + 1]) :
              path' = SubSeq(path, 1, i) \o <<a, b>> \o SubSeq(path, k + 1, Len(path))
      BY <1>10 DEF OptimizeRandom
    <3>2. /\ path \in Seq(Config) /\ Len(path) \in Nat /\ DOMAIN path = 1..Len(path)
          /\ i \in Nat /\ k \in Nat /\ i >= 1 /\ i < k /\ k < Len(path)
          /\ mob \in Mobility
      <4>1. path \in Seq(Config) BY <1>1 DEF Typed
      <4>2. Len(path) \in Nat /\ DOMAIN path = 1..Len(path) BY <4>1, LenProperties
      <4>3. mob \in Mobility BY <1>1, <3>0 DEF NamesOK
      <4>4. i < k /\ k < Len(path) BY <1>10 DEF OptimizeRandom
      <4> QED BY <4>1, <4>2, <4>3, <4>4
    <3>3. /\ path[i] \in Config /\ path[i + 1] \in Config
          /\ path[k] \in Config /\ path[k + 1] \in Config
      BY <3>2, ElementOfSeq
    <3>4. a \in Config /\ b \in Config
      <4>1. \A x, y \in Config : Points(mob, x, y) \subseteq Config
        BY <3>2, MobilityAssumption
      <4> QED BY <3>3, <4>1
    <3>5. Joined(path, i, k, a, b) \in Seq(Config)
      <4>1. HasShortcut(path, i, k, a, b, Joined(path, i, k, a, b))
        BY <3>2, <3>4, RandomShortcutType
      <4> QED BY <4>1 DEF HasShortcut
    <3> QED BY <3>1, <3>5 DEF Joined
  <2>2. MapOK(mob, rm)' /\ Typed'
    BY <1>1, <1>10, <2>1 DEF OptimizeRandom, Typed
  <2>3. path # <<>> BY <1>10 DEF OptimizeRandom
  <2> QED
    BY <1>1, <1>10, <2>2, <2>3
       DEF OptimizeRandom, MapInv, NamesOK, ListsOK, LoopsOK, EndsFree, EndsJoined
<1> QED
  BY <1>4, <1>40, <1>5, <1>50, <1>51, <1>6, <1>7, <1>8, <1>9, <1>10 DEF Client

\* A call among others leaves everything but the flag they share.
LEMMA RacedMap == MapInv /\ Raced => MapInv'
<1> SUFFICES ASSUME MapInv, Raced PROVE MapInv'
  OBVIOUS
<1> USE DEF request, flags, walk, locals, PRMWork, RRTWork, Working
<1>1. /\ Typed /\ NamesOK /\ ListsOK /\ LoopsOK /\ EndsFree /\ EndsJoined /\ MapOK(mob, rm)
  BY DEF MapInv
<1>2. /\ UNCHANGED <<request, cancelled, rm, swapped, path, locals>>
      /\ pc = "raced" /\ pc' \in {"raced", "crashed"} /\ running' \in BOOLEAN
  <2>1. CASE RacedCrash
    BY <1>1, <2>1 DEF RacedCrash, AtWork, Typed
  <2>2. ASSUME NEW i \in DOMAIN calls, RacedTurn(i)
        PROVE  /\ UNCHANGED <<request, cancelled, rm, swapped, path, locals>>
               /\ pc = "raced" /\ pc' = pc /\ running' \in BOOLEAN
    BY <2>2 DEF RacedTurn, AtWork
  <2> QED BY <2>1, <2>2 DEF Raced
<1>3. MapOK(mob, rm)' BY <1>1, <1>2
<1>4. Typed' BY <1>1, <1>2 DEF Typed
<1> QED
  BY <1>1, <1>2, <1>3, <1>4 DEF MapInv, NamesOK, ListsOK, LoopsOK, EndsFree, EndsJoined


\* The planner's steps that leave the road map alone.
LEMMA QuietMap ==
    ASSUME MapInv,
           LinkNode \/ BuildAborted \/ Descend \/ Backtrack \/ SearchEnds \/ Extract
             \/ WalkUp \/ TurnRound \/ WalkDown \/ Cut \/ CutEnds
    PROVE  MapInv'
<1> USE DEF request, flags, walk, locals, PRMWork, RRTWork, Working
<1>1. /\ Typed /\ NamesOK /\ ListsOK /\ LoopsOK /\ EndsFree /\ EndsJoined /\ MapOK(mob, rm)
  BY DEF MapInv
<1>2. /\ rm.node \in Seq(Node) /\ rm.start \in Seq(Nat) /\ rm.goal \in Seq(Nat)
      /\ DOMAIN rm.node = 1..Len(rm.node) /\ Len(rm.node) \in Nat /\ Len(rm.start) \in Nat
      /\ \A a \in DOMAIN rm.node : rm.node[a].pos \in Config
  <2>1. /\ rm.node \in Seq(Node) /\ rm.start \in Seq(Nat) /\ rm.goal \in Seq(Nat)
    BY <1>1, TreesFields DEF MapOK
  <2> QED BY <2>1, HeapTypes, LenProperties
<1>3. \A a \in DOMAIN rm.node : /\ rm.node[a].parents \in Seq(DOMAIN rm.node)
                                /\ rm.node[a].children \in Seq(DOMAIN rm.node)
  BY <1>1 DEF MapOK, GoodHeap, LinksInside
<1>4. \A a \in DOMAIN rm.node : /\ First(rm.node[a].parents) \in 0..Len(rm.node)
                                /\ First(rm.node[a].children) \in 0..Len(rm.node)
  <2>1. \A a \in DOMAIN rm.node :
          /\ Elements(rm.node[a].parents) \subseteq DOMAIN rm.node
          /\ Elements(rm.node[a].children) \subseteq DOMAIN rm.node
          /\ First(rm.node[a].parents) # 0 => First(rm.node[a].parents) \in Elements(rm.node[a].parents)
          /\ First(rm.node[a].children) # 0 => First(rm.node[a].children) \in Elements(rm.node[a].children)
    BY <1>3, ElementsIn
  <2>2. \A x : x = 0 \/ x \in DOMAIN rm.node => x \in 0..Len(rm.node)
    BY <1>2
  <2> QED BY <2>1, <2>2
<1>5. CASE LinkNode
  <2>1. MapOK(mob, rm)' /\ Typed'
    BY <1>1, <1>5 DEF LinkNode, Building, Typed
  <2>2. LoopsOK'
    BY SMTT(20), <1>1, <1>2, <1>5 DEF LinkNode, Building, LoopsOK, Typed
  <2> QED
    BY <1>1, <1>5, <2>1, <2>2
       DEF LinkNode, Building, MapInv, NamesOK, ListsOK, EndsFree, EndsJoined
<1>6. CASE BuildAborted
  <2>1. MapOK(mob, rm)' /\ Typed'
    BY <1>1, <1>6 DEF BuildAborted, Aborts, Typed
  <2> QED
    BY <1>1, <1>6, <2>1
       DEF BuildAborted, Aborts, MapInv, NamesOK, ListsOK, LoopsOK, EndsFree, EndsJoined
<1>7. CASE Descend
  <2>1. Top \in DOMAIN rm.node
    BY <1>1, <1>7, ElementOfSeq, LenProperties, EmptySeq DEF Descend, Searching, Top, Typed
  <2>2. PICK c \in DOMAIN rm.node[Top].children :
            /\ stack' = Append(stack, rm.node[Top].children[c])
            /\ seen' = seen \union {rm.node[Top].children[c]}
    BY <1>7 DEF Descend, Unvisited
  <2>3. rm.node[Top].children[c] \in DOMAIN rm.node
    <3>1. rm.node[Top].children \in Seq(DOMAIN rm.node) BY <1>3, <2>1
    <3> QED BY <3>1, ElementOfSeq, LenProperties
  <2>4. stack' \in Seq(DOMAIN rm.node) /\ seen' \subseteq DOMAIN rm.node
    <3>1. stack \in Seq(DOMAIN rm.node) /\ seen \subseteq DOMAIN rm.node BY <1>1 DEF Typed
    <3>2. Append(stack, rm.node[Top].children[c]) \in Seq(DOMAIN rm.node)
      BY <3>1, <2>3, ElementsAppend
    <3> QED BY <3>1, <3>2, <2>2, <2>3
  <2>5. MapOK(mob, rm)' /\ Typed'
    BY <1>1, <1>7, <2>4 DEF Descend, Searching, Typed
  <2> QED
    BY <1>1, <1>7, <2>5
       DEF Descend, Searching, MapInv, NamesOK, ListsOK, LoopsOK, EndsFree, EndsJoined,
           startNode, goalNode
<1>8. CASE Backtrack
  <2>1. stack' \in Seq(DOMAIN rm.node)
    <3>1. stack \in Seq(DOMAIN rm.node) /\ stack # <<>> /\ stack' = SubSeq(stack, 1, Len(stack) - 1)
      BY <1>1, <1>8 DEF Backtrack, Searching, Typed
    <3>2. Len(stack) \in Nat /\ Len(stack) # 0 BY <3>1, LenProperties, EmptySeq
    <3>3. Len(stack) - 1 \in 0..Len(stack) BY <3>2
    <3>4. SubSeq(stack, 1, Len(stack) - 1) \in Seq(DOMAIN rm.node)
      <4>1. stack \in Seq(DOMAIN rm.node) BY <3>1
      <4> QED BY <4>1, <3>3, SubSeqParts
    <3> QED BY <3>1, <3>4
  <2>2. MapOK(mob, rm)' /\ Typed'
    BY <1>1, <1>8, <2>1 DEF Backtrack, Searching, Typed
  <2> QED
    BY <1>1, <1>8, <2>2
       DEF Backtrack, Searching, MapInv, NamesOK, ListsOK, LoopsOK, EndsFree, EndsJoined,
           startNode, goalNode
<1>9. CASE SearchEnds
  <2>1. path' \in Seq(Config)
    <3>1. stack \in Seq(DOMAIN rm.node) BY <1>1 DEF Typed
    <3>2. Len(stack) \in Nat /\ DOMAIN stack = 1..Len(stack)
          /\ \A i \in 1..Len(stack) : stack[i] \in DOMAIN rm.node
      BY <3>1, LenProperties, ElementOfSeq
    <3>3. path' = [i \in 1..Len(stack) |-> rm.node[stack[i]].pos]
      BY <3>2, <1>9 DEF SearchEnds
    <3>4. \A i \in 1..Len(stack) : rm.node[stack[i]].pos \in Config
      BY <3>2, <1>2
    <3> QED BY <3>2, <3>3, <3>4
  <2>2. <<>> \in Seq(Config) /\ <<>> \in Seq(DOMAIN rm.node) BY EmptySeq
  <2>3. MapOK(mob, rm)' /\ Typed'
    BY <1>1, <1>9, <2>1, <2>2 DEF SearchEnds, Return, Typed
  <2> QED
    BY <1>1, <1>9, <2>3
       DEF SearchEnds, Return, MapInv, NamesOK, ListsOK, LoopsOK, EndsFree, EndsJoined
<1>10. CASE Extract
  <2>1. j' \in DOMAIN rm.node
    <3>1. j' = rm.start[Len(rm.start)] /\ rm.start # <<>>
      BY <1>1, <1>10, <1>2, TreesFields DEF Extract, lastAddedNode, ListsOK, MapOK
    <3>2. rm.start[Len(rm.start)] \in Elements(rm.start) BY <3>1, <1>2, ElementsIn
    <3> QED BY <3>1, <3>2, <1>1 DEF MapOK
  <2>2. MapOK(mob, rm)' /\ Typed'
    BY <1>1, <1>2, <1>10, <2>1 DEF Extract, Typed
  <2> QED
    BY <1>1, <1>10, <2>2
       DEF Extract, MapInv, NamesOK, ListsOK, LoopsOK, EndsFree, EndsJoined
<1>11. CASE WalkUp
  <2>1. j \in DOMAIN rm.node /\ j \in 0..Len(rm.node)
    BY <1>1, <1>2, <1>11 DEF WalkUp, Typed
  <2>2. found' \in Seq(Config)
    <3>1. <<rm.node[j].pos>> \in Seq(Config) /\ found \in Seq(Config)
      BY <1>1, <1>2, <2>1 DEF Typed
    <3>2. <<rm.node[j].pos>> \o found \in Seq(Config) BY <3>1, ConcatProperties
    <3> QED BY <3>2, <1>11 DEF WalkUp
  <2>3. MapOK(mob, rm)' /\ Typed'
    <3>1. /\ UNCHANGED <<request, flags, rm, swapped, path, pc, n, ok, stack, seen>>
          /\ pc = "up"
      BY <1>11 DEF WalkUp
    <3>2. MapOK(mob, rm)' BY <1>1, <3>1
    <3>3. j' \in 0..Len(rm.node) /\ j' \in Nat
      BY <1>2, <1>4, <1>11, <2>1 DEF WalkUp
    <3> QED BY <1>1, <2>2, <3>1, <3>2, <3>3 DEF Typed
  <2> QED
    BY <1>1, <1>11, <2>3
       DEF WalkUp, MapInv, NamesOK, ListsOK, LoopsOK, EndsFree, EndsJoined
<1>12. CASE TurnRound
  <2>1. lastAddedNode("goal") \in DOMAIN rm.node
    <3>1. lastAddedNode("goal") = rm.goal[Len(rm.goal)] /\ rm.goal # <<>>
      BY <1>1, <1>12, <1>2, TreesFields DEF TurnRound, lastAddedNode, ListsOK, MapOK
    <3>2. rm.goal[Len(rm.goal)] \in Elements(rm.goal) BY <3>1, <1>2, ElementsIn
    <3> QED BY <3>1, <3>2, <1>1 DEF MapOK
  <2>2. j' \in 0..Len(rm.node)
    BY <1>4, <1>12, <2>1 DEF TurnRound
  <2>3. MapOK(mob, rm)' /\ Typed'
    BY <1>1, <1>2, <1>12, <2>2 DEF TurnRound, Typed
  <2> QED
    BY <1>1, <1>12, <2>3
       DEF TurnRound, MapInv, NamesOK, ListsOK, LoopsOK, EndsFree, EndsJoined
<1>13. CASE WalkDown
  <2>1. j \in DOMAIN rm.node /\ j \in 0..Len(rm.node)
    BY <1>1, <1>2, <1>13 DEF WalkDown, Typed
  <2>2. found' \in Seq(Config)
    <3>1. rm.node[j].pos \in Config /\ found \in Seq(Config)
      BY <1>1, <1>2, <2>1 DEF Typed
    <3>2. Append(found, rm.node[j].pos) \in Seq(Config) BY <3>1, ElementsAppend
    <3> QED BY <3>2, <1>13 DEF WalkDown
  <2>3. MapOK(mob, rm)' /\ Typed'
    <3>1. /\ UNCHANGED <<request, flags, rm, swapped, path, pc, n, ok, stack, seen>>
          /\ pc = "down"
      BY <1>13 DEF WalkDown
    <3>2. MapOK(mob, rm)' BY <1>1, <3>1
    <3>3. j' \in 0..Len(rm.node) /\ j' \in Nat
      BY <1>2, <1>4, <1>13, <2>1 DEF WalkDown
    <3> QED BY <1>1, <2>2, <3>1, <3>2, <3>3 DEF Typed
  <2> QED
    BY <1>1, <1>13, <2>3
       DEF WalkDown, MapInv, NamesOK, ListsOK, LoopsOK, EndsFree, EndsJoined
<1>14. CASE Cut
  <2>1. /\ found \in Seq(Config) /\ Len(found) \in Nat /\ j \in 2..(Len(found) - 1)
    BY <1>1, <1>14, LenProperties DEF Typed, Cut, LoopsOK
  <2>2. Erase(found, j) \in Seq(Config) /\ Len(Erase(found, j)) = Len(found) - 1
    BY <2>1, EraseType
  <2>3. /\ found' \in Seq(Config)
        /\ \/ j' = j /\ Len(found') = Len(found) - 1
           \/ j' = j + 1 /\ Len(found') = Len(found)
    BY <1>14, <2>1, <2>2 DEF Cut
  <2>4. MapOK(mob, rm)' /\ Typed'
    BY <1>1, <1>14, <2>1, <2>3 DEF Cut, Typed
  <2>5. LoopsOK'
    <3>1. j' \in 2..Len(found') BY <2>1, <2>3
    <3> QED BY <1>14, <3>1 DEF Cut, LoopsOK
  <2> QED
    BY <1>1, <1>14, <2>4, <2>5
       DEF Cut, MapInv, NamesOK, ListsOK, EndsFree, EndsJoined
<1>15. CASE CutEnds
  <2>1. <<>> \in Seq(Config) /\ <<>> \in Seq(DOMAIN rm.node) BY EmptySeq
  <2>2. MapOK(mob, rm)' /\ Typed'
    BY <1>1, <1>15, <2>1 DEF CutEnds, Return, Typed
  <2> QED
    BY <1>1, <1>15, <2>2
       DEF CutEnds, Return, MapInv, NamesOK, ListsOK, LoopsOK, EndsFree, EndsJoined
<1> QED
  BY <1>5, <1>6, <1>7, <1>8, <1>9, <1>10, <1>11, <1>12, <1>13, <1>14, <1>15


\* The steps that change it.
LEMMA CalcPathMap == MapInv /\ CalcPath => MapInv'
<1> SUFFICES ASSUME MapInv, CalcPath PROVE MapInv'
  OBVIOUS
<1> USE DEF request, flags, walk, locals, PRMWork, RRTWork, Working
<1>1. /\ Typed /\ NamesOK /\ ListsOK /\ LoopsOK /\ EndsFree /\ EndsJoined /\ MapOK(mob, rm)
      /\ pc = "called"
  BY DEF MapInv, CalcPath
<1>2. <<>> \in Seq(Config) /\ <<>> \in Seq(DOMAIN rm'.node) /\ <<start, goal>> \in Seq(Config)
  BY <1>1, EmptySeq DEF Typed
<1>3. mob \in Mobility /\ alg # "none"
  BY <1>1 DEF NamesOK
<1>4. CASE PrepareFails
  <2>1. path' = <<>> /\ pc' = "idle" /\ rm' = rm
    BY <1>4 DEF CalcPath
  <2>2. MapOK(mob, rm)' /\ Typed'
    BY <1>1, <1>2, <2>1 DEF CalcPath, Typed
  <2> QED
    BY <1>1, <2>1, <2>2 DEF CalcPath, MapInv, NamesOK, ListsOK, LoopsOK, EndsFree, EndsJoined
<1>5. CASE ~PrepareFails /\ isReachable(mob, start, goal)
  <2>1. path' = <<start, goal>> /\ pc' = "idle" /\ rm' = rm
    BY <1>5 DEF CalcPath
  <2>2. MapOK(mob, rm)' /\ Typed'
    BY <1>1, <1>2, <2>1 DEF CalcPath, Typed
  <2> QED
    BY <1>1, <1>3, <2>1, <2>2 DEF CalcPath, MapInv, NamesOK, ListsOK, LoopsOK, EndsFree, EndsJoined
<1>6. CASE ~PrepareFails /\ ~isReachable(mob, start, goal)
  <2>1. start \in Config \ Blocked /\ goal \in Config \ Blocked /\ path' = <<>>
    BY <1>1, <1>6 DEF PrepareFails, CalcPath, Typed
  <2>2. CASE alg = "PRM"
    <3>1. rm' = rm /\ pc' \in {"sample", "add"}
      BY <1>6, <2>2 DEF CalcPath
    <3>2. MapOK(mob, rm)' /\ Typed'
      BY <1>1, <1>2, <2>1, <3>1 DEF CalcPath, Typed
    <3> QED
      BY <1>1, <1>3, <2>1, <2>2, <3>1, <3>2
         DEF CalcPath, MapInv, NamesOK, ListsOK, LoopsOK, EndsFree, EndsJoined
  <2>3. CASE alg # "PRM"
    <3>1. rm' = PlantTrees(rm) /\ pc' = "grow"
      BY <1>6, <2>3 DEF CalcPath
    <3>2. MapOK(mob, PlantTrees(rm)) /\ PlantTrees(rm).start # <<>> /\ PlantTrees(rm).goal # <<>>
      BY <1>1, <1>3, <2>1, PlantTreesOK
    <3>3. MapOK(mob, rm)' /\ rm'.start # <<>> /\ rm'.goal # <<>> /\ mob' = mob
      BY <3>1, <3>2 DEF CalcPath
    <3>4. Typed'
      BY <1>1, <1>2, <2>1, <3>1 DEF CalcPath, Typed
    <3> QED
      BY <1>1, <1>3, <2>1, <2>3, <3>1, <3>3, <3>4
         DEF CalcPath, MapInv, NamesOK, ListsOK, LoopsOK, EndsFree, EndsJoined
  <2> QED BY <2>2, <2>3
<1> QED BY <1>4, <1>5, <1>6

LEMMA SampleMap ==
    ASSUME MapInv, NEW q \in Config, Sample(q)
    PROVE  MapInv'
<1> USE DEF request, flags, walk, locals, PRMWork, RRTWork, Working
<1>1. /\ Typed /\ NamesOK /\ ListsOK /\ LoopsOK /\ EndsFree /\ EndsJoined /\ MapOK(mob, rm)
      /\ pc = "sample" /\ q \notin Blocked /\ mob \in Mobility
  BY DEF MapInv, NamesOK, Sample, Building
<1>2. rm \in Trees /\ rm.start \in Seq(Nat) /\ Len(rm.start) \in Nat
  BY <1>1, TreesFields, LenProperties DEF MapOK
<1>3. rm' = Added(rm, "start", q)
  <2>1. rm' = [rm EXCEPT !.node = Append(@, NewNode(q)), !.start = Append(@, Len(rm.node) + 1)]
    BY DEF Sample
  <2>2. Added(rm, "start", q)
          = [rm EXCEPT !.node = Append(@, NewNode(q)), !["start"] = Append(@, Len(rm.node) + 1)]
    BY DEF Added
  <2> QED BY <2>1, <2>2
<1>4. MapOK(mob, Added(rm, "start", q))
  BY <1>1, AddedOK
<1>5. /\ Added(rm, "start", q).start = Append(rm.start, Len(rm.node) + 1)
      /\ Added(rm, "start", q).goal = rm.goal
  BY <1>2, AddedFields
<1>6. rm'.goal = <<>>
  BY <1>1, <1>3, <1>5 DEF ListsOK
<1>7. Len(rm'.start) = Len(rm.start) + 1
  <2>1. Len(rm.node) + 1 \in Nat
    BY <1>2, TreesFields, HeapTypes
  <2>2. \A x \in Nat : Len(Append(rm.start, x)) = Len(rm.start) + 1
    BY <1>2, AppendProperties
  <2> QED BY <1>3, <1>5, <2>1, <2>2
<1>8. MapOK(mob, rm)'
  BY <1>3, <1>4 DEF Sample
<1>9. <<>> \in Seq(DOMAIN rm'.node) BY EmptySeq
<1>10. Typed'
  BY <1>1, <1>9 DEF Sample, Typed
<1>11. LoopsOK'
  <2>1. pc' \in {"sample", "link"} /\ (pc' = "link" => n' = 1)
    BY <1>1 DEF Sample
  <2> QED BY <1>2, <1>7, <2>1 DEF LoopsOK
<1> QED
  BY <1>1, <1>6, <1>8, <1>10, <1>11
     DEF Sample, MapInv, NamesOK, ListsOK, EndsFree, EndsJoined

LEMMA LinkPairMap == MapInv /\ LinkPair => MapInv' /\ DOMAIN rm'.node = DOMAIN rm.node
<1> SUFFICES ASSUME MapInv, LinkPair PROVE MapInv' /\ DOMAIN rm'.node = DOMAIN rm.node
  OBVIOUS
<1> USE DEF request, flags, walk, locals, PRMWork, RRTWork, Working
<1>1. /\ Typed /\ NamesOK /\ ListsOK /\ LoopsOK /\ EndsFree /\ EndsJoined /\ MapOK(mob, rm)
      /\ pc = "pair" /\ mob \in Mobility
  BY DEF MapInv, NamesOK, LinkPair
<1>2. /\ rm \in Trees /\ GoodHeap(mob, rm.node) /\ rm.start \in Seq(Nat) /\ Len(rm.start) \in Nat
      /\ DOMAIN rm.start = 1..Len(rm.start) /\ rm["start"] = rm.start
      /\ Elements(rm.start) \subseteq DOMAIN rm.node
  BY <1>1, TreesFields, LenProperties DEF MapOK
<1>3. n \in 1..(Len(rm.start) - 1) /\ j \in (n + 1)..Len(rm.start)
  BY <1>1 DEF LoopsOK
<1>4. rm.start[n] \in Elements(rm.start) /\ rm.start[j] \in Elements(rm.start)
  <2>1. n \in DOMAIN rm.start /\ j \in DOMAIN rm.start
    BY <1>2, <1>3
  <2> QED BY <2>1 DEF Elements
<1> DEFINE g == ConnectNear(rm.node, mob, rm.start[n], rm.start[j])
<1>5. GoodHeap(mob, g) /\ Linked(rm.node, g, Elements(rm.start))
  BY <1>1, <1>2, <1>4, ConnectNearGood
<1>6. rm' = [rm EXCEPT !.node = g] BY DEF LinkPair
<1> HIDE DEF g
<1>7. MapOK(mob, [rm EXCEPT !.node = g])
  BY <1>1, <1>2, <1>5, RelinkedOK
<1>8. MapOK(mob, rm)'
  BY <1>6, <1>7 DEF LinkPair
<1>9. rm'.start = rm.start /\ rm'.goal = rm.goal /\ rm'.node = g
  BY <1>2, <1>6 DEF Trees
<1>10. DOMAIN rm'.node = DOMAIN rm.node
  BY <1>5, <1>9 DEF Linked
<1>11. /\ \/ j < Len(rm.start) /\ j' = j + 1 /\ n' = n /\ pc' = "pair"
          \/ j = Len(rm.start) /\ j' = 0 /\ n' = n + 1 /\ pc' = "link"
  BY <1>1, <1>2, <1>3 DEF LinkPair
<1>12. LoopsOK' /\ n' \in Nat /\ j' \in Nat
  <2>1. n \in Nat /\ j \in Nat BY <1>1 DEF Typed
  <2> QED BY <1>2, <1>3, <1>9, <1>11, <2>1 DEF LoopsOK
<1>13. <<>> \in Seq(DOMAIN rm'.node) BY EmptySeq
<1>14. Typed'
  BY <1>1, <1>11, <1>12, <1>13 DEF LinkPair, Typed
<1> QED
  BY <1>1, <1>8, <1>9, <1>10, <1>11, <1>12, <1>14
     DEF LinkPair, MapInv, NamesOK, ListsOK, EndsFree, EndsJoined

LEMMA AddEndsMap == MapInv /\ AddEnds => MapInv'
<1> SUFFICES ASSUME MapInv, AddEnds PROVE MapInv'
  OBVIOUS
<1> USE DEF request, flags, walk, locals, PRMWork, RRTWork, Working
<1>1. /\ Typed /\ NamesOK /\ ListsOK /\ LoopsOK /\ EndsFree /\ EndsJoined /\ MapOK(mob, rm)
      /\ pc = "add" /\ mob \in Mobility
  BY DEF MapInv, NamesOK, AddEnds
<1>2. start \in Config \ Blocked /\ goal \in Config \ Blocked
  BY <1>1 DEF Typed, EndsFree
<1>3. /\ rm.start \in Seq(Nat) /\ Len(rm.start) \in Nat /\ rm.node \in Seq(Node)
      /\ Len(rm.node) \in Nat
  BY <1>1, TreesFields, LenProperties DEF MapOK
<1>4. PICK A : A = [rm EXCEPT !.node = @ \o <<NewNode(start), NewNode(goal)>>,
                              !.start = @ \o <<Len(rm.node) + 1, Len(rm.node) + 2>>]
  OBVIOUS
<1>5. /\ MapOK(mob, A) /\ A.goal = rm.goal /\ Len(A.node) = Len(rm.node) + 2
      /\ Len(A.start) = Len(rm.start) + 2
      /\ {Len(A.node) - 1, Len(A.node)} \subseteq Elements(A.start)
      /\ A.node[Len(A.node) - 1].pos = start /\ A.node[Len(A.node)].pos = goal
  BY ZenonT(40), <1>1, <1>2, <1>4, JoinedOK
<1>6. rm' = A BY <1>4 DEF AddEnds
<1>7. MapOK(mob, rm)' BY <1>5, <1>6 DEF AddEnds
<1>8. <<>> \in Seq(DOMAIN rm'.node) BY EmptySeq
<1>9. Typed'
  BY <1>1, <1>8 DEF AddEnds, Typed
<1>10. LoopsOK'
  BY <1>3, <1>5, <1>6 DEF AddEnds, LoopsOK
<1>11. EndsJoined'
  <2>1. Len(rm'.node) >= 2 BY <1>3, <1>5, <1>6
  <2> QED BY <1>5, <1>6, <2>1 DEF AddEnds, EndsJoined, startNode, goalNode
<1> QED
  BY <1>1, <1>5, <1>6, <1>7, <1>9, <1>10, <1>11
     DEF AddEnds, MapInv, NamesOK, ListsOK, EndsFree

LEMMA JoinNodeMap == MapInv /\ JoinNode => MapInv' /\ Len(rm'.node) = Len(rm.node)
<1> SUFFICES ASSUME MapInv, JoinNode PROVE MapInv' /\ Len(rm'.node) = Len(rm.node)
  OBVIOUS
<1> USE DEF request, flags, walk, locals, PRMWork, RRTWork, Working
<1>1. /\ Typed /\ NamesOK /\ ListsOK /\ LoopsOK /\ EndsFree /\ EndsJoined /\ MapOK(mob, rm)
      /\ pc = "join" /\ mob \in Mobility
  BY DEF MapInv, NamesOK, JoinNode
<1>2. /\ rm \in Trees /\ GoodHeap(mob, rm.node) /\ rm.start \in Seq(Nat) /\ Len(rm.start) \in Nat
      /\ DOMAIN rm.start = 1..Len(rm.start) /\ rm["start"] = rm.start
      /\ Elements(rm.start) \subseteq DOMAIN rm.node
      /\ rm.node \in Seq(Node) /\ Len(rm.node) \in Nat
  BY <1>1, TreesFields, LenProperties DEF MapOK
<1>3. n \in 1..Len(rm.start)
  BY <1>1 DEF LoopsOK
<1>4. /\ rm.start[n] \in Elements(rm.start)
      /\ startNode \in Elements(rm.start) /\ goalNode \in Elements(rm.start)
      /\ rm.node[startNode].pos = start /\ rm.node[goalNode].pos = goal
      /\ startNode \in DOMAIN rm.node /\ goalNode \in DOMAIN rm.node
  BY <1>1, <1>2, <1>3 DEF Elements, EndsJoined
<1> DEFINE h == ConnectNear(rm.node, mob, startNode, rm.start[n])
           g == ConnectNear(h, mob, goalNode, rm.start[n])
<1>5. GoodHeap(mob, h) /\ Linked(rm.node, h, Elements(rm.start))
  BY <1>1, <1>2, <1>4, ConnectNearGood
<1>6. rm' = [rm EXCEPT !.node = g] BY DEF JoinNode
<1> HIDE DEF h
<1>7. goalNode \in DOMAIN h /\ rm.start[n] \in DOMAIN h
  BY <1>2, <1>4, <1>5 DEF Linked
<1>8. GoodHeap(mob, g) /\ Linked(h, g, Elements(rm.start))
  BY <1>1, <1>4, <1>5, <1>7, ConnectNearGood
<1> HIDE DEF g
<1>9. Linked(rm.node, g, Elements(rm.start))
  BY <1>5, <1>8, LinkedTwice
<1>10. MapOK(mob, [rm EXCEPT !.node = g])
  BY <1>1, <1>2, <1>8, <1>9, RelinkedOK
<1>11. MapOK(mob, rm)'
  BY <1>6, <1>10 DEF JoinNode
<1>12. rm'.start = rm.start /\ rm'.goal = rm.goal /\ rm'.node = g
  BY <1>2, <1>6 DEF Trees
<1>13. /\ DOMAIN rm'.node = DOMAIN rm.node
       /\ \A a \in DOMAIN rm.node : rm'.node[a].pos = rm.node[a].pos
  BY <1>9, <1>12 DEF Linked
<1>14. Len(rm'.node) = Len(rm.node)
  <2>1. rm'.node \in Seq(Node) BY <1>8, <1>12 DEF GoodHeap
  <2> QED BY <2>1, <1>2, <1>13, LenProperties
<1>15. EndsJoined'
  <2>1. startNode' = startNode /\ goalNode' = goalNode BY <1>14 DEF startNode, goalNode
  <2> QED BY <1>1, <1>4, <1>12, <1>13, <1>14, <2>1 DEF JoinNode, EndsJoined
<1>16. /\ pc' \in {"join", "search"} /\ n' \in Nat
       /\ pc' = "join" => n' \in 1..Len(rm.start) /\ stack' = stack /\ seen' = seen
       /\ pc' = "search" => stack' = <<startNode>> /\ seen' = {startNode}
  <2>1. n \in Nat BY <1>1 DEF Typed
  <2> QED BY <1>1, <1>2, <1>3, <2>1 DEF JoinNode
<1>17. LoopsOK'
  BY <1>12, <1>16 DEF LoopsOK
<1>18. /\ stack' \in Seq(DOMAIN rm'.node) /\ seen' \subseteq DOMAIN rm'.node
       /\ pc' # "search" => stack' = <<>> /\ seen' = {}
  <2>1. <<>> \in Seq(DOMAIN rm'.node) BY EmptySeq
  <2>2. <<startNode>> \in Seq(DOMAIN rm'.node)
    <3>1. \A S : \A x \in S : <<x>> \in Seq(S) OBVIOUS
    <3> QED BY <3>1, <1>4, <1>13
  <2>3. stack = <<>> /\ seen = {} BY <1>1 DEF Typed
  <2> QED BY <1>4, <1>13, <1>16, <2>1, <2>2, <2>3
<1>19. Typed'
  BY <1>1, <1>16, <1>18 DEF JoinNode, Typed
<1> QED
  BY <1>1, <1>11, <1>12, <1>14, <1>15, <1>16, <1>17, <1>19
     DEF JoinNode, MapInv, NamesOK, ListsOK, EndsFree

LEMMA CalcEndsMap == MapInv /\ CalcEnds => MapInv'
<1> SUFFICES ASSUME MapInv, CalcEnds PROVE MapInv'
  OBVIOUS
<1> USE DEF request, flags, walk, locals, PRMWork, RRTWork, Working
<1>1. /\ Typed /\ NamesOK /\ ListsOK /\ LoopsOK /\ EndsFree /\ EndsJoined /\ MapOK(mob, rm)
      /\ pc \in {"up", "down"}
  BY DEF MapInv, CalcEnds
<1>2. MapOK(mob, Integrated(rm)) /\ Integrated(rm).goal = <<>>
  BY <1>1, IntegratedOK
<1>3. MapOK(mob, rm)' /\ rm'.goal = <<>>
  BY <1>2 DEF CalcEnds
<1>4. <<>> \in Seq(Config) /\ <<>> \in Seq(DOMAIN rm'.node) BY EmptySeq
<1>5. Typed'
  BY <1>1, <1>4 DEF CalcEnds, Return, Typed
<1> QED
  BY <1>1, <1>3, <1>5
     DEF CalcEnds, Return, MapInv, NamesOK, ListsOK, LoopsOK, EndsFree, EndsJoined


LEMMA ExtendEffect ==
    ASSUME mob \in Mobility, MapOK(mob, rm), NEW t \in {"start", "goal"}, NEW q \in Config,
           NEW ret, Extend(t, q, ret)
    PROVE  \/ ret = "Trapped" /\ rm' = rm
           \/ /\ ret \in {"Reached", "Advanced"}
              /\ \E k : Grown(rm', t, k) /\ (ret = "Reached" => rm'.node[k].pos = q)
<1>1. PICK near \in findNearestNode(rm.node, mob, rm[t], q) :
        LET p    == rm.node[near].pos
            good == Steer(p, q) \notin Blocked /\ Moves(p, Steer(p, q), t = "goal")
        IN  \/ ~good /\ ret = "Trapped" /\ UNCHANGED rm
            \/ /\ good /\ rm' = Extended(t, near, q)
               /\ ret = IF Distance(mob, p, q) <= Eps THEN "Reached" ELSE "Advanced"
  BY DEF Extend
<1>2. near \in Elements(rm[t])
  BY DEF findNearestNode, Elements
<1> DEFINE p == rm.node[near].pos
<1>3. CASE ret = "Trapped" /\ rm' = rm
  BY <1>3
<1>4. CASE /\ Steer(p, q) \notin Blocked /\ Moves(p, Steer(p, q), t = "goal")
           /\ rm' = Extended(t, near, q)
           /\ ret = IF Distance(mob, p, q) <= Eps THEN "Reached" ELSE "Advanced"
  <2> DEFINE A == Extended(t, near, q)
             k == Len(rm.node) + 1
             x == Steer(p, q)
  <2>1. x \notin Blocked /\ Moves(rm.node[near].pos, x, t = "goal") BY <1>4
  <2>2. Grown(A, t, k) /\ A.node[k].pos = x
    BY <1>2, <2>1, ExtendedOK
  <2> HIDE DEF A, k
  <2>3. ret = "Reached" => x = q
    <3>1. mob \in Mobility /\ p \in Config
      <4>1. near \in DOMAIN rm.node /\ rm.node \in Seq(Node)
        BY <1>2, TreesFields DEF MapOK
      <4> QED BY <4>1, HeapTypes
    <3>2. ret = "Reached" => Distance(mob, p, q) <= Eps BY <1>4
    <3>3. x = IF Distance(mob, p, q) > Eps THEN Interpolate(mob, p, q, Eps, Distance(mob, p, q)) ELSE q
      BY DEF Steer
    <3>4. Distance(mob, p, q) \in Nat BY <3>1, MobilityAssumption
    <3>5. Eps \in Int BY PlannerAssumption
    <3> QED BY <3>2, <3>3, <3>4, <3>5
  <2>4. rm' = A BY <1>4 DEF A
  <2> HIDE DEF x
  <2>5. ret \in {"Reached", "Advanced"} BY <1>4
  <2> QED BY <2>2, <2>3, <2>4, <2>5
<1> QED BY <1>1, <1>3, <1>4

\* A turn of RRT's loop, and one of connect()'s.
LEMMA GrownMap ==
    ASSUME MapInv, pc \in {"grow", "connect"}, NEW t \in {"start", "goal"},
           NEW r, r = rm \/ \E k : Grown(r, t, k)
    PROVE  /\ MapOK(mob, r) /\ r.start # <<>> /\ r.goal # <<>>
<1>1. MapOK(mob, rm) /\ rm.start # <<>> /\ rm.goal # <<>> /\ rm.start \in Seq(Nat) /\ rm.goal \in Seq(Nat)
  BY TreesFields DEF MapInv, ListsOK, MapOK, RRTWork
<1>2. CASE r = rm BY <1>1, <1>2
<1>3. ASSUME NEW k, Grown(r, t, k) PROVE MapOK(mob, r) /\ r.start # <<>> /\ r.goal # <<>>
  <2>1. k \in Nat BY <1>3 DEF Grown
  <2>2. Append(rm.start, k) # <<>> /\ Append(rm.goal, k) # <<>>
    <3>1. ASSUME NEW s \in Seq(Nat), NEW y \in Nat PROVE Append(s, y) # <<>>
      BY ElementsAppend
    <3> QED BY <1>1, <2>1, <3>1
  <2> QED BY <1>1, <1>3, <2>2 DEF Grown
<1> QED BY <1>2, <1>3

LEMMA TreeNames ==
    ASSUME MapInv, pc \in {"grow", "connect"}
    PROVE  /\ Ta \in {"start", "goal"} /\ Tb \in {"start", "goal"}
           /\ Both => Ta # Tb
           /\ ~Both => Ta = "start" /\ Tb = "start"
           /\ rm.node[lastAddedNode(Ta)].pos \in Config
           /\ lastAddedNode(Ta) \in Elements(rm[Ta]) /\ Elements(rm[Ta]) \subseteq DOMAIN rm.node
           /\ mob \in Mobility /\ alg # "none" /\ alg # "PRM"
<1>1. /\ MapOK(mob, rm) /\ rm.start # <<>> /\ rm.goal # <<>> /\ rm.start \in Seq(Nat)
      /\ rm.goal \in Seq(Nat) /\ rm.node \in Seq(Node)
      /\ rm["start"] = rm.start /\ rm["goal"] = rm.goal
  BY TreesFields DEF MapInv, ListsOK, MapOK, RRTWork
<1>2. /\ Ta \in {"start", "goal"} /\ Tb \in {"start", "goal"}
      /\ Both => Ta # Tb
      /\ ~Both => Ta = "start" /\ Tb = "start"
  BY DEF Ta, Tb
<1>3. lastAddedNode(Ta) \in Elements(rm[Ta])
  <2>1. rm.start[Len(rm.start)] \in Elements(rm.start) /\ rm.goal[Len(rm.goal)] \in Elements(rm.goal)
    BY <1>1, ElementsIn
  <2> QED BY <1>1, <1>2, <2>1 DEF lastAddedNode
<1>4. Elements(rm[Ta]) \subseteq DOMAIN rm.node
  BY <1>1, <1>2 DEF MapOK
<1>5. \A a \in DOMAIN rm.node : rm.node[a].pos \in Config
  BY <1>1, HeapTypes
<1>6. mob \in Mobility /\ alg # "none" /\ alg # "PRM"
  BY DEF MapInv, NamesOK, PRMWork, RRTWork
<1> QED BY <1>2, <1>3, <1>4, <1>5, <1>6

LEMMA TreesMap ==
    ASSUME MapInv, pc \in {"grow", "connect"}, MapOK(mob, rm'), rm'.start # <<>>, rm'.goal # <<>>,
           UNCHANGED <<request, flags, path, j, walk>>,
           pc' \in {"grow", "connect", "extract"}, n' \in Nat, ok' \in BOOLEAN,
           swapped' \in BOOLEAN
    PROVE  MapInv'
<1> USE DEF request, flags, walk, locals, PRMWork, RRTWork, Working
<1>1. /\ Typed /\ NamesOK /\ ListsOK /\ LoopsOK /\ EndsFree /\ EndsJoined
  BY DEF MapInv
<1>2. MapOK(mob, rm)' OBVIOUS
<1>3. <<>> \in Seq(DOMAIN rm'.node) BY EmptySeq
<1>4. Typed'
  BY <1>1, <1>3 DEF Typed
<1> QED
  BY <1>1, <1>2, <1>4
     DEF MapInv, NamesOK, ListsOK, LoopsOK, EndsFree, EndsJoined

LEMMA GrowMap ==
    ASSUME MapInv, NEW q \in Config, Grow(q)
    PROVE  MapInv'
<1>1. pc = "grow" /\ mob \in Mobility /\ MapOK(mob, rm) /\ Typed /\ Ta \in {"start", "goal"}
  BY TreeNames DEF Grow, MapInv
<1>2. PICK ret : Extend(Ta, q, ret)
  BY DEF Grow
<1>3. rm' = rm \/ \E k : Grown(rm', Ta, k)
  BY <1>1, <1>2, ExtendEffect
<1>4. MapOK(mob, rm') /\ rm'.start # <<>> /\ rm'.goal # <<>>
  BY <1>1, <1>3, GrownMap
<1>5. /\ UNCHANGED <<request, flags, path, j, walk>>
      /\ pc' \in {"grow", "connect", "extract"} /\ n' \in Nat /\ ok' \in BOOLEAN
      /\ swapped' \in BOOLEAN
  <2>1. n' = n \/ n' = n + 1 BY DEF Grow, TrialEnds
  <2>2. n' \in Nat BY <1>1, <2>1 DEF Typed
  <2>3. /\ UNCHANGED <<request, flags, path, j, walk>> /\ pc' \in {"grow", "connect", "extract"}
        /\ ok' \in BOOLEAN /\ swapped' \in BOOLEAN
    BY <1>1, Zenon DEF Grow, TrialEnds, Typed
  <2> QED BY <2>2, <2>3
<1> QED BY <1>1, <1>4, <1>5, TreesMap

LEMMA ConnectMap == MapInv /\ Connect => MapInv'
<1> SUFFICES ASSUME MapInv, Connect PROVE MapInv'
  OBVIOUS
<1>1. /\ pc = "connect" /\ mob \in Mobility /\ MapOK(mob, rm) /\ Typed
      /\ Tb \in {"start", "goal"} /\ rm.node[lastAddedNode(Ta)].pos \in Config
  BY TreeNames DEF Connect, MapInv
<1>2. PICK q, ret : q \in Config /\ Extend(Tb, q, ret)
  BY <1>1 DEF Connect, Typed
<1>3. rm' = rm \/ \E k : Grown(rm', Tb, k)
  BY <1>1, <1>2, ExtendEffect
<1>4. MapOK(mob, rm') /\ rm'.start # <<>> /\ rm'.goal # <<>>
  BY <1>1, <1>3, GrownMap
<1>5. /\ UNCHANGED <<request, flags, path, j, walk>>
      /\ pc' \in {"grow", "connect", "extract"} /\ n' \in Nat /\ ok' \in BOOLEAN
      /\ swapped' \in BOOLEAN
  <2>1. n' = n \/ n' = n + 1 BY DEF Connect, TrialEnds
  <2>2. n' \in Nat BY <1>1, <2>1 DEF Typed
  <2>3. /\ UNCHANGED <<request, flags, path, j, walk>> /\ pc' \in {"grow", "connect", "extract"}
        /\ ok' \in BOOLEAN /\ swapped' \in BOOLEAN
    BY <1>1, Zenon DEF Connect, TrialEnds, Typed
  <2> QED BY <2>2, <2>3
<1> QED BY <1>1, <1>4, <1>5, TreesMap

LEMMA MapStep == MapInv /\ [Next]_vars => MapInv'
<1>1. MapInv /\ UNCHANGED vars => MapInv'
  <2> SUFFICES ASSUME MapInv, UNCHANGED vars PROVE MapInv'
    OBVIOUS
  <2>1. MapOK(mob, rm)'
    BY DEF MapInv, vars, request
  <2> QED
    BY <2>1 DEF MapInv, Typed, NamesOK, ListsOK, LoopsOK, EndsFree, EndsJoined, startNode, goalNode,
        vars, request, flags, locals, walk
<1>2. MapInv /\ Planner => MapInv'
  BY CalcPathMap, QuietMap, LinkPairMap, AddEndsMap, JoinNodeMap, ConnectMap, CalcEndsMap,
     SampleMap, GrowMap DEF Planner
<1> QED BY <1>1, <1>2, ClientMap, RacedMap DEF Next

THEOREM MapInvariant == Spec => []MapInv
<1> QED BY MapInitial, MapStep, PTL DEF Spec

\* Each client's and each call's step keeps the flags in order.
\* A function on 1..k is a sequence of that length.
LEMMA SeqOfLength ==
    ASSUME NEW k \in Nat, NEW S, NEW f \in [1..k -> S]
    PROVE  f \in Seq(S) /\ Len(f) = k
BY SeqDef, LenProperties

LEMMA FreedSeq ==
    ASSUME NEW others \in Seq(Call)
    PROVE  /\ Freed(others) \in Seq(Call) /\ Len(Freed(others)) = Len(others)
           /\ DOMAIN Freed(others) = DOMAIN others
           /\ \A i \in DOMAIN others : /\ Freed(others)[i].at \in {others[i].at, "freed"}
                                       /\ Freed(others)[i].stopped = others[i].stopped
<1> DEFINE F(c) == [c EXCEPT !.at = IF @ \in Working THEN "freed" ELSE @]
<1>1. DOMAIN others = 1..Len(others) /\ Len(others) \in Nat BY LenProperties
<1>2. \A i \in DOMAIN others : others[i] \in Call BY ElementOfSeq, <1>1
<1>3. \A c \in Call : F(c) \in Call /\ F(c).at \in {c.at, "freed"} /\ F(c).stopped = c.stopped
  BY DEF Call
<1>4. Freed(others) = [i \in DOMAIN others |-> F(others[i])] BY DEF Freed
<1> HIDE DEF F
<1>5. Freed(others) \in [1..Len(others) -> Call] BY <1>1, <1>2, <1>3, <1>4
<1>6. Freed(others) \in Seq(Call) /\ Len(Freed(others)) = Len(others)
  BY <1>1, <1>5, SeqOfLength
<1> QED BY <1>2, <1>3, <1>4, <1>6

LEMMA AskedSeq ==
    ASSUME calls \in Seq(Call)
    PROVE  /\ Asked \in Seq(Call) /\ Len(Asked) = Len(calls)
           /\ \A i \in DOMAIN calls : Asked[i].at = calls[i].at
<1> DEFINE F(c) == [c EXCEPT !.stopped = @ \/ c.at \in Working]
<1>1. DOMAIN calls = 1..Len(calls) /\ Len(calls) \in Nat BY LenProperties
<1>2. \A i \in DOMAIN calls : calls[i] \in Call BY ElementOfSeq, <1>1
<1>3. \A c \in Call : F(c) \in Call /\ F(c).at = c.at
  BY DEF Call
<1>4. Asked = [i \in DOMAIN calls |-> F(calls[i])] BY DEF Asked
<1> HIDE DEF F
<1>5. Asked \in [1..Len(calls) -> Call] BY <1>1, <1>2, <1>3, <1>4
<1>6. Asked \in Seq(Call) /\ Len(Asked) = Len(calls)
  BY <1>1, <1>5, SeqOfLength
<1> QED BY <1>2, <1>3, <1>4, <1>6

LEMMA StopClient == MapInv /\ StopInv /\ Client => StopInv'
<1> SUFFICES ASSUME MapInv, StopInv, Client PROVE StopInv'
  OBVIOUS
<1> USE DEF request, flags, Working
<1>1. /\ stopped \in BOOLEAN /\ calls \in Seq(Call) /\ Len(calls) \in Nat
      /\ DOMAIN calls = 1..Len(calls)
      /\ (pc = "called" => ~stopped) /\ (stopped /\ pc \notin {"raced", "crashed"} => ~running)
      /\ (pc = "raced" => Len(calls) >= 2)
      /\ (pc \notin {"raced", "crashed"} => calls = <<>>)
      /\ (\A i \in DOMAIN calls : calls[i].stopped => ~running)
  BY LenProperties DEF StopInv
<1>2. (ClientIsFree /\ pc # "idle") \/ OptimizeOver
        => /\ UnderWay \in Seq(Call) /\ Len(UnderWay) \in Nat /\ Len(UnderWay) >= 1
           /\ \A i \in DOMAIN UnderWay : UnderWay[i].stopped => ~running
  <2>1. CASE pc = "raced" BY <1>1, <2>1 DEF UnderWay
  <2>2. CASE LeftBehind
    <3>1. [at |-> pc, stopped |-> stopped] \in Call BY <1>1, <2>2 DEF LeftBehind, Call
    <3>2. pc # "raced" BY <2>2 DEF LeftBehind
    <3> DEFINE c == [at |-> pc, stopped |-> stopped]
    <3>3. c \in Call /\ UnderWay = <<c>> /\ c.stopped = stopped
      BY <3>1, <3>2 DEF UnderWay
    <3>5. stopped => ~running BY <1>1, <2>2 DEF LeftBehind
    <3> HIDE DEF c
    <3>4. <<c>> \in Seq(Call) /\ Len(<<c>>) = 1 /\ DOMAIN <<c>> = {1} /\ <<c>>[1] = c
      BY <3>3
    <3> QED BY <3>3, <3>4, <3>5
  <2> QED BY <2>1, <2>2 DEF ClientIsFree, OptimizeOver
<1>3. ASSUME NEW others \in Seq(Call), NEW at \in {"called", "cut"}, Overlaps(others, at),
             Len(others) >= 1, stopped' \in BOOLEAN,
             \A i \in DOMAIN others : others[i].stopped => ~running'
      PROVE  StopInv'
  <2> DEFINE c == [at |-> at, stopped |-> FALSE]
  <2>1. c \in Call /\ ~c.stopped BY DEF Call
  <2>2. pc' = "raced" /\ calls' = Append(others, c) BY <1>3 DEF Overlaps
  <2> HIDE DEF c
  <2>3. Append(others, c) \in Seq(Call) /\ Len(Append(others, c)) = Len(others) + 1
        /\ Len(others) \in Nat
    BY <2>1, AppendProperties, LenProperties
  <2>4. /\ DOMAIN Append(others, c) = 1..(Len(others) + 1) /\ DOMAIN others = 1..Len(others)
        /\ Append(others, c)[Len(others) + 1] = c
        /\ \A i \in 1..Len(others) : Append(others, c)[i] = others[i]
    BY <2>1, <2>3, AppendProperties, LenProperties
  <2>5. \A i \in DOMAIN Append(others, c) : Append(others, c)[i].stopped => ~running'
    BY <1>3, <2>1, <2>3, <2>4
  <2> QED BY <1>3, <2>2, <2>3, <2>5 DEF StopInv
<1>4. ASSUME NEW others \in Seq(Call), \A i \in DOMAIN others : others[i].stopped => ~running
      PROVE  \A i \in DOMAIN Freed(others) : Freed(others)[i].stopped => ~running
  BY <1>4, FreedSeq
<1>5. ASSUME NEW a \in Algorithm, NEW m \in Mobility, NEW r \in Request, StartCalc(a, m, r)
      PROVE  StopInv'
  <2>1. stopped' = FALSE /\ running' = FALSE /\ ClientIsFree BY <1>5 DEF StartCalc
  <2>2. CASE pc = "idle"
    BY <1>1, <1>5, <2>1, <2>2 DEF StartCalc, StopInv
  <2>3. CASE pc # "idle"
    <3>1. Overlaps(Freed(UnderWay), "called") BY <1>5, <2>3 DEF StartCalc
    <3> QED BY <1>2, <1>3, <1>4, <2>1, <2>3, <3>1, FreedSeq
  <2> QED BY <2>2, <2>3
<1>6. ASSUME NEW r \in Request, StartAgain(r)
      PROVE  StopInv'
  <2>1. stopped' = FALSE /\ ClientIsFree BY <1>6 DEF StartAgain
  <2>2. CASE pc = "idle"
    <3>1. calls' = calls /\ pc' # "raced" /\ running' = running BY <1>6, <2>2 DEF StartAgain
    <3>2. calls' = <<>> BY <1>1, <2>2, <3>1
    <3> QED BY <1>1, <2>1, <3>1, <3>2 DEF StopInv
  <2>3. CASE pc # "idle"
    <3>1. Overlaps(UnderWay, "called") /\ running' = running BY <1>6, <2>3 DEF StartAgain
    <3> QED BY <1>2, <1>3, <2>1, <2>3, <3>1
  <2> QED BY <2>2, <2>3
<1>7. CASE OptimizeOver
  <2>1. Overlaps(UnderWay, "cut") /\ stopped' = stopped /\ running' = running
    BY <1>7 DEF OptimizeOver
  <2> QED BY <1>1, <1>2, <1>3, <1>7, <2>1
<1>8. CASE StopPlanning
  <2>1. running' = FALSE /\ pc' = pc BY <1>8 DEF StopPlanning
  <2>2. CASE pc # "raced"
    <3>1. stopped' = (pc # "called") /\ calls' = calls BY <1>8, <2>2 DEF StopPlanning
    <3> QED BY <1>1, <2>1, <2>2, <3>1 DEF StopInv
  <2>3. CASE pc = "raced"
    <3>1. calls' = Asked /\ stopped' = stopped
      BY <1>8, <2>3 DEF StopPlanning
    <3>5. calls' \in Seq(Call) /\ Len(calls') = Len(calls)
      BY <1>1, <3>1, AskedSeq
    <3> QED BY <1>1, <2>1, <2>3, <3>1, <3>5 DEF StopInv
  <2> QED BY <2>2, <2>3
<1>9. CASE \/ ClearRoadmap \/ OptimizeShortcut \/ OptimizeOverrun
           \/ \E i, k \in DOMAIN path : OptimizeRandom(i, k)
  <2>1. calls' = calls /\ stopped' = stopped /\ running' = running
        /\ pc = "idle" /\ pc' \in {"idle", "cut", "crashed"}
    BY <1>9 DEF ClearRoadmap, OptimizeShortcut, OptimizeOverrun, OptimizeRandom
  <2> QED BY <1>1, <2>1 DEF StopInv
<1> QED BY <1>5, <1>6, <1>7, <1>8, <1>9 DEF Client

LEMMA StopPlanner == StopInv /\ Planner => StopInv'
<1> SUFFICES ASSUME StopInv, Planner PROVE StopInv'
  OBVIOUS
<1>1. CASE CalcPath
  <2>1. /\ pc = "called" /\ pc' \in {"idle", "sample", "add", "grow"}
        /\ stopped' = stopped /\ calls' = calls
    BY <1>1 DEF CalcPath
  <2> QED BY <2>1 DEF StopInv
<1>2. CASE ~CalcPath
  <2>1. UNCHANGED flags
    <3>1. LinkNode \/ LinkPair \/ BuildAborted \/ AddEnds \/ JoinNode => UNCHANGED flags
      BY DEF LinkNode, LinkPair, BuildAborted, AddEnds, JoinNode
    <3>2. Descend \/ Backtrack \/ SearchEnds \/ Extract \/ Cut \/ CutEnds => UNCHANGED flags
      BY DEF Descend, Backtrack, SearchEnds, Extract, Cut, CutEnds
    <3>3. WalkUp \/ TurnRound \/ WalkDown \/ CalcEnds \/ Connect => UNCHANGED flags
      BY DEF WalkUp, TurnRound, WalkDown, CalcEnds, Connect
    <3>4. \A q \in Config : Sample(q) \/ Grow(q) => UNCHANGED flags
      BY DEF Sample, Grow
    <3> QED BY <1>2, <3>1, <3>2, <3>3, <3>4 DEF Planner
  <2>2. pc \notin {"raced", "crashed"} /\ pc' \notin {"called", "raced"}
    <3>1. CASE LinkNode \/ LinkPair \/ BuildAborted \/ AddEnds \/ JoinNode
      BY <3>1 DEF LinkNode, LinkPair, BuildAborted, AddEnds, JoinNode, Building, Aborts
    <3>3. CASE Descend \/ Backtrack \/ SearchEnds
      BY <3>3 DEF Descend, Backtrack, SearchEnds, Searching, Return
    <3>4. ASSUME NEW q \in Config, Sample(q)
          PROVE  pc \notin {"raced", "crashed"} /\ pc' \notin {"called", "raced"}
      BY <3>4 DEF Sample, Building
    <3>2. CASE Connect \/ Extract \/ WalkUp \/ TurnRound \/ WalkDown \/ CalcEnds \/ Cut \/ CutEnds
                 \/ \E q \in Config : Grow(q)
      BY <3>2 DEF Connect, TrialEnds, Extract, WalkUp, TurnRound, WalkDown, CalcEnds, Cut, CutEnds,
         Grow, Return
    <3> QED BY <1>2, <3>1, <3>2, <3>3, <3>4 DEF Planner
  <2> QED BY <2>1, <2>2 DEF StopInv, flags
<1> QED BY <1>1, <1>2

LEMMA StopRaced == StopInv /\ Raced => StopInv'
<1> SUFFICES ASSUME StopInv, Raced PROVE StopInv'
  OBVIOUS
<1>1. CASE RacedCrash
  <2>1. pc = "raced" /\ pc' = "crashed" /\ UNCHANGED flags
    BY <1>1 DEF RacedCrash, AtWork
  <2>2. UNCHANGED flags /\ pc' = "crashed" BY <2>1
  <2> QED BY <1>1, <2>1 DEF StopInv, flags
<1>2. ASSUME NEW i \in DOMAIN calls, RacedTurn(i)
      PROVE  StopInv'
  <2>1. pc = "raced" /\ pc' = pc /\ stopped' = stopped
    BY <1>2 DEF RacedTurn, AtWork
  <2>2. calls \in Seq(Call) /\ Len(calls) \in Nat /\ DOMAIN calls = 1..Len(calls)
        /\ calls[i] \in Call /\ Len(calls) >= 2
    BY <2>1, LenProperties, ElementOfSeq DEF StopInv
  <2>3. PICK next \in Turns[calls[i].at] : calls' = Turned(i, next)
    BY <1>2 DEF RacedTurn
  <2>4. next \in Working \union {"idle", "called", "cut", "freed"}
    <3>1. calls[i].at \in Working \union {"called", "cut"}
      BY <1>2, <2>2 DEF RacedTurn, AtWork, Call
    <3> QED BY <2>3, <3>1 DEF Turns, Working
  <2>5. \A k \in DOMAIN calls : calls[k] \in Call
    BY <2>2, ElementOfSeq
  <2>6. Turned(i, next) \in [1..Len(calls) -> Call]
    <3>1. calls[i].at \in Working \union {"idle", "called", "cut", "freed"}
      BY <2>2 DEF Call
    <3>2. \A k \in DOMAIN calls :
            [at |-> IF k = i THEN next ELSE calls[k].at,
             stopped |-> calls[k].stopped /\ calls[i].at # "called"] \in Call
      BY <2>4, <2>5 DEF Call
    <3> QED BY <2>2, <3>2 DEF Turned
  <2>7. calls' \in Seq(Call) /\ Len(calls') = Len(calls)
    BY <2>2, <2>3, <2>6, SeqOfLength
  <2>8. running' = (running \/ calls[i].at = "called")
    BY <1>2 DEF RacedTurn
  <2>9. \A k \in DOMAIN calls : calls'[k].stopped = (calls[k].stopped /\ calls[i].at # "called")
    BY <2>3 DEF Turned
  <2>10. \A k \in DOMAIN calls' : calls'[k].stopped => ~running'
    <3>1. DOMAIN calls' = DOMAIN calls BY <2>3 DEF Turned
    <3> QED BY <2>8, <2>9, <3>1 DEF StopInv
  <2> QED BY <2>1, <2>2, <2>7, <2>10 DEF StopInv
<1> QED BY <1>1, <1>2 DEF Raced

\* Where the stop requests are, and that they hold.
THEOREM StopInvariant == Spec => []StopInv
<1>1. Init => StopInv
  BY EmptySeq DEF Init, StopInv
<1>2. MapInv /\ StopInv /\ [Next]_vars => StopInv'
  <2>1. StopInv /\ UNCHANGED vars => StopInv'
    BY DEF StopInv, vars, flags
  <2> QED BY <2>1, StopClient, StopPlanner, StopRaced DEF Next
<1> QED BY <1>1, <1>2, MapInvariant, PTL DEF Spec

LEMMA MapTypes == MapInv /\ StopInv => TypeOK
<1> SUFFICES ASSUME MapInv, StopInv PROVE TypeOK
  OBVIOUS
<1>1. Typed /\ MapOK(mob, rm) BY DEF MapInv
<1>2. rm \in Trees /\ \A t \in {"start", "goal"} : \A i \in DOMAIN rm[t] : rm[t][i] \in DOMAIN rm.node
  BY <1>1, TreesFields DEF MapOK, Elements
<1> QED BY <1>1, <1>2 DEF Typed, StopInv, TypeOK

\* Types; trees, search and extraction refer to nodes that exist.
THEOREM PlannerTypes == Spec => []TypeOK
<1> QED BY MapInvariant, StopInvariant, MapTypes, PTL

\* Every edge of every tree is a motion the robot can make, entered at both of
\* its ends, whatever is sampled, stopped, repeated or searched.
THEOREM EdgesAreMovesAlways == Spec => []EdgesAreMoves
<1>1. MapInv => EdgesAreMoves
  BY DEF MapInv, MapOK, GoodHeap, LinksAreMoves, EdgesAreMoves
<1> QED BY <1>1, MapInvariant, PTL

\* No edge leaves a tree, whatever is handed from tree to tree.
THEOREM RoadmapClosedAlways == Spec => []RoadmapClosed
<1>1. MapInv => RoadmapClosed
  <2> SUFFICES ASSUME MapInv, NEW t \in {"start", "goal"}, NEW i \in Elements(rm[t]),
                      NEW c \in DOMAIN rm.node[i].children
               PROVE  rm.node[i].children[c] \in Elements(rm[t])
    BY DEF RoadmapClosed, Elements
  <2>1. Closed(rm.node, Elements(rm[t]))
    BY TreesFields DEF MapInv, MapOK
  <2>2. Elements(rm.node[i].children) \subseteq Elements(rm[t])
    BY <2>1 DEF Closed
  <2> QED BY <2>2 DEF Elements
<1> QED BY <1>1, MapInvariant, PTL


-----------------------------------------------------------------------------
(* The depth-first search *)

\* What runs while the search or the building of the road map is under way.
LEMMA SearchSteps ==
    [Next]_vars /\ pc = "search" =>
        StopPlanning \/ Descend \/ Backtrack \/ SearchEnds \/ UNCHANGED vars \/ pc' = "raced"
<1> USE DEF Working
<1>1. pc = "search" => ~Client \/ StopPlanning \/ pc' = "raced"
  BY DEF Client, StartAgain, StartCalc, Overlaps, ClearRoadmap, OptimizeShortcut, OptimizeOverrun,
         OptimizeOver, OptimizeRandom
<1>2. pc = "search" => ~Planner \/ Descend \/ Backtrack \/ SearchEnds
  BY DEF Planner, CalcPath, LinkNode, LinkPair, BuildAborted, Building, Aborts, AddEnds, JoinNode,
         Connect, Extract, WalkUp, TurnRound, WalkDown, CalcEnds, Cut, CutEnds, Sample, Grow
<1>3. pc = "search" => ~Raced
  BY DEF Raced, RacedCrash, RacedTurn, AtWork
<1> QED BY <1>1, <1>2, <1>3 DEF Next

LEMMA BuildSteps ==
    [Next]_vars /\ pc \in {"sample", "link", "pair"} =>
        \/ StopPlanning \/ LinkNode \/ LinkPair \/ BuildAborted \/ UNCHANGED vars \/ pc' = "raced"
        \/ \E q \in Config : Sample(q)
<1> USE DEF Working
<1> SUFFICES ASSUME pc \in {"sample", "link", "pair"}, Next
             PROVE  \/ StopPlanning \/ LinkNode \/ LinkPair \/ BuildAborted \/ pc' = "raced"
                    \/ \E q \in Config : Sample(q)
  OBVIOUS
<1>1. ~Client \/ StopPlanning \/ pc' = "raced"
  BY DEF Client, StartAgain, StartCalc, Overlaps, ClearRoadmap, OptimizeShortcut, OptimizeOverrun,
         OptimizeOver, OptimizeRandom
<1>2. ~Planner \/ LinkNode \/ LinkPair \/ BuildAborted \/ \E q \in Config : Sample(q)
  BY DEF Planner, CalcPath, AddEnds, JoinNode, Descend, Backtrack, Searching, SearchEnds,
         Connect, Extract, WalkUp, TurnRound, WalkDown, CalcEnds, Cut, CutEnds, Grow
<1>3. ~Raced
  BY DEF Raced, RacedCrash, RacedTurn, AtWork
<1> QED BY <1>1, <1>2, <1>3 DEF Next

LEMMA SearchFields ==
    ASSUME MapInv, pc = "search"
    PROVE  /\ rm.node \in Seq(Node) /\ Len(rm.node) \in Nat /\ Len(rm.node) >= 2
           /\ startNode \in Nat /\ goalNode \in Nat /\ startNode # goalNode
           /\ startNode \in DOMAIN rm.node /\ goalNode \in DOMAIN rm.node
           /\ stack \in Seq(DOMAIN rm.node) /\ Len(stack) \in Nat /\ DOMAIN stack = 1..Len(stack)
           /\ Elements(stack) \subseteq DOMAIN rm.node
           /\ stack # <<>> => Len(stack) # 0 /\ Top \in Elements(stack)
           /\ seen \subseteq DOMAIN rm.node
<1>1. /\ rm.node \in Seq(Node) /\ Len(rm.node) \in Nat /\ Len(rm.node) >= 2
      /\ {startNode, goalNode} \subseteq DOMAIN rm.node
  BY TreesFields, HeapTypes DEF MapInv, MapOK, EndsJoined
<1>2. startNode \in Nat /\ goalNode \in Nat /\ startNode # goalNode
  BY <1>1 DEF startNode, goalNode
<1>3. stack \in Seq(DOMAIN rm.node) /\ seen \subseteq DOMAIN rm.node
  BY DEF MapInv, Typed
<1>4. Len(stack) \in Nat /\ DOMAIN stack = 1..Len(stack) /\ Elements(stack) \subseteq DOMAIN rm.node
      /\ (stack # <<>> => stack[Len(stack)] \in Elements(stack))
  BY <1>3, ElementsIn, LenProperties
<1>5. stack # <<>> => Len(stack) # 0
  BY <1>3, EmptySeq, LenProperties
<1> QED BY <1>1, <1>2, <1>3, <1>4, <1>5 DEF Top

LEMMA SearchStarts == MapInv /\ JoinNode => SearchInv'
<1> SUFFICES ASSUME MapInv, JoinNode, pc' = "search" PROVE SearchInv'
  BY DEF SearchInv
<1>1. MapInv' /\ Len(rm'.node) = Len(rm.node)
  BY JoinNodeMap
<1>2. startNode' = startNode /\ goalNode' = goalNode
  BY <1>1 DEF startNode, goalNode
<1>3. stack' = <<startNode>> /\ seen' = {startNode}
  BY DEF JoinNode
<1>4. startNode # goalNode
  BY TreesFields, HeapTypes DEF MapInv, MapOK, startNode, goalNode
<1> DEFINE s == startNode
<1> HIDE DEF s
<1>5. \A x : Len(<<x>>) = 1 /\ <<x>>[1] = x /\ Elements(<<x>>) = {x}
  BY DEF Elements
<1>6. \A i \in 1..(Len(stack') - 1) : FALSE
  BY <1>3, <1>5
<1> QED BY <1>2, <1>3, <1>4, <1>5, <1>6 DEF SearchInv

LEMMA SearchDescends == MapInv /\ SearchInv /\ Descend => SearchInv'
<1> SUFFICES ASSUME MapInv, SearchInv, Descend PROVE SearchInv'
  OBVIOUS
<1>1. /\ pc = "search" /\ stack # <<>> /\ Top # goalNode /\ rm' = rm
  BY DEF Descend, Searching
<1>2. PICK y \in Elements(rm.node[Top].children) :
          y \notin seen /\ stack' = Append(stack, y) /\ seen' = seen \union {y}
  BY DEF Descend, Unvisited, Elements
<1>3. /\ stack \in Seq(DOMAIN rm.node) /\ Len(stack) \in Nat /\ Len(stack) # 0
      /\ DOMAIN stack = 1..Len(stack) /\ Top \in Elements(stack)
      /\ Elements(stack) \subseteq DOMAIN rm.node
  BY <1>1, SearchFields
<1>4. y \in DOMAIN rm.node
  <2>1. rm.node[Top].children \in Seq(DOMAIN rm.node)
    BY <1>3 DEF MapInv, MapOK, GoodHeap, LinksInside
  <2> QED BY <2>1, <1>2, ElementsIn
<1>5. /\ Len(stack') = Len(stack) + 1 /\ stack'[Len(stack) + 1] = y
      /\ \A i \in 1..Len(stack) : stack'[i] = stack[i]
      /\ Elements(stack') = Elements(stack) \union {y} /\ stack' # <<>>
  <2> DEFINE t == Append(stack, y)
  <2>1. /\ Len(t) = Len(stack) + 1 /\ t[Len(stack) + 1] = y
        /\ \A i \in 1..Len(stack) : t[i] = stack[i]
    <3>1. stack \in Seq(DOMAIN rm.node) BY <1>3
    <3> QED BY <3>1, <1>4, AppendProperties
  <2>2. Elements(t) = Elements(stack) \union {y} /\ t # <<>>
    <3>1. stack \in Seq(DOMAIN rm.node) BY <1>3
    <3> QED BY <3>1, <1>4, ElementsAppend
  <2> HIDE DEF t
  <2>3. stack' = t BY <1>2 DEF t
  <2> QED BY <2>1, <2>2, <2>3
<1>6. /\ startNode' = startNode /\ goalNode' = goalNode /\ Top' = y
  BY <1>1, <1>5 DEF startNode, goalNode, Top
<1>7. /\ stack[1] = startNode
      /\ \A i \in 1..(Len(stack) - 1) : stack[i + 1] \in Elements(rm.node[stack[i]].children)
      /\ startNode \in seen /\ Elements(stack) \subseteq seen
      /\ \A a \in seen \ Elements(stack) : Elements(rm.node[a].children) \subseteq seen
      /\ \A S \in SUBSET DOMAIN rm.node :
             startNode \in S /\ ChildClosed(rm.node, S) => seen \subseteq S
      /\ goalNode \notin seen
  BY <1>1 DEF SearchInv
<1>8. stack'[1] = startNode
  BY <1>3, <1>5, <1>7
<1>9. ASSUME NEW i \in 1..(Len(stack') - 1)
      PROVE  stack'[i + 1] \in Elements(rm.node[stack'[i]].children)
  <2>1. CASE i = Len(stack)
    <3>1. stack'[i] = Top /\ stack'[i + 1] = y BY <2>1, <1>3, <1>5 DEF Top
    <3> QED BY <3>1, <1>2
  <2>2. CASE i # Len(stack)
    <3>1. i \in 1..(Len(stack) - 1) /\ i \in 1..Len(stack) /\ i + 1 \in 1..Len(stack)
      <4>1. Len(stack') = Len(stack) + 1 BY <1>5
      <4>2. Len(stack) \in Nat BY <1>3
      <4> QED BY <2>2, <4>1, <4>2
    <3>2. stack'[i] = stack[i] /\ stack'[i + 1] = stack[i + 1] BY <3>1, <1>5
    <3> QED BY <3>1, <3>2, <1>7
  <2> QED BY <2>1, <2>2
<1>10. \A a \in seen' \ Elements(stack') : Elements(rm.node[a].children) \subseteq seen'
  BY <1>2, <1>5, <1>7
<1>11. ASSUME NEW S \in SUBSET DOMAIN rm.node, startNode \in S, ChildClosed(rm.node, S)
       PROVE  seen' \subseteq S
  <2>1. seen \subseteq S BY <1>7, <1>11
  <2>2. Top \in S BY <2>1, <1>3, <1>7
  <2>3. y \in S BY <2>2, <1>2, <1>11 DEF ChildClosed
  <2> QED BY <2>1, <2>3, <1>2
<1>12. goalNode \in seen' => y = goalNode
  BY <1>2, <1>7
<1>13. Elements(stack') \subseteq seen' /\ startNode \in seen'
  BY <1>2, <1>5, <1>7
<1> QED BY <1>1, <1>5, <1>6, <1>8, <1>9, <1>10, <1>11, <1>12, <1>13 DEF SearchInv

LEMMA SearchBacktracks == MapInv /\ SearchInv /\ Backtrack => SearchInv'
<1> SUFFICES ASSUME MapInv, SearchInv, Backtrack PROVE SearchInv'
  OBVIOUS
<1>1. /\ pc = "search" /\ stack # <<>> /\ Top # goalNode /\ rm' = rm /\ seen' = seen
  BY DEF Backtrack, Searching
<1>2. Elements(rm.node[Top].children) \subseteq seen
  BY DEF Backtrack, Unvisited, Elements
<1>3. /\ stack \in Seq(DOMAIN rm.node) /\ Len(stack) \in Nat /\ Len(stack) # 0
      /\ DOMAIN stack = 1..Len(stack)
  BY <1>1, SearchFields
<1>4. /\ Len(stack') = Len(stack) - 1 /\ Len(stack') \in Nat /\ DOMAIN stack' = 1..Len(stack')
      /\ \A i \in 1..Len(stack') : stack'[i] = stack[i]
      /\ stack' \in Seq(DOMAIN rm.node)
  <2> DEFINE k == Len(stack) - 1
             t == SubSeq(stack, 1, k)
  <2>1. k \in 0..Len(stack) BY <1>3
  <2>2. stack \in Seq(DOMAIN rm.node) BY <1>3
  <2>3. stack' = t BY DEF Backtrack
  <2> HIDE DEF k
  <2>4. t \in Seq(DOMAIN rm.node) /\ Len(t) = k /\ \A i \in 1..k : t[i] = stack[i]
    BY ZenonT(40), <2>1, <2>2, SubSeqParts
  <2> HIDE DEF t
  <2>5. DOMAIN t = 1..Len(t) BY <2>4, LenProperties
  <2>6. k = Len(stack) - 1 /\ k \in Nat BY <1>3 DEF k
  <2> QED BY <2>3, <2>4, <2>5, <2>6
<1>5. Elements(stack) = Elements(stack') \union {Top}
  <2>1. Elements(stack') \subseteq Elements(stack)
    BY <1>3, <1>4 DEF Elements
  <2>2. Top \in Elements(stack)
    BY <1>1, SearchFields
  <2>3. ASSUME NEW i \in 1..Len(stack) PROVE stack[i] \in Elements(stack') \union {Top}
    <3>1. CASE i = Len(stack) BY <3>1 DEF Top
    <3>2. CASE i # Len(stack)
      <4>1. i \in 1..Len(stack')
        <5>1. Len(stack') = Len(stack) - 1 BY <1>4
        <5>2. Len(stack) \in Nat BY <1>3
        <5> QED BY <3>2, <5>1, <5>2
      <4>2. i \in DOMAIN stack' /\ stack'[i] = stack[i] BY <4>1, <1>4
      <4> QED BY <4>2 DEF Elements
    <3> QED BY <3>1, <3>2
  <2>4. Elements(stack) \subseteq Elements(stack') \union {Top}
    BY <2>3, <1>3 DEF Elements
  <2> QED BY <2>1, <2>2, <2>4
<1>6. startNode' = startNode /\ goalNode' = goalNode
  BY <1>1 DEF startNode, goalNode
<1>7. /\ stack[1] = startNode
      /\ \A i \in 1..(Len(stack) - 1) : stack[i + 1] \in Elements(rm.node[stack[i]].children)
      /\ startNode \in seen /\ Elements(stack) \subseteq seen
      /\ \A a \in seen \ Elements(stack) : Elements(rm.node[a].children) \subseteq seen
      /\ \A S \in SUBSET DOMAIN rm.node :
             startNode \in S /\ ChildClosed(rm.node, S) => seen \subseteq S
      /\ goalNode \notin seen
  BY <1>1 DEF SearchInv
<1>8. stack' # <<>> => stack'[1] = startNode
  <2>1. stack' # <<>> => Len(stack') # 0 BY <1>4, EmptySeq, LenProperties
  <2> QED BY <2>1, <1>4, <1>7
<1>9. ASSUME NEW i \in 1..(Len(stack') - 1)
      PROVE  stack'[i + 1] \in Elements(rm.node[stack'[i]].children)
  <2>1. i \in 1..(Len(stack) - 1) /\ i \in 1..Len(stack') /\ i + 1 \in 1..Len(stack')
    BY <1>3, <1>4
  <2>2. stack'[i] = stack[i] /\ stack'[i + 1] = stack[i + 1] BY <2>1, <1>4
  <2> QED BY <2>1, <2>2, <1>7
<1>10. \A a \in seen \ Elements(stack') : Elements(rm.node[a].children) \subseteq seen
  BY <1>2, <1>5, <1>7
<1>11. Elements(stack') \subseteq seen
  BY <1>5, <1>7
<1> QED BY <1>1, <1>6, <1>7, <1>8, <1>9, <1>10, <1>11 DEF SearchInv

LEMMA SearchStep == MapInv /\ SearchInv /\ [Next]_vars => SearchInv'
<1> SUFFICES ASSUME MapInv, SearchInv, [Next]_vars PROVE SearchInv'
  OBVIOUS
<1>1. CASE pc = "search"
  <2>1. CASE StopPlanning \/ UNCHANGED vars
    <3>1. UNCHANGED <<request, rm, pc, locals>>
      <4>1. CASE StopPlanning
        BY <1>1, <4>1 DEF StopPlanning
      <4> QED BY <2>1, <4>1 DEF vars
    <3>2. UNCHANGED <<start, goal, rm, pc, seen, stack>>
      BY <3>1 DEF request, locals, walk
    <3> QED BY <3>2 DEF SearchInv, startNode, goalNode, Top
  <2>2. CASE SearchEnds
    BY <2>2 DEF SearchEnds, Return, SearchInv
  <2>3. CASE pc' = "raced"
    BY <2>3 DEF SearchInv
  <2> QED BY <1>1, <2>1, <2>2, <2>3, SearchSteps, SearchDescends, SearchBacktracks
<1>2. CASE pc # "search" /\ pc' = "search"
  <2>1. JoinNode
    <3> USE <1>2 DEF Working
    <3>1. ~Client
      BY DEF Client, StartAgain, StartCalc, Overlaps, StopPlanning, ClearRoadmap, OptimizeShortcut,
             OptimizeOverrun, OptimizeOver, OptimizeRandom
    <3>2. ~UNCHANGED vars
      BY DEF vars
    <3>3. ~(CalcPath \/ LinkNode \/ LinkPair \/ BuildAborted \/ AddEnds \/ Descend \/ Backtrack
              \/ SearchEnds)
      BY DEF CalcPath, LinkNode, LinkPair, BuildAborted, Building, Aborts, AddEnds, Descend,
             Backtrack, Searching, SearchEnds
    <3>4. ~(Connect \/ Extract \/ WalkUp \/ TurnRound \/ WalkDown \/ CalcEnds \/ Cut \/ CutEnds)
      BY DEF Connect, TrialEnds, Extract, WalkUp, TurnRound, WalkDown, CalcEnds, Return, Cut, CutEnds
    <3>5. ~ \E q \in Config : Sample(q) \/ Grow(q)
      BY DEF Sample, Building, Grow, TrialEnds
    <3>6. ~Raced
      BY DEF Raced, RacedCrash, RacedTurn, AtWork
    <3> QED BY <3>1, <3>2, <3>3, <3>4, <3>5, <3>6 DEF Next, Planner
  <2> QED BY <2>1, SearchStarts
<1>3. CASE pc' # "search"
  BY <1>3 DEF SearchInv
<1> QED BY <1>1, <1>2, <1>3

THEOREM SearchInvariant == Spec => []SearchInv
<1>1. Init => SearchInv
  BY DEF Init, SearchInv
<1> QED BY <1>1, MapInvariant, SearchStep, PTL DEF Spec

\* The depth-first search answers "no path" only when the road map, the two ends
\* joined to it, has none.
THEOREM SearchCompleteAlways == Spec => SearchComplete
<1>1. ASSUME MapInv, SearchInv, [Next]_vars, pc = "search", pc' = "idle"
      PROVE  (path' = <<>>) = ~Connected(rm.node, startNode, goalNode)
  <2>1. SearchEnds
    BY <1>1, SearchSteps DEF StopPlanning, Descend, Backtrack, vars
  <2>2. path' = [i \in DOMAIN stack |-> rm.node[stack[i]].pos] /\ (stack = <<>> \/ Top = goalNode)
    BY <2>1, <1>1 DEF SearchEnds, Searching
  <2>3. /\ stack \in Seq(DOMAIN rm.node) /\ Len(stack) \in Nat /\ DOMAIN stack = 1..Len(stack)
        /\ (stack # <<>> => Len(stack) # 0 /\ Top \in Elements(stack))
        /\ seen \subseteq DOMAIN rm.node
    BY <1>1, SearchFields
  <2>4. /\ startNode \in seen /\ Elements(stack) \subseteq seen
        /\ \A a \in seen \ Elements(stack) : Elements(rm.node[a].children) \subseteq seen
        /\ \A S \in SUBSET DOMAIN rm.node :
               startNode \in S /\ ChildClosed(rm.node, S) => seen \subseteq S
        /\ (goalNode \in seen => stack # <<>>)
    BY <1>1 DEF SearchInv
  <2>5. CASE stack = <<>>
    <3>1. path' = <<>> BY <2>2, <2>5
    <3>2. Elements(stack) = {} BY <2>5 DEF Elements
    <3>3. \A i \in seen : \A c \in DOMAIN rm.node[i].children : rm.node[i].children[c] \in seen
      BY <2>4, <3>2 DEF Elements
    <3>4. goalNode \notin seen BY <2>4, <2>5
    <3>5. ~Connected(rm.node, startNode, goalNode)
      BY <2>3, <2>4, <3>3, <3>4 DEF Connected
    <3> QED BY <3>1, <3>5
  <2>6. CASE stack # <<>>
    <3>1. path' # <<>>
      <4>1. 1 \in DOMAIN path' BY <2>2, <2>3, <2>6
      <4> QED BY <4>1
    <3>2. goalNode \in seen BY <2>2, <2>3, <2>4, <2>6
    <3>3. ASSUME NEW S \in SUBSET DOMAIN rm.node, startNode \in S,
                 \A i \in S : \A c \in DOMAIN rm.node[i].children : rm.node[i].children[c] \in S
          PROVE  goalNode \in S
      <4>1. ChildClosed(rm.node, S) BY <3>3 DEF ChildClosed, Elements
      <4> QED BY <4>1, <3>2, <3>3, <2>4
    <3>4. Connected(rm.node, startNode, goalNode)
      BY <3>3 DEF Connected
    <3> QED BY <3>1, <3>4
  <2> QED BY <2>5, <2>6
<1>2. MapInv /\ SearchInv /\ [Next]_vars
        => [pc = "search" /\ pc' = "idle" =>
              (path' = <<>>) = ~Connected(rm.node, startNode, goalNode)]_vars
  BY <1>1
<1> QED BY <1>2, MapInvariant, SearchInvariant, PTL DEF Spec, SearchComplete

\* A stop request that finds buildRoadmap() at work is lost only to another call's
\* preparePlanning().
THEOREM PRMStopsAlways == Spec => PRMStops
<1>1. ASSUME MapInv, StopInv, [Next]_vars, stopped, pc \in {"sample", "link", "pair"},
             pc' # "raced"
      PROVE  /\ ~running' /\ Len(rm'.node) = Len(rm.node)
             /\ pc = "pair" \/ (rm' = rm /\ pc' # "pair")
  <2>0. ~running BY <1>1 DEF StopInv
  <2>1. CASE StopPlanning
    BY <2>1, <1>1 DEF StopPlanning
  <2>2. CASE LinkNode
    BY <2>0, <2>2, <1>1 DEF LinkNode, Building
  <2>3. CASE LinkPair
    <3>1. MapInv' /\ DOMAIN rm'.node = DOMAIN rm.node
      BY <2>3, <1>1, LinkPairMap
    <3>2. rm.node \in Seq(Node) /\ rm'.node \in Seq(Node)
      BY <3>1, <1>1 DEF MapInv, MapOK, GoodHeap
    <3>3. Len(rm'.node) = Len(rm.node)
      BY <3>1, <3>2, LenProperties
    <3> QED BY <2>0, <3>3, <2>3, <1>1 DEF LinkPair, flags
  <2>4. CASE BuildAborted
    BY <2>0, <2>4, <1>1 DEF BuildAborted, Aborts, flags
  <2>5. CASE \E q \in Config : Sample(q)
    BY <2>0, <2>5, <1>1 DEF Sample, Building
  <2>6. CASE UNCHANGED vars
    BY <2>0, <2>6, <1>1 DEF vars, flags
  <2> QED BY <1>1, <2>1, <2>2, <2>3, <2>4, <2>5, <2>6, BuildSteps
<1>2. ASSUME StopInv, [Next]_vars, NEW i \in DOMAIN calls, calls[i].stopped
      PROVE  <<calls[i].at, calls'[i].at>> \notin {<<"sample", "link">>, <<"link", "pair">>}
  <2>0. ~running BY <1>2 DEF StopInv
  <2>1. CASE Raced
    <3>1. CASE RacedCrash
      <4>1. calls' = calls BY <3>1 DEF RacedCrash, flags
      <4> QED BY <4>1
    <3>2. ASSUME NEW k \in DOMAIN calls, RacedTurn(k)
          PROVE  <<calls[i].at, calls'[i].at>> \notin {<<"sample", "link">>, <<"link", "pair">>}
      <4>1. PICK next \in Turns[calls[k].at] : calls' = Turned(k, next)
        BY <3>2 DEF RacedTurn
      <4>2. calls'[i].at = IF i = k THEN next ELSE calls[i].at
        BY <1>2, <4>1 DEF Turned
      <4>3. calls[k].at \in {"sample", "link"} => next = "add"
        BY <2>0, <4>1 DEF Turns
      <4> QED BY <4>2, <4>3
    <3> QED BY <2>1, <3>1, <3>2 DEF Raced
  <2>2. calls \in Seq(Call) /\ DOMAIN calls = 1..Len(calls) /\ Len(calls) \in Nat
        /\ pc \in {"raced", "crashed"}
    <3>1. calls # <<>> BY <1>2
    <3> QED BY <1>2, <3>1, LenProperties DEF StopInv
  <2>3. CASE Client
    <3>1. ASSUME NEW others, NEW at \in {"called", "cut"}, Overlaps(others, at),
                 others \in {calls, Freed(calls)}
          PROVE  calls'[i].at \in {calls[i].at, "freed"}
      <4> DEFINE c == [at |-> at, stopped |-> FALSE]
      <4>1. calls' = Append(others, c) BY <3>1 DEF Overlaps
      <4>5. c \in Call BY DEF Call
      <4> HIDE DEF c
      <4>2. others \in Seq(Call) /\ Len(others) = Len(calls)
        BY <2>2, <3>1, FreedSeq
      <4>3. calls'[i] = others[i] BY <1>2, <2>2, <4>1, <4>2, <4>5, AppendProperties
      <4>4. Freed(calls)[i].at \in {calls[i].at, "freed"} BY <1>2, <2>2, FreedSeq
      <4> QED BY <3>1, <4>3, <4>4
    <3>2. ASSUME NEW a \in Algorithm, NEW m \in Mobility, NEW r \in Request, StartCalc(a, m, r)
          PROVE  calls'[i].at \in {calls[i].at, "freed"}
      <4>1. pc = "raced" BY <2>2, <3>2 DEF StartCalc, ClientIsFree, LeftBehind, Working
      <4>2. Overlaps(Freed(calls), "called") BY <3>2, <4>1 DEF StartCalc, UnderWay
      <4> QED BY <3>1, <4>2
    <3>3. ASSUME NEW r \in Request, StartAgain(r)
          PROVE  calls'[i].at \in {calls[i].at, "freed"}
      <4>1. pc = "raced" BY <2>2, <3>3 DEF StartAgain, ClientIsFree, LeftBehind, Working
      <4>2. Overlaps(calls, "called") BY <3>3, <4>1 DEF StartAgain, UnderWay
      <4> QED BY <3>1, <4>2
    <3>4. ASSUME StopPlanning
          PROVE  calls'[i].at \in {calls[i].at, "freed"}
      <4>1. calls' = Asked BY <2>2, <3>4 DEF StopPlanning, Working
      <4> QED BY <1>2, <2>2, <4>1, AskedSeq
    <3>5. ~OptimizeOver /\ ~ClearRoadmap /\ ~OptimizeShortcut /\ ~OptimizeOverrun
          /\ ~\E k, l \in DOMAIN path : OptimizeRandom(k, l)
      BY <2>2 DEF OptimizeOver, LeftBehind, Working, ClearRoadmap, OptimizeShortcut,
         OptimizeOverrun, OptimizeRandom
    <3>6. \/ \E a \in Algorithm, m \in Mobility, r \in Request : StartCalc(a, m, r)
          \/ (\E r \in Request : StartAgain(r)) \/ StopPlanning
      BY <2>3, <3>5 DEF Client
    <3>7. calls'[i].at \in {calls[i].at, "freed"}
      BY <3>2, <3>3, <3>4, <3>6
    <3> QED BY <3>7
  <2>4. ~Planner
    <3>1. ~CalcPath /\ ~LinkNode /\ ~LinkPair /\ ~BuildAborted /\ ~AddEnds /\ ~JoinNode
      BY <2>2 DEF CalcPath, LinkNode, LinkPair, BuildAborted, AddEnds, JoinNode, Building, Aborts
    <3>2. ~Descend /\ ~Backtrack /\ ~SearchEnds /\ ~Extract /\ ~WalkUp /\ ~TurnRound /\ ~WalkDown
      BY <2>2 DEF Descend, Backtrack, SearchEnds, Searching, Extract, WalkUp, TurnRound, WalkDown
    <3>3. ~Connect /\ ~CalcEnds /\ ~Cut /\ ~CutEnds
      BY <2>2 DEF Connect, CalcEnds, Cut, CutEnds
    <3>4. \A q \in Config : ~Sample(q)
      BY <2>2 DEF Sample, Building
    <3>5. \A q \in Config : ~Grow(q)
      BY <2>2 DEF Grow
    <3> QED BY <3>1, <3>2, <3>3, <3>4, <3>5 DEF Planner
  <2>5. CASE UNCHANGED vars
    <3>1. calls' = calls BY <2>5 DEF vars, flags
    <3> QED BY <3>1
  <2> QED BY <1>2, <2>1, <2>3, <2>4, <2>5 DEF Next
<1>3. MapInv /\ StopInv /\ [Next]_vars
        => [/\ stopped /\ pc \in {"sample", "link", "pair"} /\ pc' # "raced" =>
                  /\ ~running' /\ Len(rm'.node) = Len(rm.node)
                  /\ pc = "pair" \/ (rm' = rm /\ pc' # "pair")
            /\ \A i \in DOMAIN calls : calls[i].stopped =>
                  <<calls[i].at, calls'[i].at>>
                      \notin {<<"sample", "link">>, <<"link", "pair">>}]_vars
  BY <1>1, <1>2
<1> QED BY <1>3, MapInvariant, StopInvariant, PTL DEF Spec, PRMStops


-----------------------------------------------------------------------------
(* Paths *)

\* An edge is a motion, whichever of its ends one looks at.
LEMMA EdgeMotion ==
    ASSUME NEW m, NEW h, GoodHeap(m, h), NEW a \in DOMAIN h, NEW b \in DOMAIN h,
           b \in Elements(h[a].children) \/ a \in Elements(h[b].parents)
    PROVE  FreeMotion(m, h[a].pos, h[b].pos)
<1>1. /\ Count(h[a].children, b) = Count(h[b].parents, a)
      /\ Count(h[a].children, b) > 0 => FreeMotion(m, h[a].pos, h[b].pos)
  BY DEF GoodHeap, LinksAreMoves
<1>2. h[a].children \in Seq(Nat) /\ h[b].parents \in Seq(Nat)
  BY HeapTypes DEF GoodHeap
<1>3. Count(h[a].children, b) > 0 <=> b \in Elements(h[a].children)
  BY <1>2, CountElements
<1>4. Count(h[b].parents, a) > 0 <=> a \in Elements(h[b].parents)
  BY <1>2, CountElements
<1> QED BY <1>1, <1>3, <1>4

\* The first neighbour, or none.
LEMMA FirstNeighbour ==
    ASSUME NEW m, NEW h, GoodHeap(m, h), NEW a \in DOMAIN h, NEW S, Closed(h, S), a \in S
    PROVE  /\ 0 \notin DOMAIN h
           /\ First(h[a].parents) = 0 => h[a].parents = <<>>
           /\ First(h[a].children) = 0 => h[a].children = <<>>
           /\ First(h[a].parents) # 0 =>
                /\ First(h[a].parents) \in S
                /\ FreeMotion(m, h[First(h[a].parents)].pos, h[a].pos)
           /\ First(h[a].children) # 0 =>
                /\ First(h[a].children) \in S
                /\ FreeMotion(m, h[a].pos, h[First(h[a].children)].pos)
<1>1. /\ h[a].parents \in Seq(DOMAIN h) /\ h[a].children \in Seq(DOMAIN h)
      /\ h \in Seq(Node)
  BY DEF GoodHeap, LinksInside
<1>2. 0 \notin DOMAIN h BY <1>1, HeapTypes
<1>3. ASSUME NEW s \in Seq(DOMAIN h)
      PROVE  /\ First(s) = 0 => s = <<>>
             /\ First(s) # 0 => First(s) \in Elements(s) /\ First(s) \in DOMAIN h
  <2>1. s # <<>> => s[1] \in Elements(s) BY ElementsIn
  <2>2. Elements(s) \subseteq DOMAIN h BY ElementsIn
  <2>3. First(s) # 0 => First(s) \in Elements(s) BY ElementsIn
  <2> QED BY <2>1, <2>2, <2>3, <1>2 DEF First
<1>4. Elements(h[a].parents) \subseteq S /\ Elements(h[a].children) \subseteq S
  BY DEF Closed
<1>5. First(h[a].parents) # 0 => FreeMotion(m, h[First(h[a].parents)].pos, h[a].pos)
  BY <1>1, <1>3, EdgeMotion
<1>6. First(h[a].children) # 0 => FreeMotion(m, h[a].pos, h[First(h[a].children)].pos)
  BY <1>1, <1>3, EdgeMotion
<1>7. /\ First(h[a].parents) = 0 => h[a].parents = <<>>
      /\ First(h[a].parents) # 0 => First(h[a].parents) \in S
  BY <1>1, <1>3, <1>4
<1>8. /\ First(h[a].children) = 0 => h[a].children = <<>>
      /\ First(h[a].children) # 0 => First(h[a].children) \in S
  BY <1>1, <1>3, <1>4
<1> QED BY <1>2, <1>5, <1>6, <1>7, <1>8

LEMMA LeadsLong ==
    ASSUME NEW m, NEW p, NEW a, NEW b, Leads(m, p, a, b)
    PROVE  Len(p) \in Nat /\ Len(p) >= 1 /\ DOMAIN p = 1..Len(p) /\ \A i \in 1..Len(p) : p[i] \in Config
BY LenProperties, EmptySeq, ElementOfSeq DEF Leads

LEMMA LeadsOne ==
    ASSUME NEW m, NEW a \in Config
    PROVE  Leads(m, <<a>>, a, a) /\ Leads(m, Append(<<>>, a), a, a)
<1>1. /\ <<a>> \in Seq(Config) /\ Len(<<a>>) = 1 /\ <<a>>[1] = a /\ <<a>> # <<>>
      /\ Append(<<>>, a) = <<a>>
  OBVIOUS
<1>2. \A i \in 1..(Len(<<a>>) - 1) : FALSE BY <1>1
<1> QED BY <1>1, <1>2 DEF Leads

LEMMA LeadsFromFurther ==
    ASSUME NEW m, NEW p, NEW a, NEW b, Leads(m, p, a, b), NEW c \in Config, FreeMotion(m, c, a)
    PROVE  Leads(m, <<c>> \o p, c, b)
<1> DEFINE s == <<c>>
           t == s \o p
<1>1. p \in Seq(Config) /\ Len(p) \in Nat /\ Len(p) >= 1 /\ p[1] = a /\ p[Len(p)] = b
  BY LeadsLong DEF Leads
<1>2. s \in Seq(Config) /\ Len(s) = 1 /\ s[1] = c
  OBVIOUS
<1>3. /\ t \in Seq(Config) /\ Len(t) = Len(s) + Len(p)
      /\ \A i \in 1..Len(s) : t[i] = s[i]
      /\ \A i \in 1..Len(p) : t[Len(s) + i] = p[i]
  <2>1. s \in Seq(Config) /\ p \in Seq(Config) BY <1>1
  <2> HIDE DEF s
  <2> QED BY <2>1, ConcatParts
<1> HIDE DEF s, t
<1>4. t[1] = c /\ \A i \in 1..Len(p) : t[1 + i] = p[i]
  BY <1>2, <1>3
<1>5. Len(t) = 1 + Len(p) BY <1>2, <1>3
<1>6. t[Len(t)] = b
  <2>1. Len(p) \in 1..Len(p) BY <1>1
  <2> QED BY <2>1, <1>1, <1>4, <1>5
<1>7. ASSUME NEW i \in 1..(Len(t) - 1) PROVE FreeMotion(m, t[i], t[i + 1])
  <2>1. CASE i = 1
    <3>1. 1 \in 1..Len(p) BY <1>1
    <3>2. t[i] = c /\ t[i + 1] = p[1] BY <2>1, <3>1, <1>4
    <3> QED BY <3>2, <1>1
  <2>2. CASE i # 1
    <3>1. i - 1 \in 1..(Len(p) - 1) /\ i - 1 \in 1..Len(p) /\ i \in 1..Len(p)
          /\ 1 + (i - 1) = i /\ 1 + i = i + 1 /\ (i - 1) + 1 = i
      BY <2>2, <1>1, <1>5
    <3>2. t[i] = p[i - 1] /\ t[i + 1] = p[i] BY <3>1, <1>4
    <3>3. FreeMotion(m, p[i - 1], p[(i - 1) + 1]) BY <3>1 DEF Leads
    <3> QED BY <3>1, <3>2, <3>3
  <2> QED BY <2>1, <2>2
<1>8. t # <<>>
  <2>1. Len(t) # 0 BY <1>1, <1>5
  <2> QED BY <2>1
<1> QED BY <1>3, <1>4, <1>6, <1>7, <1>8 DEF Leads, t, s

LEMMA LeadsFurther ==
    ASSUME NEW m, NEW p, NEW a, NEW b, Leads(m, p, a, b), NEW c \in Config, FreeMotion(m, b, c)
    PROVE  Leads(m, Append(p, c), a, c)
<1> DEFINE t == Append(p, c)
<1>1. p \in Seq(Config) /\ Len(p) \in Nat /\ Len(p) >= 1 /\ p[1] = a /\ p[Len(p)] = b
  BY LeadsLong DEF Leads
<1>2. /\ t \in Seq(Config) /\ Len(t) = Len(p) + 1 /\ t[Len(p) + 1] = c /\ t # <<>>
      /\ \A i \in 1..Len(p) : t[i] = p[i]
  <2>1. p \in Seq(Config) BY <1>1
  <2> QED BY <2>1, AppendProperties
<1> HIDE DEF t
<1>3. t[1] = a /\ t[Len(t)] = c
  <2>1. 1 \in 1..Len(p) BY <1>1
  <2> QED BY <2>1, <1>1, <1>2
<1>4. ASSUME NEW i \in 1..(Len(t) - 1) PROVE FreeMotion(m, t[i], t[i + 1])
  <2>0. Len(t) - 1 = Len(p)
    <3>1. Len(t) = Len(p) + 1 /\ Len(p) \in Nat BY <1>1, <1>2
    <3> QED BY <3>1
  <2>1. CASE i = Len(p)
    <3>1. Len(p) \in 1..Len(p) BY <1>1
    <3>2. t[i] = b /\ t[i + 1] = c BY <2>1, <3>1, <1>1, <1>2
    <3> QED BY <3>2
  <2>2. CASE i # Len(p)
    <3>1. i \in 1..(Len(p) - 1) /\ i \in 1..Len(p) /\ i + 1 \in 1..Len(p)
      BY <2>2, <1>1, <2>0
    <3>2. t[i] = p[i] /\ t[i + 1] = p[i + 1] BY <3>1, <1>2
    <3>3. FreeMotion(m, p[i], p[i + 1]) BY <3>1 DEF Leads
    <3> QED BY <3>2, <3>3
  <2> QED BY <2>1, <2>2
<1> QED BY <1>2, <1>3, <1>4 DEF Leads, t

\* A point of a motion that is left out because its neighbours reach one another.
LEMMA LeadsErased ==
    ASSUME NEW m \in Mobility, NEW p, NEW a, NEW b, Leads(m, p, a, b),
           NEW i \in 2..(Len(p) - 1), isReachable(m, p[i - 1], p[i + 1])
    PROVE  Leads(m, Erase(p, i), a, b)
<1> DEFINE t == Erase(p, i)
<1>1. p \in Seq(Config) /\ Len(p) \in Nat /\ Len(p) >= 3 /\ p[1] = a /\ p[Len(p)] = b
      /\ \A k \in 1..Len(p) : p[k] \in Config
  <2>1. p \in Seq(Config) /\ Len(p) \in Nat /\ p[1] = a /\ p[Len(p)] = b
        /\ \A k \in 1..Len(p) : p[k] \in Config
    BY LeadsLong DEF Leads
  <2> QED BY <2>1
<1>2. /\ i - 1 \in 1..Len(p) /\ i \in 1..Len(p) /\ i + 1 \in 1..Len(p)
      /\ i - 1 \in 1..(Len(p) - 1) /\ i \in 1..(Len(p) - 1) /\ (i - 1) + 1 = i
  BY <1>1
<1>3. FreeMotion(m, p[i - 1], p[i]) /\ FreeMotion(m, p[i], p[i + 1])
  <2>1. FreeMotion(m, p[i - 1], p[(i - 1) + 1]) /\ FreeMotion(m, p[i], p[i + 1])
    BY <1>2 DEF Leads
  <2> QED BY <1>2, <2>1
<1>4. FreeMotion(m, p[i - 1], p[i + 1])
  <2>1. p[i - 1] \in Config /\ p[i] \in Config /\ p[i + 1] \in Config
    BY <1>1, <1>2
  <2>2. p[i - 1] \notin Blocked /\ p[i + 1] \notin Blocked
    BY <1>3, <2>1, FreeEnds
  <2> QED BY <2>1, <2>2, ReachableIsFree
<1>5. /\ t \in Seq(Config) /\ Len(t) = Len(p) - 1
      /\ \A k \in 1..(i - 1) : t[k] = p[k]
      /\ \A k \in i..(Len(p) - 1) : t[k] = p[k + 1]
  <2>1. p \in Seq(Config) BY <1>1
  <2> QED BY <2>1, EraseType
<1> HIDE DEF t
<1>6. t[1] = a /\ t[Len(t)] = b
  <2>1. 1 \in 1..(i - 1) /\ Len(p) - 1 \in i..(Len(p) - 1) /\ (Len(p) - 1) + 1 = Len(p)
    BY <1>1
  <2>2. t[1] = p[1] /\ t[Len(p) - 1] = p[(Len(p) - 1) + 1] BY <2>1, <1>5
  <2> QED BY <2>1, <2>2, <1>1, <1>5
<1>7. ASSUME NEW k \in 1..(Len(t) - 1) PROVE FreeMotion(m, t[k], t[k + 1])
  <2>0. k \in 1..(Len(p) - 2)
    <3>1. Len(t) = Len(p) - 1 /\ Len(p) \in Nat BY <1>1, <1>5
    <3> QED BY <3>1
  <2>1. CASE k < i - 1
    <3>1. k \in 1..(i - 1) /\ k + 1 \in 1..(i - 1) /\ k \in 1..(Len(p) - 1) BY <2>0, <2>1, <1>1
    <3>2. t[k] = p[k] /\ t[k + 1] = p[k + 1] BY <3>1, <1>5
    <3>3. FreeMotion(m, p[k], p[k + 1]) BY <3>1 DEF Leads
    <3> QED BY <3>2, <3>3
  <2>2. CASE k = i - 1
    <3>1. k \in 1..(i - 1) /\ k + 1 \in i..(Len(p) - 1) /\ k + 1 = i BY <2>0, <2>2, <1>1
    <3>2. t[k] = p[k] /\ t[k + 1] = p[(k + 1) + 1] BY <3>1, <1>5
    <3> QED BY <3>1, <3>2, <2>2, <1>4
  <2>3. CASE k > i - 1
    <3>1. k \in i..(Len(p) - 1) /\ k + 1 \in i..(Len(p) - 1) /\ k + 1 \in 1..(Len(p) - 1)
      BY <2>0, <2>3, <1>1
    <3>2. t[k] = p[k + 1] /\ t[k + 1] = p[(k + 1) + 1] BY <3>1, <1>5
    <3>3. FreeMotion(m, p[k + 1], p[(k + 1) + 1]) BY <3>1 DEF Leads
    <3> QED BY <3>2, <3>3
  <2>4. k < i - 1 \/ k = i - 1 \/ k > i - 1 BY <2>0
  <2> QED BY <2>1, <2>2, <2>3, <2>4
<1>8. t # <<>>
  <2>1. Len(t) # 0 BY <1>1, <1>5
  <2> QED BY <2>1
<1> QED BY <1>5, <1>6, <1>7, <1>8 DEF Leads, t

\* Two points of two of its legs that reach one another.
LEMMA LeadsJoined ==
    ASSUME Divisible, NEW m \in Mobility, NEW p, NEW a, NEW b, Leads(m, p, a, b),
           NEW i \in Nat, NEW k \in Nat, i >= 1, i < k, k < Len(p),
           NEW c \in Points(m, p[i], p[i + 1]), NEW d \in Points(m, p[k], p[k + 1]),
           isReachable(m, c, d)
    PROVE  Leads(m, Joined(p, i, k, c, d), a, b)
<1> DEFINE t == Joined(p, i, k, c, d)
<1>1. p \in Seq(Config) /\ Len(p) \in Nat /\ p[1] = a /\ p[Len(p)] = b
      /\ \A l \in 1..Len(p) : p[l] \in Config
  BY LeadsLong DEF Leads
<1>2. /\ i \in 1..(Len(p) - 1) /\ k \in 1..(Len(p) - 1)
      /\ i \in 1..Len(p) /\ i + 1 \in 1..Len(p) /\ k \in 1..Len(p) /\ k + 1 \in 1..Len(p)
  BY <1>1
<1>3. FreeMotion(m, p[i], p[i + 1]) /\ FreeMotion(m, p[k], p[k + 1])
  BY <1>2 DEF Leads
<1>4. p[i] \in Config /\ p[i + 1] \in Config /\ p[k] \in Config /\ p[k + 1] \in Config
  BY <1>1, <1>2
<1>5. c \in Config /\ d \in Config
  <2>1. \A x, y \in Config : Points(m, x, y) \subseteq Config BY MobilityAssumption
  <2> QED BY <1>4, <2>1
<1>6. c \notin Blocked /\ d \notin Blocked
  BY <1>3 DEF FreeMotion
<1>7. FreeMotion(m, p[i], c) /\ FreeMotion(m, d, p[k + 1])
  <2>1. Points(m, p[i], c) \subseteq Points(m, p[i], p[i + 1])
    BY <1>4 DEF Divisible
  <2>2. Points(m, d, p[k + 1]) \subseteq Points(m, p[k], p[k + 1])
    BY <1>4 DEF Divisible
  <2> QED BY <1>3, <2>1, <2>2 DEF FreeMotion
<1>8. FreeMotion(m, c, d)
  BY <1>5, <1>6, ReachableIsFree
<1>9. /\ t \in Seq(Config) /\ Len(t) = i + 2 + (Len(p) - k)
      /\ \A l \in 1..i : t[l] = p[l]
      /\ t[i + 1] = c /\ t[i + 2] = d
      /\ \A l \in 1..(Len(p) - k) : t[(i + 2) + l] = p[k + l]
  <2>1. p \in Seq(Config) BY <1>1
  <2>2. c \in Config /\ d \in Config BY <1>5
  <2>3. HasShortcut(p, i, k, c, d, t)
    BY <2>1, <2>2, RandomShortcutType
  <2> HIDE DEF t
  <2> QED BY <2>3 DEF HasShortcut
<1> HIDE DEF t
<1>10. t[1] = a /\ t[Len(t)] = b
  <2>1. 1 \in 1..i /\ Len(p) - k \in 1..(Len(p) - k) /\ k + (Len(p) - k) = Len(p)
        /\ (i + 2) + (Len(p) - k) = i + 2 + (Len(p) - k)
    BY <1>1
  <2>2. t[1] = p[1] /\ t[(i + 2) + (Len(p) - k)] = p[k + (Len(p) - k)] BY <2>1, <1>9
  <2> QED BY <2>1, <2>2, <1>1, <1>9
<1>11. ASSUME NEW l \in 1..(Len(t) - 1) PROVE FreeMotion(m, t[l], t[l + 1])
  <2>0. l \in Nat /\ l >= 1 /\ l <= i + 1 + (Len(p) - k)
    <3>1. Len(t) = i + 2 + (Len(p) - k) /\ Len(p) \in Nat BY <1>1, <1>9
    <3> QED BY <3>1
  <2>1. CASE l < i
    <3>1. l \in 1..i /\ l + 1 \in 1..i /\ l \in 1..(Len(p) - 1) BY <2>0, <2>1, <1>1
    <3>2. t[l] = p[l] /\ t[l + 1] = p[l + 1] BY <3>1, <1>9
    <3>3. FreeMotion(m, p[l], p[l + 1]) BY <3>1 DEF Leads
    <3> QED BY <3>2, <3>3
  <2>2. CASE l = i
    <3>1. t[i] = p[i] /\ t[i + 1] = c BY <1>9
    <3> QED BY <3>1, <2>2, <1>7
  <2>3. CASE l = i + 1
    <3>1. (i + 1) + 1 = i + 2 OBVIOUS
    <3>2. t[l] = c /\ t[l + 1] = d BY <2>3, <3>1, <1>9
    <3> QED BY <3>2, <1>8
  <2>4. CASE l = i + 2
    <3>1. 1 \in 1..(Len(p) - k) /\ l + 1 = (i + 2) + 1 BY <2>4, <1>1
    <3>2. t[l] = d /\ t[(i + 2) + 1] = p[k + 1] BY <3>1, <2>4, <1>9
    <3> QED BY <3>1, <3>2, <1>7
  <2>5. CASE l > i + 2
    <3> DEFINE v == l - (i + 2)
    <3>1. /\ v \in 1..(Len(p) - k) /\ v + 1 \in 1..(Len(p) - k) /\ k + v \in 1..(Len(p) - 1)
          /\ (i + 2) + v = l /\ (i + 2) + (v + 1) = l + 1 /\ k + (v + 1) = (k + v) + 1
      BY <2>0, <2>5, <1>1
    <3> HIDE DEF v
    <3>2. t[(i + 2) + v] = p[k + v] /\ t[(i + 2) + (v + 1)] = p[k + (v + 1)] BY <3>1, <1>9
    <3>3. FreeMotion(m, p[k + v], p[(k + v) + 1]) BY <3>1 DEF Leads
    <3> QED BY <3>1, <3>2, <3>3
  <2>6. l < i \/ l = i \/ l = i + 1 \/ l = i + 2 \/ l > i + 2 BY <2>0
  <2> QED BY <2>1, <2>2, <2>3, <2>4, <2>5, <2>6
<1>12. t # <<>>
  <2>1. Len(t) # 0
    <3>1. Len(t) = i + 2 + (Len(p) - k) BY <1>9
    <3> QED BY <3>1, <1>1
  <2> QED BY <2>1
<1> QED BY <1>9, <1>10, <1>11, <1>12 DEF Leads, t


-----------------------------------------------------------------------------
(* The invariant of the paths is one *)

\* While a planning is at work, there is no path to fetch.
LEMMA NoPathYet == MapInv /\ pc \in Working => PathOK
BY DEF MapInv, EndsFree, PathOK

LEMMA ClientPath ==
    ASSUME TreesRebuilt, Divisible \/ MaxPath < 3, MapInv, MapInv', PathInv, Client
    PROVE  PathInv'
<1> USE DEF request, flags, walk, locals, PRMWork, RRTWork, Working
<1>1. RootsOK /\ Met /\ ExtractOK /\ CutOK /\ PathOK
  BY DEF PathInv
<1>0. ASSUME NEW others, NEW at, Overlaps(others, at)
      PROVE  PathInv'
  BY <1>0 DEF Overlaps, PathInv, RootsOK, Met, ExtractOK, CutOK, PathOK
<1>20. ASSUME NEW a \in Algorithm, NEW m \in Mobility, NEW r \in Request, StartCalc(a, m, r),
              pc # "idle"
       PROVE  PathInv'
  BY <1>0, <1>20 DEF StartCalc
<1>30. ASSUME NEW r \in Request, StartAgain(r), pc # "idle"
       PROVE  PathInv'
  BY <1>0, <1>30 DEF StartAgain
<1>31. CASE OptimizeOver
  BY <1>0, <1>31 DEF OptimizeOver
<1>2. ASSUME NEW a \in Algorithm, NEW m \in Mobility, NEW r \in Request, StartCalc(a, m, r),
             pc = "idle"
      PROVE  PathInv'
  BY <1>2 DEF StartCalc, PathInv, RootsOK, Met, ExtractOK, CutOK, PathOK, NoRoadmap
<1>3. ASSUME NEW r \in Request, StartAgain(r), pc = "idle"
      PROVE  PathInv'
  <2>1. alg \in {"PRM", "none"}
    BY <1>3, PlannerAssumption DEF StartAgain, TreesRebuilt, MapInv, Typed
  <2>2. pc' \in {"called", "crashed"} /\ (pc' = "called" => alg' = "PRM")
        /\ (pc' = "crashed" => alg = "none") /\ path' = path
    BY <1>3, <2>1 DEF StartAgain
  <2>3. alg = "none" => path = <<>>
    BY DEF MapInv, NamesOK
  <2> QED
    BY <2>2, <2>3 DEF PathInv, RootsOK, Met, ExtractOK, CutOK, PathOK
<1>4. CASE StopPlanning
  BY <1>1, <1>4 DEF StopPlanning, PathInv, RootsOK, Met, ExtractOK, CutOK, PathOK, lastAddedNode, Both
<1>5. CASE ClearRoadmap
  BY <1>1, <1>5 DEF ClearRoadmap, PathInv, RootsOK, Met, ExtractOK, CutOK, PathOK
<1>6. CASE OptimizeShortcut
  <2>1. path # <<>> BY <1>6 DEF OptimizeShortcut
  <2> QED
    BY <1>1, <1>6, <2>1 DEF OptimizeShortcut, PathInv, RootsOK, Met, ExtractOK, CutOK, PathOK
<1>7. CASE OptimizeOverrun
  BY <1>1, <1>7 DEF OptimizeOverrun, PathInv, RootsOK, Met, ExtractOK, CutOK, PathOK
<1>8. ASSUME NEW i \in DOMAIN path, NEW k \in DOMAIN path, OptimizeRandom(i, k)
      PROVE  PathInv'
  <2>1. /\ pc = "idle" /\ pc' = "idle" /\ path # <<>> /\ i < k /\ k < Len(path)
        /\ Len(path) \in 3..MaxPath /\ mob' = mob /\ start' = start /\ goal' = goal
    BY <1>8 DEF OptimizeRandom
  <2>2. PICK c \in Points(mob, path[i], path[i + 1]), d \in Points(mob, path[k], path[k + 1]) :
          isReachable(mob, c, d) /\ path' = Joined(path, i, k, c, d)
    BY <1>8 DEF OptimizeRandom, Joined
  <2>3. /\ Leads(mob, path, start, goal) /\ mob \in Mobility
        /\ path \in Seq(Config) /\ Len(path) \in Nat /\ DOMAIN path = 1..Len(path)
    BY <1>1, <2>1, LenProperties DEF PathOK, MapInv, NamesOK, Typed
  <2>4. Divisible
    <3>1. MaxPath < 3 => FALSE
      <4>1. MaxPath \in Int /\ 3 <= MaxPath
        <5>1. MaxPath \in Int BY PlannerAssumption
        <5> QED BY <2>1, <5>1
      <4> QED BY <4>1
    <3> QED BY <3>1
  <2>5. i \in Nat /\ k \in Nat /\ i >= 1
    BY <2>3
  <2>6. Leads(mob, Joined(path, i, k, c, d), start, goal)
    <3>1. isReachable(mob, c, d) BY <2>2
    <3>2. i < k /\ k < Len(path) BY <2>1
    <3>3. Leads(mob, path, start, goal) /\ mob \in Mobility BY <2>3
    <3> QED BY <2>4, <2>5, <3>1, <3>2, <3>3, LeadsJoined
  <2>7. PathOK'
    BY <2>1, <2>2, <2>6 DEF PathOK
  <2> QED
    BY <2>1, <2>7 DEF PathInv, RootsOK, Met, ExtractOK, CutOK
<1> QED
  BY <1>2, <1>20, <1>3, <1>30, <1>31, <1>4, <1>5, <1>6, <1>7, <1>8 DEF Client

LEMMA CalcPathPath ==
    ASSUME MapInv, MapInv', PathInv, CalcPath
    PROVE  PathInv'
<1> USE DEF request, flags, walk, locals, PRMWork, RRTWork, Working
<1>1. /\ Typed /\ NamesOK /\ ListsOK /\ MapOK(mob, rm) /\ pc = "called" /\ RootsOK
      /\ mob \in Mobility /\ found = <<>>
  BY DEF MapInv, NamesOK, Typed, PathInv, CalcPath
<1>2. CASE PrepareFails
  <2>1. path' = <<>> /\ pc' = "idle" BY <1>2 DEF CalcPath
  <2> QED BY <2>1 DEF PathInv, RootsOK, Met, ExtractOK, CutOK, PathOK
<1>3. CASE ~PrepareFails /\ isReachable(mob, start, goal)
  <2>1. path' = <<start, goal>> /\ pc' = "idle" /\ mob' = mob /\ start' = start /\ goal' = goal
    BY <1>3 DEF CalcPath
  <2>2. start \in Config /\ goal \in Config /\ start \notin Blocked /\ goal \notin Blocked
    BY <1>1, <1>3 DEF Typed, PrepareFails
  <2>3. FreeMotion(mob, start, goal)
    BY <1>1, <1>3, <2>2, ReachableIsFree
  <2>4. Leads(mob, <<start, goal>>, start, goal)
    <3>1. ASSUME NEW a \in Config, NEW b \in Config
          PROVE  /\ <<a, b>> \in Seq(Config) /\ <<a, b>> # <<>> /\ Len(<<a, b>>) = 2
                 /\ <<a, b>>[1] = a /\ <<a, b>>[2] = b
      OBVIOUS
    <3>2. \A i \in 1..(Len(<<start, goal>>) - 1) : i = 1
      BY <2>2, <3>1
    <3>3. <<start, goal>>[1 + 1] = goal BY <2>2, <3>1
    <3> QED BY <2>2, <2>3, <3>1, <3>2, <3>3 DEF Leads
  <2>5. PathOK' BY <2>1, <2>4 DEF PathOK
  <2> QED BY <2>1, <2>5 DEF PathInv, RootsOK, Met, ExtractOK, CutOK
<1>4. CASE ~PrepareFails /\ ~isReachable(mob, start, goal) /\ alg = "PRM"
  <2>1. path' = <<>> /\ pc' \in {"sample", "add"} BY <1>4 DEF CalcPath
  <2> QED BY <2>1 DEF PathInv, RootsOK, Met, ExtractOK, CutOK, PathOK
<1>5. CASE ~PrepareFails /\ ~isReachable(mob, start, goal) /\ alg # "PRM"
  <2>1. /\ path' = <<>> /\ pc' = "grow" /\ rm' = PlantTrees(rm)
        /\ mob' = mob /\ start' = start /\ goal' = goal /\ found' = found
    BY <1>5 DEF CalcPath
  <2>2. rm.start = <<>> /\ rm.goal = <<>>
    BY <1>1, <1>5 DEF RootsOK, ListsOK
  <2>3. /\ rm.node \in Seq(Node) /\ NewNode(start) \in Node /\ NewNode(goal) \in Node
        /\ Len(rm.node) \in Nat
    <3>1. <<>> \in Seq(Nat) BY EmptySeq
    <3> QED BY <1>1, <3>1, TreesFields, LenProperties DEF MapOK, NewNode, Node, Typed
  <2> DEFINE h == rm.node
             k == Len(h)
             g == h \o <<NewNode(start), NewNode(goal)>>
  <2>4. g[k + 1] = NewNode(start) /\ g[k + 2] = NewNode(goal)
    <3> DEFINE x == NewNode(start)
               y == NewNode(goal)
    <3>1. h \in Seq(Node) /\ x \in Node /\ y \in Node BY <2>3
    <3>2. g = Append(Append(h, x), y) BY <3>1, ConcatTwo
    <3> HIDE DEF x, y, g
    <3>3. /\ Append(h, x) \in Seq(Node) /\ Len(Append(h, x)) = k + 1 /\ Append(h, x)[k + 1] = x
      BY <3>1, AppendProperties
    <3> DEFINE u == Append(h, x)
    <3>4. /\ u \in Seq(Node) /\ Len(u) = k + 1 /\ u[k + 1] = x BY <3>3
    <3> HIDE DEF u
    <3>5. /\ \A i \in 1..Len(u) : Append(u, y)[i] = u[i]
          /\ Append(u, y)[Len(u) + 1] = y
      <4>1. u \in Seq(Node) BY <3>4
      <4> QED BY <3>1, <4>1, AppendProperties
    <3>6. Len(u) \in 1..Len(u) /\ k + 1 = Len(u) /\ k + 2 = Len(u) + 1
      BY <3>4, <2>3
    <3>7. Append(u, y)[k + 1] = x /\ Append(u, y)[k + 2] = y
      BY <3>4, <3>5, <3>6
    <3> QED BY <3>2, <3>7 DEF u, x, y
  <2>5. /\ rm'.node = g /\ Elements(rm'.start) = {k + 1} /\ Elements(rm'.goal) = {k + 2}
    <3>1. rm'.node = g /\ rm'.start = Append(<<>>, k + 1) /\ rm'.goal = Append(<<>>, k + 2)
      BY <2>1, <2>2 DEF PlantTrees
    <3>2. ASSUME NEW x \in Nat PROVE Elements(Append(<<>>, x)) = {x}
      <4>1. Append(<<>>, x) = <<x>> OBVIOUS
      <4>2. DOMAIN <<x>> = {1} /\ <<x>>[1] = x OBVIOUS
      <4> QED BY <4>1, <4>2 DEF Elements
    <3>3. k + 1 \in Nat /\ k + 2 \in Nat BY <2>3
    <3> QED BY <3>1, <3>2, <3>3
  <2>6. NewNode(start).pos = start /\ NewNode(goal).pos = goal BY DEF NewNode
  <2> HIDE DEF g, k
  <2>7. RootsOK'
    BY <2>1, <2>4, <2>5, <2>6 DEF RootsOK
  <2> QED BY <1>1, <2>1, <2>7 DEF PathInv, Met, ExtractOK, CutOK, PathOK
<1> QED BY <1>2, <1>3, <1>4, <1>5

LEMMA PRMPath ==
    ASSUME MapInv, MapInv', PathInv,
           LinkNode \/ LinkPair \/ BuildAborted \/ AddEnds \/ JoinNode \/ Descend \/ Backtrack
             \/ \E q \in Config : Sample(q)
    PROVE  PathInv'
<1>1. pc' \in PRMWork
  BY DEF LinkNode, LinkPair, BuildAborted, AddEnds, JoinNode, Descend, Backtrack, Sample,
         Building, Searching, PRMWork
<1>2. path' = <<>>
  BY <1>1 DEF MapInv, EndsFree, PRMWork, Working
<1> QED
  BY <1>1, <1>2 DEF PathInv, RootsOK, Met, ExtractOK, CutOK, PathOK, PRMWork, RRTWork

LEMMA SearchEndsPath ==
    ASSUME MapInv, SearchInv, SearchEnds
    PROVE  PathInv'
<1>1. /\ pc = "search" /\ (stack = <<>> \/ Top = goalNode) /\ pc' = "idle"
      /\ path' = [i \in DOMAIN stack |-> rm.node[stack[i]].pos]
      /\ mob' = mob /\ start' = start /\ goal' = goal
  BY DEF SearchEnds, Searching, Return, request
<1>2. /\ stack \in Seq(DOMAIN rm.node) /\ Len(stack) \in Nat /\ DOMAIN stack = 1..Len(stack)
      /\ (stack # <<>> => Len(stack) # 0)
      /\ Elements(stack) \subseteq DOMAIN rm.node /\ rm.node \in Seq(Node)
  BY <1>1, SearchFields
<1>3. GoodHeap(mob, rm.node) /\ rm.node[startNode].pos = start /\ rm.node[goalNode].pos = goal
  BY <1>1 DEF MapInv, MapOK, EndsJoined
<1> DEFINE h == rm.node
           p == [i \in 1..Len(stack) |-> h[stack[i]].pos]
<1>4. path' = p BY <1>1, <1>2
<1>5. CASE stack = <<>>
  <2>1. path' = <<>> BY <1>1, <1>5
  <2> QED BY <1>1, <2>1 DEF PathInv, RootsOK, Met, ExtractOK, CutOK, PathOK, RRTWork
<1>6. CASE stack # <<>>
  <2>1. Len(stack) >= 1 /\ stack[1] = startNode /\ stack[Len(stack)] = goalNode
    BY <1>1, <1>2, <1>6 DEF SearchInv, Top
  <2>2. \A i \in 1..Len(stack) : stack[i] \in DOMAIN h
    BY <1>2 DEF Elements
  <2>3. \A i \in 1..(Len(stack) - 1) : stack[i + 1] \in Elements(h[stack[i]].children)
    BY <1>1 DEF SearchInv
  <2>4. \A i \in 1..Len(stack) : h[stack[i]].pos \in Config
    BY <1>2, <2>2, HeapTypes
  <2>5. p \in Seq(Config) /\ Len(p) = Len(stack)
    BY <1>2, <2>4
  <2>6. \A i \in 1..Len(stack) : p[i] = h[stack[i]].pos
    OBVIOUS
  <2> HIDE DEF p, h
  <2>7. p[1] = start /\ p[Len(p)] = goal
    <3>1. 1 \in 1..Len(stack) /\ Len(stack) \in 1..Len(stack) BY <1>2, <2>1
    <3> QED BY <1>3, <2>1, <2>5, <2>6, <3>1 DEF h
  <2>8. ASSUME NEW i \in 1..(Len(p) - 1) PROVE FreeMotion(mob, p[i], p[i + 1])
    <3>1. i \in 1..(Len(stack) - 1) /\ i \in 1..Len(stack) /\ i + 1 \in 1..Len(stack)
      BY <1>2, <2>5
    <3>2. /\ stack[i] \in DOMAIN h /\ stack[i + 1] \in DOMAIN h
          /\ stack[i + 1] \in Elements(h[stack[i]].children)
      BY <3>1, <2>2, <2>3
    <3>3. GoodHeap(mob, h) BY <1>3 DEF h
    <3>4. FreeMotion(mob, h[stack[i]].pos, h[stack[i + 1]].pos)
      BY <3>2, <3>3, EdgeMotion
    <3> QED BY <3>1, <3>4, <2>6
  <2>9. p # <<>>
    <3>1. Len(p) # 0 BY <2>1, <2>5, <1>2
    <3> QED BY <3>1
  <2>10. Leads(mob, p, start, goal)
    BY <2>5, <2>7, <2>8, <2>9 DEF Leads
  <2>11. PathOK' BY <1>1, <1>4, <2>10 DEF PathOK
  <2> QED BY <1>1, <2>11 DEF PathInv, RootsOK, Met, ExtractOK, CutOK, RRTWork
<1> QED BY <1>5, <1>6

\* Growing a tree leaves its root the only node without a parent, or child.
LEMMA GrownRoots ==
    ASSUME MapInv, RootsOK, pc \in {"grow", "connect"}, NEW t \in {"start", "goal"},
           rm' = rm \/ \E k : Grown(rm', t, k),
           pc' \in RRTWork, UNCHANGED request
    PROVE  RootsOK'
<1>1. /\ \A a \in Elements(rm.start) : rm.node[a].parents = <<>> => rm.node[a].pos = start
      /\ \A a \in Elements(rm.goal) : rm.node[a].children = <<>> => rm.node[a].pos = goal
      /\ start' = start /\ goal' = goal /\ pc' # "called"
  BY DEF RootsOK, RRTWork, request
<1>2. /\ Elements(rm.start) \subseteq DOMAIN rm.node /\ Elements(rm.goal) \subseteq DOMAIN rm.node
      /\ rm.start \in Seq(Nat) /\ rm.goal \in Seq(Nat)
  BY TreesFields DEF MapInv, MapOK
<1>3. CASE rm' = rm
  <2>1. /\ \A a \in Elements(rm'.start) : rm'.node[a].parents = <<>> => rm'.node[a].pos = start
        /\ \A a \in Elements(rm'.goal) : rm'.node[a].children = <<>> => rm'.node[a].pos = goal
    BY <1>1, <1>3
  <2> QED BY <1>1, <2>1 DEF RootsOK
<1>4. ASSUME NEW k, Grown(rm', t, k) PROVE RootsOK'
  <2>1. k \in Nat BY <1>4 DEF Grown
  <2>2. /\ Elements(Append(rm.start, k)) = Elements(rm.start) \union {k}
        /\ Elements(Append(rm.goal, k)) = Elements(rm.goal) \union {k}
    <3>1. ASSUME NEW s \in Seq(Nat), NEW x \in Nat
          PROVE  Elements(Append(s, x)) = Elements(s) \union {x}
      BY ElementsAppend
    <3> QED BY <1>2, <2>1, <3>1
  <2>3. ASSUME NEW a \in Elements(rm'.start), rm'.node[a].parents = <<>>
        PROVE  rm'.node[a].pos = start
    <3>1. a \in Elements(rm.start)
      <4>1. CASE t = "start" BY <4>1, <1>4, <2>2, <2>3 DEF Grown
      <4>2. CASE t # "start" BY <4>2, <1>4, <2>3 DEF Grown
      <4> QED BY <4>1, <4>2
    <3> QED BY <3>1, <1>1, <1>2, <1>4, <2>3 DEF Grown
  <2>4. ASSUME NEW a \in Elements(rm'.goal), rm'.node[a].children = <<>>
        PROVE  rm'.node[a].pos = goal
    <3>1. a \in Elements(rm.goal)
      <4>1. CASE t = "goal" BY <4>1, <1>4, <2>2, <2>4 DEF Grown
      <4>2. CASE t # "goal" BY <4>2, <1>4, <2>4 DEF Grown
      <4> QED BY <4>1, <4>2
    <3> QED BY <3>1, <1>1, <1>2, <1>4, <2>4 DEF Grown
  <2> QED BY <1>1, <2>3, <2>4 DEF RootsOK
<1> QED BY <1>3, <1>4

LEMMA GrowPath ==
    ASSUME MapInv, MapInv', PathInv, NEW q \in Config, Grow(q)
    PROVE  PathInv'
<1>1. pc = "grow" /\ mob \in Mobility /\ MapOK(mob, rm) /\ Typed /\ Ta \in {"start", "goal"}
  BY TreeNames DEF Grow, MapInv
<1>2. PICK ret : Extend(Ta, q, ret)
  BY DEF Grow
<1>3. rm' = rm \/ \E k : Grown(rm', Ta, k)
  BY <1>1, <1>2, ExtendEffect
<1>4. /\ pc' \in {"grow", "connect", "extract"} /\ UNCHANGED request /\ found' = <<>>
      /\ (pc' = "extract" => ~ok')
  BY <1>1 DEF Grow, TrialEnds, walk, Typed
<1>5. RootsOK'
  BY <1>1, <1>3, <1>4, GrownRoots DEF PathInv, RRTWork
<1>6. PathOK'
  BY <1>4 DEF MapInv, EndsFree, PathOK, Working
<1> QED BY <1>4, <1>5, <1>6 DEF PathInv, Met, ExtractOK, CutOK

LEMMA LastOfAppend ==
    ASSUME NEW s \in Seq(Nat), NEW x \in Nat
    PROVE  Append(s, x)[Len(Append(s, x))] = x
<1>1. /\ Len(s) \in Nat /\ Len(Append(s, x)) = Len(s) + 1 /\ Append(s, x)[Len(s) + 1] = x
  BY AppendProperties
<1> QED BY <1>1

\* connect() arrives: both trees, or the start tree and the goal, have met.
LEMMA ConnectMeets ==
    ASSUME MapInv, pc = "connect", UNCHANGED request,
           NEW q, q = IF Both THEN rm.node[lastAddedNode(Ta)].pos ELSE goal,
           NEW k, Grown(rm', Tb, k), rm'.node[k].pos = q
    PROVE  Met'
<1>1. /\ Ta \in {"start", "goal"} /\ Tb \in {"start", "goal"}
      /\ (Both => Ta # Tb) /\ (~Both => Tb = "start")
      /\ lastAddedNode(Ta) \in DOMAIN rm.node
  BY TreeNames
<1>2. /\ rm["start"] = rm.start /\ rm["goal"] = rm.goal
      /\ rm.start \in Seq(Nat) /\ rm.goal \in Seq(Nat)
      /\ rm'["start"] = rm'.start /\ rm'["goal"] = rm'.goal
  BY TreesFields DEF MapInv, MapOK, Grown
<1>3. k \in Nat BY DEF Grown
<1>4. /\ Append(rm.start, k)[Len(Append(rm.start, k))] = k
      /\ Append(rm.goal, k)[Len(Append(rm.goal, k))] = k
  BY <1>2, <1>3, LastOfAppend
<1>5. Tb = "start" => rm'.start[Len(rm'.start)] = k /\ rm'.goal = rm.goal
  BY <1>4 DEF Grown
<1>6. Tb = "goal" => rm'.goal[Len(rm'.goal)] = k /\ rm'.start = rm.start
  BY <1>4 DEF Grown
<1>7. rm'.node[lastAddedNode(Ta)].pos = rm.node[lastAddedNode(Ta)].pos
  BY <1>1 DEF Grown
<1>8. goal' = goal /\ Both' = Both BY DEF request, Both
<1> DEFINE s == rm'.start[Len(rm'.start)]
           g == rm'.goal[Len(rm'.goal)]
<1>9. CASE ~Both
  <2>1. rm'.node[s].pos = goal BY <1>1, <1>5, <1>9
  <2> QED BY <2>1, <1>2, <1>8, <1>9 DEF Met, lastAddedNode
<1>10. CASE Both /\ Tb = "start"
  <2>1. Ta = "goal" BY <1>1, <1>10
  <2>2. lastAddedNode(Ta) = g BY <2>1, <1>2, <1>5, <1>10 DEF lastAddedNode
  <2>3. rm'.node[s].pos = rm'.node[g].pos BY <2>2, <1>5, <1>7, <1>10
  <2> QED BY <2>3, <1>2, <1>8, <1>10 DEF Met, lastAddedNode
<1>11. CASE Both /\ Tb = "goal"
  <2>1. Ta = "start" BY <1>1, <1>11
  <2>2. lastAddedNode(Ta) = s BY <2>1, <1>2, <1>6, <1>11 DEF lastAddedNode
  <2>3. rm'.node[s].pos = rm'.node[g].pos BY <2>2, <1>6, <1>7, <1>11
  <2> QED BY <2>3, <1>2, <1>8, <1>11 DEF Met, lastAddedNode
<1> QED BY <1>1, <1>9, <1>10, <1>11

LEMMA ConnectPath ==
    ASSUME MapInv, MapInv', PathInv, Connect
    PROVE  PathInv'
<1> DEFINE q == IF Both THEN rm.node[lastAddedNode(Ta)].pos ELSE goal
<1>1. /\ pc = "connect" /\ mob \in Mobility /\ MapOK(mob, rm) /\ Typed
      /\ Tb \in {"start", "goal"} /\ q \in Config
  <2>1. pc = "connect" BY DEF Connect
  <2>2. goal \in Config BY DEF MapInv, Typed
  <2> QED BY <2>1, <2>2, TreeNames DEF MapInv
<1>2. PICK ret : /\ Extend(Tb, q, ret)
                 /\ \/ UNCHANGED <<pc, n, ok, swapped>>
                    \/ TrialEnds(ret = "Reached")
  BY DEF Connect
<1> HIDE DEF q
<1>3. \/ ret = "Trapped" /\ rm' = rm
      \/ /\ ret \in {"Reached", "Advanced"}
         /\ \E k : Grown(rm', Tb, k) /\ (ret = "Reached" => rm'.node[k].pos = q)
  BY <1>1, <1>2, ExtendEffect
<1>4. /\ pc' \in {"grow", "connect", "extract"} /\ UNCHANGED request /\ found' = <<>>
      /\ (pc' = "extract" /\ ok' => ret = "Reached")
  <2>1. UNCHANGED request /\ found' = found /\ found = <<>>
    BY <1>1 DEF Connect, walk, Typed
  <2> QED BY <1>1, <1>2, <2>1 DEF TrialEnds
<1>5. RootsOK'
  BY <1>1, <1>3, <1>4, GrownRoots DEF PathInv, RRTWork
<1>6. PathOK'
  BY <1>4 DEF MapInv, EndsFree, PathOK, Working
<1>7. Met'
  <2>1. CASE ret = "Reached"
    <3>1. PICK k : Grown(rm', Tb, k) /\ rm'.node[k].pos = q
      BY <1>3, <2>1
    <3> QED BY <1>1, <1>4, <3>1, ConnectMeets DEF q
  <2>2. CASE ret # "Reached"
    BY <1>4, <2>2 DEF Met
  <2> QED BY <2>1, <2>2
<1> QED BY <1>4, <1>5, <1>6, <1>7 DEF PathInv, ExtractOK, CutOK

\* extractPath() walks up the start tree to its root,
LEMMA WalkUpPath ==
    ASSUME MapInv, MapInv', PathInv, WalkUp
    PROVE  PathInv'
<1> DEFINE h == rm.node
           on == First(h[j].parents)
           e == h[lastAddedNode("start")].pos
           p == <<h[j].pos>> \o found
<1>1. /\ pc = "up" /\ pc' = "up" /\ j # 0 /\ j' = on /\ found' = p
      /\ UNCHANGED request /\ rm' = rm /\ ok' = ok /\ path' = path
  BY DEF WalkUp, flags
<1>2. /\ mob' = mob /\ start' = start /\ goal' = goal /\ alg' = alg
  BY <1>1 DEF request
<1>3. /\ j \in Elements(rm.start) /\ Closed(h, Elements(rm.start)) /\ GoodHeap(mob, h)
      /\ Elements(rm.start) \subseteq DOMAIN h /\ rm.start # <<>>
      /\ h[j].parents = <<>> => h[j].pos = start
      /\ found \in Seq(Config) /\ h \in Seq(Node)
  BY <1>1, TreesFields DEF PathInv, ExtractOK, MapInv, MapOK, RootsOK, RRTWork, ListsOK, Typed
<1>4. j \in DOMAIN h /\ h[j].pos \in Config
  BY <1>3, HeapTypes
<1>5. /\ on = 0 => h[j].pos = start
      /\ on # 0 => on \in Elements(rm.start) /\ FreeMotion(mob, h[on].pos, h[j].pos)
  BY <1>3, <1>4, FirstNeighbour
<1>6. Leads(mob, p, h[j].pos, e)
  <2>1. CASE found = <<>>
    <3>1. j = lastAddedNode("start")
      BY <1>1, <2>1 DEF PathInv, ExtractOK
    <3>2. p = <<h[j].pos>>
      <4>1. ASSUME NEW c \in Config PROVE <<c>> \o <<>> = <<c>>
        OBVIOUS
      <4> QED BY <4>1, <1>4, <2>1
    <3> QED BY <1>4, <3>1, <3>2, LeadsOne
  <2>2. CASE found # <<>>
    <3>1. Leads(mob, found, found[1], e) /\ FreeMotion(mob, h[j].pos, found[1])
      BY <1>1, <2>2 DEF PathInv, ExtractOK
    <3> QED BY <1>4, <3>1, LeadsFromFurther
  <2> QED BY <2>1, <2>2
<1>7. p # <<>> /\ p[1] = h[j].pos
  BY <1>6 DEF Leads
<1> HIDE DEF p, on, e, h
<1>8. ExtractOK'
  BY <1>1, <1>2, <1>5, <1>6, <1>7 DEF ExtractOK, h, e, lastAddedNode
<1>9. RootsOK' /\ Met'
  BY <1>1, <1>2 DEF PathInv, RootsOK, Met, Both, lastAddedNode
<1>10. PathOK'
  BY <1>1 DEF MapInv, EndsFree, PathOK, Working
<1> QED BY <1>1, <1>8, <1>9, <1>10 DEF PathInv, CutOK

\* turns round at its root to where the goal tree was met,
LEMMA TurnRoundPath ==
    ASSUME MapInv, MapInv', PathInv, TurnRound
    PROVE  PathInv'
<1> DEFINE h == rm.node
           g == lastAddedNode("goal")
           on == First(h[g].children)
<1>1. /\ pc = "up" /\ j = 0 /\ Both /\ pc' = (IF on = 0 THEN "crashed" ELSE "down")
      /\ j' = on /\ found' = found
      /\ UNCHANGED request /\ rm' = rm /\ ok' = ok /\ path' = path
  BY DEF TurnRound, flags, walk
<1>2. /\ mob' = mob /\ start' = start /\ goal' = goal /\ alg' = alg
  BY <1>1 DEF request
<1>3. /\ GoodHeap(mob, h) /\ Closed(h, Elements(rm.goal)) /\ Elements(rm.goal) \subseteq DOMAIN h
      /\ rm.goal # <<>> /\ rm.goal \in Seq(Nat) /\ rm.start # <<>> /\ rm.start \in Seq(Nat)
      /\ Elements(rm.start) \subseteq DOMAIN h /\ h \in Seq(Node)
      /\ rm["start"] = rm.start /\ rm["goal"] = rm.goal /\ path = <<>>
  BY <1>1, TreesFields DEF MapInv, MapOK, RRTWork, ListsOK, EndsFree, Working
<1>4. g \in Elements(rm.goal) /\ lastAddedNode("start") \in Elements(rm.start)
  <2>1. /\ rm.goal[Len(rm.goal)] \in Elements(rm.goal)
        /\ rm.start[Len(rm.start)] \in Elements(rm.start)
    BY <1>3, ElementsIn
  <2> QED BY <2>1, <1>3 DEF lastAddedNode
<1>5. /\ 0 \notin DOMAIN h
      /\ on # 0 => on \in Elements(rm.goal) /\ FreeMotion(mob, h[g].pos, h[on].pos)
  BY <1>3, <1>4, FirstNeighbour
<1>6. found # <<>>
  <2>1. lastAddedNode("start") # 0 BY <1>3, <1>4, <1>5
  <2> QED BY <1>1, <2>1 DEF PathInv, ExtractOK
<1>7. /\ found[1] = start /\ Leads(mob, found, start, found[Len(found)])
      /\ ok => found[Len(found)] = h[g].pos
  <2>1. found[1] = start /\ Leads(mob, found, found[1], h[lastAddedNode("start")].pos)
    BY <1>1, <1>6 DEF PathInv, ExtractOK
  <2>2. found[Len(found)] = h[lastAddedNode("start")].pos
    BY <2>1 DEF Leads
  <2>3. ok => h[lastAddedNode("start")].pos = h[g].pos
    BY <1>1 DEF PathInv, Met
  <2> QED BY <2>1, <2>2, <2>3
<1>8. CASE on = 0
  BY <1>1, <1>3, <1>8 DEF PathInv, RootsOK, Met, ExtractOK, CutOK, PathOK, RRTWork
<1>9. CASE on # 0
  <2>1. pc' = "down" BY <1>1, <1>9
  <2>2. ok => FreeMotion(mob, found[Len(found)], h[on].pos) BY <1>5, <1>7, <1>9
  <2>3. Both' BY <1>1, <1>2 DEF Both
  <2> HIDE DEF on
  <2>4. ExtractOK'
    BY <1>1, <1>2, <1>5, <1>7, <1>9, <2>1, <2>2, <2>3 DEF ExtractOK
  <2>5. RootsOK' /\ Met'
    BY <1>1, <1>2, <2>1 DEF PathInv, RootsOK, Met, Both, lastAddedNode, RRTWork
  <2>6. PathOK' BY <1>1, <1>3 DEF PathOK
  <2> QED BY <2>1, <2>4, <2>5, <2>6 DEF PathInv, CutOK
<1> QED BY <1>8, <1>9

\* and walks down the goal tree to its own.
LEMMA WalkDownPath ==
    ASSUME MapInv, MapInv', PathInv, WalkDown
    PROVE  PathInv'
<1> DEFINE h == rm.node
           on == First(h[j].children)
           p == Append(found, h[j].pos)
<1>1. /\ pc = "down" /\ pc' = "down" /\ j # 0 /\ j' = on /\ found' = p
      /\ UNCHANGED request /\ rm' = rm /\ ok' = ok /\ path' = path
  BY DEF WalkDown, flags
<1>2. /\ mob' = mob /\ start' = start /\ goal' = goal /\ alg' = alg
  BY <1>1 DEF request
<1>3. /\ j \in Elements(rm.goal) /\ Closed(h, Elements(rm.goal)) /\ GoodHeap(mob, h)
      /\ Elements(rm.goal) \subseteq DOMAIN h /\ Both
      /\ h[j].children = <<>> => h[j].pos = goal
      /\ found \in Seq(Config) /\ h \in Seq(Node)
  BY <1>1, TreesFields DEF PathInv, ExtractOK, MapInv, MapOK, RootsOK, RRTWork, Typed
<1>4. j \in DOMAIN h /\ h[j].pos \in Config
  BY <1>3, HeapTypes
<1>5. /\ on = 0 => h[j].pos = goal
      /\ on # 0 => on \in Elements(rm.goal) /\ FreeMotion(mob, h[j].pos, h[on].pos)
  BY <1>3, <1>4, FirstNeighbour
<1>6. ok => Leads(mob, p, start, h[j].pos)
  <2>1. ok => /\ Leads(mob, found, start, found[Len(found)])
              /\ FreeMotion(mob, found[Len(found)], h[j].pos)
    BY <1>1 DEF PathInv, ExtractOK
  <2> QED BY <1>4, <2>1, LeadsFurther
<1>7. ok => p[Len(p)] = h[j].pos
  BY <1>6 DEF Leads
<1>8. Both' BY <1>2, <1>3 DEF Both
<1> HIDE DEF p, on, h
<1>9. ExtractOK'
  BY <1>1, <1>2, <1>5, <1>6, <1>7, <1>8 DEF ExtractOK, h
<1>10. RootsOK' /\ Met'
  BY <1>1, <1>2 DEF PathInv, RootsOK, Met, Both, lastAddedNode
<1>11. PathOK'
  BY <1>1 DEF MapInv, EndsFree, PathOK, Working
<1> QED BY <1>1, <1>9, <1>10, <1>11 DEF PathInv, CutOK

LEMMA RRTPath ==
    ASSUME MapInv, MapInv', PathInv, Extract \/ CalcEnds
    PROVE  PathInv'
<1>1. CASE Extract
  <2>1. /\ pc = "extract" /\ pc' = "up" /\ j' = lastAddedNode("start") /\ found' = found
        /\ UNCHANGED request /\ rm' = rm /\ ok' = ok /\ found = <<>>
    BY <1>1 DEF Extract, flags, walk, MapInv, Typed
  <2>2. /\ mob' = mob /\ start' = start /\ goal' = goal /\ alg' = alg
    BY <2>1 DEF request
  <2>3. lastAddedNode("start") \in Elements(rm.start)
    <3>1. rm.start \in Seq(Nat) /\ rm.start # <<>> /\ rm["start"] = rm.start
      BY <2>1, TreesFields DEF MapInv, MapOK, ListsOK, RRTWork
    <3>2. rm.start[Len(rm.start)] \in Elements(rm.start)
      BY <3>1, ElementsIn
    <3> QED BY <3>1, <3>2 DEF lastAddedNode
  <2>4. ExtractOK'
    BY <2>1, <2>3 DEF ExtractOK, lastAddedNode
  <2>5. RootsOK' /\ Met'
    BY <2>1, <2>2 DEF PathInv, RootsOK, Met, Both, lastAddedNode, RRTWork
  <2>6. PathOK'
    BY <2>1 DEF MapInv, EndsFree, PathOK, Working
  <2> QED BY <2>1, <2>4, <2>5, <2>6 DEF PathInv, CutOK
<1>2. CASE CalcEnds
  <2>1. /\ pc = (IF Both THEN "down" ELSE "up") /\ j = 0 /\ pc' = "idle"
        /\ path' = (IF ok THEN found ELSE path) /\ UNCHANGED request
    BY <1>2 DEF CalcEnds, Return
  <2>2. /\ mob' = mob /\ start' = start /\ goal' = goal
    BY <2>1 DEF request
  <2>3. path = <<>>
    BY <2>1 DEF MapInv, EndsFree, Working
  <2>4. ok /\ found # <<>> => Leads(mob, found, start, goal)
    <3>1. CASE Both
      <4>1. ok => Leads(mob, found, start, found[Len(found)]) /\ found[Len(found)] = goal
        BY <2>1, <3>1 DEF PathInv, ExtractOK
      <4> QED BY <4>1
    <3>2. CASE ~Both
      <4>1. ok => rm.node[lastAddedNode("start")].pos = goal
        BY <2>1, <3>2 DEF PathInv, Met
      <4>2. found # <<>> => /\ found[1] = start
                            /\ Leads(mob, found, found[1], rm.node[lastAddedNode("start")].pos)
        BY <2>1, <3>2 DEF PathInv, ExtractOK
      <4> QED BY <4>1, <4>2
    <3> QED BY <3>1, <3>2
  <2>5. PathOK'
    BY <2>1, <2>2, <2>3, <2>4 DEF PathOK
  <2> QED
    BY <2>1, <2>5 DEF PathInv, RootsOK, Met, ExtractOK, CutOK, RRTWork
<1> QED BY <1>1, <1>2

LEMMA OptimizerPath ==
    ASSUME MapInv, PathInv, Cut \/ CutEnds
    PROVE  PathInv'
<1>1. pc = "cut" /\ Leads(mob, found, start, goal) /\ PathOK
  BY DEF Cut, CutEnds, PathInv, CutOK
<1>2. CASE Cut
  <2>1. /\ pc' = "cut" /\ path' = path /\ j # Len(found) /\ UNCHANGED request
        /\ \/ isReachable(mob, found[j - 1], found[j + 1]) /\ found' = Erase(found, j)
           \/ found' = found
    BY <1>2 DEF Cut, flags
  <2>2. /\ mob' = mob /\ start' = start /\ goal' = goal
    BY <2>1 DEF request
  <2>3. mob \in Mobility
    BY <1>1 DEF MapInv, NamesOK
  <2>4. j \in 2..(Len(found) - 1)
    <3>1. j \in 2..Len(found) BY <1>1 DEF MapInv, LoopsOK
    <3>2. Len(found) \in Nat BY <1>1, LeadsLong
    <3> QED BY <2>1, <3>1, <3>2
  <2>5. Leads(mob, found', start, goal)
    <3>1. CASE found' = found BY <1>1, <3>1
    <3>2. CASE isReachable(mob, found[j - 1], found[j + 1]) /\ found' = Erase(found, j)
      <4>1. Leads(mob, Erase(found, j), start, goal)
        BY <1>1, <2>3, <2>4, <3>2, LeadsErased
      <4> QED BY <3>2, <4>1
    <3> QED BY <2>1, <3>1, <3>2
  <2>6. CutOK' BY <2>2, <2>5 DEF CutOK
  <2>7. PathOK' BY <1>1, <2>1, <2>2 DEF PathOK
  <2> QED BY <2>1, <2>6, <2>7 DEF PathInv, RootsOK, Met, ExtractOK, RRTWork
<1>3. CASE CutEnds
  <2>1. pc' = "idle" /\ path' = found /\ UNCHANGED request
    BY <1>3 DEF CutEnds, Return
  <2>2. /\ mob' = mob /\ start' = start /\ goal' = goal
    BY <2>1 DEF request
  <2>3. PathOK' BY <1>1, <2>1, <2>2 DEF PathOK
  <2> QED BY <2>1, <2>3 DEF PathInv, RootsOK, Met, ExtractOK, CutOK, RRTWork
<1> QED BY <1>2, <1>3

LEMMA PathStep ==
    ASSUME TreesRebuilt, Divisible \/ MaxPath < 3
    PROVE  MapInv /\ SearchInv /\ PathInv /\ [Next]_vars => PathInv'
<1> SUFFICES ASSUME MapInv, SearchInv, PathInv, [Next]_vars PROVE PathInv'
  OBVIOUS
<1>1. MapInv' BY MapStep
<1>2. CASE UNCHANGED vars
  BY <1>2 DEF PathInv, RootsOK, Met, ExtractOK, CutOK, PathOK, Both, lastAddedNode,
              vars, request, flags, locals, walk
<1>3. CASE Client BY <1>1, <1>3, ClientPath
<1>4. CASE Planner
  <2>1. CASE CalcPath BY <1>1, <2>1, CalcPathPath
  <2>2. CASE \/ LinkNode \/ LinkPair \/ BuildAborted \/ AddEnds \/ JoinNode \/ Descend \/ Backtrack
             \/ \E q \in Config : Sample(q)
    BY <1>1, <2>2, PRMPath
  <2>3. CASE SearchEnds BY <2>3, SearchEndsPath
  <2>4. CASE \E q \in Config : Grow(q) BY <1>1, <2>4, GrowPath
  <2>5. CASE Connect BY <1>1, <2>5, ConnectPath
  <2>6. CASE Extract \/ CalcEnds BY <1>1, <2>6, RRTPath
  <2>7. CASE WalkUp BY <1>1, <2>7, WalkUpPath
  <2>8. CASE TurnRound BY <1>1, <2>8, TurnRoundPath
  <2>9. CASE WalkDown BY <1>1, <2>9, WalkDownPath
  <2>10. CASE Cut \/ CutEnds BY <2>10, OptimizerPath
  <2> QED BY <1>4, <2>1, <2>2, <2>3, <2>4, <2>5, <2>6, <2>7, <2>8, <2>9, <2>10 DEF Planner
<1>5. CASE Raced
  <2>1. pc' \in {"raced", "crashed"} /\ path' = path /\ pc = "raced"
        /\ start' = start /\ goal' = goal /\ mob' = mob
    BY <1>5 DEF Raced, RacedCrash, RacedTurn, AtWork, request
  <2> QED
    BY <2>1 DEF PathInv, RootsOK, Met, ExtractOK, CutOK, PathOK, RRTWork
<1> QED BY <1>2, <1>3, <1>4, <1>5 DEF Next

LEMMA PathInitial == Init => PathInv
BY DEF Init, PathInv, RootsOK, Met, ExtractOK, CutOK, PathOK, RRTWork

\* The invariant of the paths, where the client rebuilds the trees of RRT (their
\* roots are the ends of this planning) and no random shortcut is taken but where
\* motions can be divided.
THEOREM PathInvariant ==
    ASSUME TreesRebuilt, Divisible \/ MaxPath < 3
    PROVE  Spec => []PathInv
<1>1. MapInv /\ SearchInv /\ PathInv /\ [Next]_vars => PathInv'
  BY PathStep
<1> QED BY <1>1, PathInitial, MapInvariant, SearchInvariant, PTL DEF Spec

\* What the client fetches (PathPlanner::getPath()) leads from start to goal, free
\* of collision, after any number of plannings, stop requests and optimize().
THEOREM PathIsMotionAlways ==
    ASSUME TreesRebuilt, Divisible \/ MaxPath < 3
    PROVE  Spec => []PathIsMotion
<1>1. PathInv => PathIsMotion
  BY DEF PathInv, PathOK, Leads, PathIsMotion
<1> QED BY <1>1, PathInvariant, PTL

=============================================================================
