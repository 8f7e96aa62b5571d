------------------------ MODULE ClockGeneratorProofs ------------------------
(* Proofs that ClockGenerator's invariants hold for any set of execution   *)
(* contexts, any periods, step and total time, and any number of           *)
(* subscriptions.                                                          *)
EXTENDS ClockGenerator, TLAPS

-----------------------------------------------------------------------------
(* What Vector.remove(Object) returns.                                     *)

\* RemoveElem either changes nothing, because the element is not there, or
\* closes the gap at one position p: it keeps what is before p and shifts what
\* is behind p one place to the front.
LEMMA RemoveElemShape ==
    ASSUME NEW S, NEW v \in Seq(S), NEW id
    PROVE  \/ RemoveElem(v, id) = v /\ \A k \in 1..Len(v) : v[k] # id
           \/ \E p \in 1..Len(v) :
                 /\ v[p] = id
                 /\ RemoveElem(v, id) \in Seq(S)
                 /\ Len(RemoveElem(v, id)) = Len(v) - 1
                 /\ \A k \in 1..(Len(v) - 1) :
                       RemoveElem(v, id)[k] = IF k < p THEN v[k] ELSE v[k + 1]
<1>1. DOMAIN v = 1..Len(v) /\ Len(v) \in Nat
  OBVIOUS
<1>2. CASE \A k \in 1..Len(v) : v[k] # id
  <2>1. RemoveElem(v, id) = v
    BY <1>1, <1>2 DEF RemoveElem
  <2> QED BY <2>1, <1>2
<1>3. CASE \E k \in 1..Len(v) : v[k] = id
  <2> DEFINE p == CHOOSE k \in DOMAIN v : v[k] = id
             r == [k \in 1..(Len(v) - 1) |->
                      IF k < p THEN v[k] ELSE v[k + 1]]
  <2>1. p \in 1..Len(v) /\ v[p] = id
    BY <1>1, <1>3
  <2>2. RemoveElem(v, id) = r
    BY <1>1, <1>3 DEF RemoveElem
  <2> HIDE DEF p
  <2>3. \A k \in 1..(Len(v) - 1) : r[k] \in S
    BY <1>1, <2>1
  <2>4. r \in Seq(S) /\ Len(r) = Len(v) - 1
    <3>1. Len(v) - 1 \in Nat
      BY <1>1, <2>1
    <3>2. r \in [1..(Len(v) - 1) -> S]
      BY <2>3
    <3> QED BY <3>1, <3>2
  <2>5. \A k \in 1..(Len(v) - 1) : r[k] = IF k < p THEN v[k] ELSE v[k + 1]
    OBVIOUS
  <2> HIDE DEF r
  <2> QED BY <2>1, <2>2, <2>4, <2>5
<1> QED BY <1>2, <1>3

\* So its result is a sequence over the same set.
LEMMA RemoveElemType ==
    ASSUME NEW S, NEW v \in Seq(S), NEW id
    PROVE  RemoveElem(v, id) \in Seq(S)
  BY RemoveElemShape

\* Every entry left was there before, at the same position or one behind it.
LEMMA RemoveElemFrom ==
    ASSUME NEW S, NEW v \in Seq(S), NEW id,
           NEW j \in 1..Len(RemoveElem(v, id))
    PROVE  \E k \in 1..Len(v) :
              v[k] = RemoveElem(v, id)[j] /\ j <= k /\ k <= j + 1
<1>1. CASE RemoveElem(v, id) = v
  BY <1>1
<1>2. ASSUME NEW p \in 1..Len(v),
             Len(RemoveElem(v, id)) = Len(v) - 1,
             \A k \in 1..(Len(v) - 1) :
                RemoveElem(v, id)[k] = IF k < p THEN v[k] ELSE v[k + 1]
      PROVE  \E k \in 1..Len(v) :
                v[k] = RemoveElem(v, id)[j] /\ j <= k /\ k <= j + 1
  BY <1>2
<1> QED BY <1>1, <1>2, RemoveElemShape

\* Every other entry stays.
LEMMA RemoveElemKeeps ==
    ASSUME NEW S, NEW v \in Seq(S), NEW id, NEW k \in 1..Len(v), v[k] # id
    PROVE  \E j \in 1..Len(RemoveElem(v, id)) : RemoveElem(v, id)[j] = v[k]
<1>1. CASE RemoveElem(v, id) = v
  BY <1>1
<1>2. ASSUME NEW p \in 1..Len(v), v[p] = id,
             Len(RemoveElem(v, id)) = Len(v) - 1,
             \A j \in 1..(Len(v) - 1) :
                RemoveElem(v, id)[j] = IF j < p THEN v[j] ELSE v[j + 1]
      PROVE  \E j \in 1..Len(RemoveElem(v, id)) : RemoveElem(v, id)[j] = v[k]
  <2>1. CASE k < p
    <3>1. k \in 1..(Len(v) - 1) /\ RemoveElem(v, id)[k] = v[k]
      BY <1>2, <2>1
    <3> QED BY <3>1, <1>2
  <2>2. CASE k > p
    <3>1. k - 1 \in 1..(Len(v) - 1) /\ RemoveElem(v, id)[k - 1] = v[k]
      BY <1>2, <2>2
    <3> QED BY <3>1, <1>2
  <2>3. k # p
    BY <1>2
  <2>4. k < p \/ k > p
    BY <2>3, <1>2
  <2> QED BY <2>1, <2>2, <2>4
<1> QED BY <1>1, <1>2, RemoveElemShape

\* From a sequence without repetitions the element is gone afterwards, and no
\* repetition appears.
LEMMA RemoveElemDistinct ==
    ASSUME NEW S, NEW v \in Seq(S), NEW id,
           \A j, k \in 1..Len(v) : v[j] = v[k] => j = k
    PROVE  /\ \A j, k \in 1..Len(RemoveElem(v, id)) :
                 RemoveElem(v, id)[j] = RemoveElem(v, id)[k] => j = k
           /\ \A j \in 1..Len(RemoveElem(v, id)) : RemoveElem(v, id)[j] # id
<1> DEFINE r == RemoveElem(v, id)
<1>1. CASE r = v /\ \A k \in 1..Len(v) : v[k] # id
  BY <1>1
<1>2. ASSUME NEW p \in 1..Len(v), v[p] = id, Len(r) = Len(v) - 1,
             \A k \in 1..(Len(v) - 1) : r[k] = IF k < p THEN v[k] ELSE v[k + 1]
      PROVE  /\ \A j, k \in 1..Len(r) : r[j] = r[k] => j = k
             /\ \A j \in 1..Len(r) : r[j] # id
  <2>1. \A j \in 1..Len(r) :
           \E k \in 1..Len(v) : /\ r[j] = v[k] /\ k # p
                                /\ k = IF j < p THEN j ELSE j + 1
    BY <1>2
  <2>2. ASSUME NEW j \in 1..Len(r) PROVE r[j] # id
    BY <2>1, <1>2
  <2>3. ASSUME NEW j \in 1..Len(r), NEW k \in 1..Len(r), r[j] = r[k]
        PROVE  j = k
    <3> DEFINE f(x) == IF x < p THEN x ELSE x + 1
    <3>1. f(j) \in 1..Len(v) /\ r[j] = v[f(j)]
      BY <2>1
    <3>2. f(k) \in 1..Len(v) /\ r[k] = v[f(k)]
      BY <2>1
    <3>3. f(j) = f(k)
      BY <3>1, <3>2, <2>3
    <3> QED BY <3>3, <1>2
  <2> QED BY <2>2, <2>3
<1> QED BY <1>1, <1>2, RemoveElemShape

-----------------------------------------------------------------------------
(* Type correctness.                                                       *)

\* The values of a sequence are in its set.
LEMMA ValueOfSeq ==
    ASSUME NEW S, NEW v \in Seq(S)
    PROVE  DOMAIN v = 1..Len(v) /\ Len(v) \in Nat /\ v \in [1..Len(v) -> S]
  OBVIOUS

\* Replacing one value keeps the length and the other values.
LEMMA ExceptShape ==
    ASSUME NEW S, NEW v \in Seq(S), NEW p \in 1..Len(v), NEW e \in S
    PROVE  /\ [v EXCEPT ![p] = e] \in Seq(S)
           /\ Len([v EXCEPT ![p] = e]) = Len(v)
           /\ DOMAIN [v EXCEPT ![p] = e] = 1..Len(v)
           /\ [v EXCEPT ![p] = e][p] = e
           /\ \A k \in 1..Len(v) : k # p => [v EXCEPT ![p] = e][k] = v[k]
  OBVIOUS

\* Appending keeps a sequence a sequence, adds one index, and changes nothing
\* at the old ones.
LEMMA AppendShape ==
    ASSUME NEW S, NEW v \in Seq(S), NEW e \in S
    PROVE  /\ Append(v, e) \in Seq(S)
           /\ Len(Append(v, e)) = Len(v) + 1
           /\ DOMAIN Append(v, e) = 1..(Len(v) + 1)
           /\ Append(v, e)[Len(v) + 1] = e
           /\ \A k \in 1..Len(v) : Append(v, e)[k] = v[k]
  OBVIOUS

\* An empty Vector and idle threads have the right types.
LEMMA TypeInit == Init => TypeOK
  BY ClockAssumption DEF Init, TypeOK, Id, Idle, Ops, Pcs

\* The part of TypeOK about the Vector and the objects it refers to.
VecType ==
    /\ obj \in Seq([ec : EC, next : Nat])
    /\ ecs \in Seq(Id)
    /\ ahead \in Seq(Nat) /\ Len(ahead) = Len(obj)
    /\ missed \in Seq(Nat) /\ Len(missed) = Len(obj)

\* The part about the ORB threads.
CorbaType ==
    /\ running \in [EC -> BOOLEAN]
    /\ alive \in [EC -> BOOLEAN]
    /\ call \in [EC -> [op : Ops, i : Nat, cur : Id \cup {0}]]
    /\ \A c \in EC : call[c].op = "match" => call[c].cur \in Id

\* The part about the simulation side.
SimType ==
    /\ simTime \in Nat
    /\ sim \in [pc : Pcs, i : Nat, cur : Id \cup {0}]
    /\ sim.pc \in {"reset", "execute"} => sim.cur \in Id
    /\ done \subseteq Id
    /\ stale \subseteq Id

\* TypeOK in three parts, so that a proof cites the one it needs.
LEMMA TypeParts == TypeOK <=> VecType /\ CorbaType /\ SimType
  BY DEF TypeOK, VecType, CorbaType, SimType

\* A subscription keeps every type: the identities in use stay identities.
LEMMA TypeSubscribe ==
    ASSUME TypeOK, NEW c \in EC, Subscribe(c)
    PROVE  TypeOK'
<1> DEFINE e == [ec |-> c, next |-> 0]
<1>1. /\ obj' = Append(obj, e) /\ ecs' = Append(ecs, Len(obj) + 1)
      /\ ahead' = Append(ahead, Len(ecs)) /\ missed' = Append(missed, 0)
      /\ call' = [call EXCEPT ![c] = Idle]
      /\ UNCHANGED <<running, alive, simTime, sim, done, stale>>
  BY DEF Subscribe, AddEntry
<1>2. e \in [ec : EC, next : Nat]
  OBVIOUS
<1> HIDE DEF e
<1>3. VecType /\ CorbaType /\ SimType
  BY TypeParts
<1>4. /\ obj' \in Seq([ec : EC, next : Nat]) /\ Len(obj') = Len(obj) + 1
      /\ Id = 1..Len(obj) /\ Id' = 1..(Len(obj) + 1)
  BY <1>1, <1>2, <1>3 DEF VecType, Id
<1>5. Id \subseteq Id' /\ Len(obj) + 1 \in Id'
  BY <1>3, <1>4 DEF VecType
<1>6. ecs' \in Seq(Id')
  <2>1. ecs \in Seq(Id')
    BY <1>3, <1>5 DEF VecType
  <2> QED BY <2>1, <1>1, <1>5
<1>7. /\ ahead' \in Seq(Nat) /\ Len(ahead') = Len(obj')
      /\ missed' \in Seq(Nat) /\ Len(missed') = Len(obj')
  BY <1>1, <1>3, <1>4 DEF VecType
<1>8. VecType'
  BY <1>4, <1>6, <1>7 DEF VecType
<1>9. CorbaType'
  BY <1>1, <1>3, <1>5 DEF CorbaType, Idle, Ops
<1>10. SimType'
  BY <1>1, <1>3, <1>5 DEF SimType
<1> QED BY <1>8, <1>9, <1>10 DEF TypeOK, VecType, CorbaType, SimType

\* Every other action of the ORB threads keeps the objects made so far.
LEMMA TypeClient ==
    ASSUME TypeOK, NEW c \in EC,
           \/ ECStart(c) \/ ECStop(c) \/ UnsubSize(c) \/ UnsubGet(c)
           \/ UnsubMatch(c) \/ Die(c)
    PROVE  TypeOK'
<1>1. VecType /\ CorbaType /\ SimType
  BY TypeParts
<1>2. UNCHANGED <<obj, simTime, sim, done, ahead, missed, stale>> /\ Id' = Id
  BY DEF ECStart, ECStop, UnsubSize, UnsubGet, UnsubMatch, Die, vecVars,
         history, Id
<1>3. SimType'
  BY <1>1, <1>2 DEF SimType
<1>4. VecType'
  <2>1. CASE UnsubMatch(c)
    <3>1. ecs' = ecs \/ ecs' = RemoveElem(ecs, call[c].cur)
      BY <2>1 DEF UnsubMatch, Unsubscribed
    <3> QED BY <3>1, <1>1, <1>2, RemoveElemType DEF VecType
  <2>2. CASE ~UnsubMatch(c)
    <3>1. ecs' = ecs
      BY <2>2 DEF ECStart, ECStop, UnsubSize, UnsubGet, Die, vecVars
    <3> QED BY <3>1, <1>1, <1>2 DEF VecType
  <2> QED BY <2>1, <2>2
<1>5. CorbaType'
  <2> DEFINE CallType == [op : Ops, i : Nat, cur : Id \cup {0}]
  <2>1. Idle \in CallType /\ Idle.op = "none"
    BY DEF Idle, Ops
  <2>2. call[c] \in CallType /\ call \in [EC -> CallType]
    BY <1>1 DEF CorbaType
  <2>3. \E r \in CallType :
           /\ call' = [call EXCEPT ![c] = r]
           /\ r.op = "match" => r.cur \in Id
    <3>1. CASE ECStart(c)
      <4>1. [Idle EXCEPT !.op = "subscribe"] \in CallType
        BY DEF Idle, Ops
      <4> QED BY <3>1, <4>1 DEF ECStart, Idle
    <3>2. CASE ECStop(c)
      <4>1. [Idle EXCEPT !.op = "size"] \in CallType
        BY DEF Idle, Ops
      <4> QED BY <3>2, <4>1 DEF ECStop, Idle
    <3>3. CASE UnsubSize(c)
      <4>1. CASE call[c].i < Len(ecs)
        <5>1. [call[c] EXCEPT !.op = "get"] \in CallType
          BY <2>2 DEF Ops
        <5> QED BY <3>3, <4>1, <5>1, <2>2 DEF UnsubSize
      <4>2. CASE ~(call[c].i < Len(ecs))
        BY <3>3, <4>2, <2>1 DEF UnsubSize
      <4> QED BY <4>1, <4>2
    <3>4. CASE UnsubGet(c)
      <4>1. CASE call[c].i < Len(ecs)
        <5>1. ecs[call[c].i + 1] \in Id
          BY SMTT(20), <4>1, <1>1, <2>2 DEF VecType
        <5>2. [op |-> "match", i |-> call[c].i,
               cur |-> ecs[call[c].i + 1]] \in CallType
          BY <5>1, <2>2 DEF Ops
        <5> QED BY <3>4, <4>1, <5>1, <5>2 DEF UnsubGet
      <4>2. CASE ~(call[c].i < Len(ecs))
        BY <3>4, <4>2, <2>1 DEF UnsubGet
      <4> QED BY <4>1, <4>2
    <3>5. CASE UnsubMatch(c)
      <4>1. CASE obj[call[c].cur].ec = c
        BY <3>5, <4>1, <2>1 DEF UnsubMatch
      <4>2. CASE obj[call[c].cur].ec # c
        <5>1. [op |-> "size", i |-> call[c].i + 1, cur |-> 0] \in CallType
          BY <2>2 DEF Ops
        <5> QED BY <3>5, <4>2, <5>1 DEF UnsubMatch
      <4> QED BY <4>1, <4>2
    <3>6. CASE Die(c)
      <4>1. call' = [call EXCEPT ![c] = call[c]]
        BY <3>6, <2>2 DEF Die
      <4> QED BY <4>1, <1>1, <2>2 DEF CorbaType
    <3> QED BY <3>1, <3>2, <3>3, <3>4, <3>5, <3>6
  <2>4. running' \in [EC -> BOOLEAN] /\ alive' \in [EC -> BOOLEAN]
    BY <1>1 DEF CorbaType, ECStart, ECStop, UnsubSize, UnsubGet, UnsubMatch, Die
  <2> QED BY <1>1, <1>2, <2>2, <2>3, <2>4 DEF CorbaType
<1> QED BY <1>3, <1>4, <1>5 DEF TypeOK, VecType, CorbaType, SimType

\* CountMissed is a sequence as long as missed.
LEMMA CountMissedType ==
    ASSUME VecType
    PROVE  CountMissed \in Seq(Nat) /\ Len(CountMissed) = Len(obj)
<1>1. Id = 1..Len(obj) /\ Len(obj) \in Nat
  BY DEF VecType, Id
<1>2. \A id \in 1..Len(obj) : missed[id] \in Nat
  BY DEF VecType
<1>3. CountMissed \in [1..Len(obj) -> Nat]
  BY <1>1, <1>2 DEF CountMissed
<1> QED BY <1>1, <1>3

\* A changed next time keeps obj a sequence with the same identities.
LEMMA NextType ==
    ASSUME VecType, NEW id \in Id, NEW n \in Nat,
           obj' = [obj EXCEPT ![id].next = n]
    PROVE  /\ obj' \in Seq([ec : EC, next : Nat])
           /\ Len(obj') = Len(obj) /\ Id' = Id
           /\ \A k \in Id : obj'[k].ec = obj[k].ec
           /\ obj'[id].next = n
           /\ \A k \in Id : k # id => obj'[k] = obj[k]
<1> DEFINE e == [obj[id] EXCEPT !.next = n]
<1>1. Id = 1..Len(obj) /\ id \in 1..Len(obj)
  BY DEF VecType, Id
<1>2. obj[id] \in [ec : EC, next : Nat]
  BY <1>1, ValueOfSeq DEF VecType
<1>3. e \in [ec : EC, next : Nat] /\ e.next = n /\ e.ec = obj[id].ec
  BY <1>2
<1>4. obj' = [obj EXCEPT ![id] = e]
  OBVIOUS
<1> HIDE DEF e
<1>5. obj \in Seq([ec : EC, next : Nat])
  BY DEF VecType
<1>6. /\ obj' \in Seq([ec : EC, next : Nat]) /\ Len(obj') = Len(obj)
      /\ DOMAIN obj' = 1..Len(obj)
      /\ obj'[id] = e
      /\ \A k \in 1..Len(obj) : k # id => obj'[k] = obj[k]
  BY <1>1, <1>3, <1>4, <1>5, ExceptShape
<1>7. Id' = Id
  BY <1>1, <1>6 DEF Id
<1> QED BY <1>1, <1>3, <1>6, <1>7

\* The simulation side keeps every type: it changes next execution times and
\* removes entries, and makes no object.
LEMMA TypeSim ==
    ASSUME TypeOK, SimNext
    PROVE  TypeOK'
<1>1. VecType /\ CorbaType /\ SimType
  BY TypeParts
<1>2. UNCHANGED <<running, alive, call, ahead>>
  BY DEF SimNext, StartSim, ResetSize, ResetGet, ResetOne, Step, StopSim,
         UpdateSize, UpdateGet, ExecuteOk, ExecuteFail, corba, history
<1>3. SUFFICES Id' = Id /\ VecType' /\ SimType'
  <2>1. ASSUME Id' = Id PROVE CorbaType'
    BY <1>1, <1>2, <2>1 DEF CorbaType
  <2> QED BY <2>1 DEF TypeOK, VecType, CorbaType, SimType
<1>4. Elems(ecs) \subseteq Id
  BY <1>1 DEF VecType, Elems
<1>5. CASE StartSim
  BY <1>5, <1>1 DEF StartSim, vecVars, VecType, SimType, Id, Pcs
<1>6. CASE ResetSize
  <2>1. /\ UNCHANGED <<obj, ecs, done, ahead>> /\ Id' = Id
        /\ simTime' = simTime \/ simTime' = 0
        /\ missed' = missed \/ missed' = CountMissed
        /\ stale' = stale \/ stale' = Skipped
        /\ \/ sim' = [sim EXCEPT !.pc = "resetGet"]
           \/ sim' = [sim EXCEPT !.pc = "step"]
    BY <1>6 DEF ResetSize, vecVars, Id
  <2>2. VecType'
    BY <1>1, <2>1, CountMissedType DEF VecType
  <2>3. SimType'
    BY <1>1, <1>4, <2>1 DEF SimType, Pcs, Skipped
  <2> QED BY <2>1, <2>2, <2>3
<1>7. CASE ResetGet \/ UpdateGet
  <2>1. /\ UNCHANGED <<obj, ecs, missed, simTime, done, stale, ahead>>
        /\ Id' = Id
    BY <1>7 DEF ResetGet, UpdateGet, vecVars, history, Id
  <2>2. sim.i < Len(ecs) => ecs[sim.i + 1] \in Id
    BY <1>1 DEF VecType, SimType
  <2>3. SimType'
    BY <1>7, <1>1, <2>1, <2>2 DEF ResetGet, UpdateGet, SimType, Pcs
  <2> QED BY <1>1, <2>1, <2>3 DEF VecType
<1>8. CASE ResetOne
  <2>1. sim.cur \in Id /\ 0 \in Nat
    BY <1>8, <1>1 DEF ResetOne, SimType
  <2>2. CASE alive[obj[sim.cur].ec]
    <3>1. /\ obj' = [obj EXCEPT ![sim.cur].next = 0]
          /\ done' = done \cup {sim.cur}
          /\ sim' = [pc |-> "resetSize", i |-> sim.i + 1, cur |-> 0]
          /\ UNCHANGED <<ecs, simTime, ahead, missed, stale>>
      BY <1>8, <2>2 DEF ResetOne, Reset
    <3>2. /\ obj' \in Seq([ec : EC, next : Nat])
          /\ Len(obj') = Len(obj) /\ Id' = Id
      BY <3>1, <2>1, <1>1, NextType
    <3> QED BY SMTT(20), <3>1, <3>2, <2>1, <1>1 DEF VecType, SimType, Pcs
  <2>3. CASE ~alive[obj[sim.cur].ec]
    <3>1. /\ ecs' = RemoveElem(ecs, sim.cur)
          /\ sim' = [pc |-> "resetSize", i |-> sim.i, cur |-> 0]
          /\ UNCHANGED <<obj, done, simTime, ahead, missed, stale>>
      BY <1>8, <2>3 DEF ResetOne
    <3>2. Id' = Id
      BY <3>1 DEF Id
    <3> QED BY <3>1, <3>2, <1>1, RemoveElemType DEF VecType, SimType, Pcs
  <2> QED BY <2>2, <2>3
<1>9. CASE Step
  <2>1. /\ UNCHANGED <<obj, ecs, ahead, missed, stale>> /\ Id' = Id
        /\ simTime' = simTime \/ simTime' = simTime + StepTime
        /\ done' = done \/ done' = {}
        /\ \/ sim' = [sim EXCEPT !.pc = "idle"]
           \/ sim' = [pc |-> "size", i |-> 0, cur |-> 0]
    BY <1>9 DEF Step, vecVars, Id
  <2>2. VecType'
    BY <1>1, <2>1 DEF VecType
  <2>3. SimType'
    BY <1>1, <2>1, ClockAssumption DEF SimType, Pcs
  <2> QED BY <2>1, <2>2, <2>3
<1>10. CASE StopSim
  BY <1>10, <1>1 DEF StopSim, vecVars, history, VecType, SimType, Id, Pcs
<1>11. CASE UpdateSize
  <2>1. /\ UNCHANGED <<obj, ecs, simTime, done, ahead, stale>> /\ Id' = Id
        /\ missed' = missed \/ missed' = CountMissed
        /\ \/ sim' = [sim EXCEPT !.pc = "get"]
           \/ sim' = [sim EXCEPT !.pc = "step"]
    BY <1>11 DEF UpdateSize, vecVars, Id
  <2>2. VecType'
    BY <1>1, <2>1, CountMissedType DEF VecType
  <2>3. SimType'
    BY <1>1, <2>1 DEF SimType, Pcs
  <2> QED BY <2>1, <2>2, <2>3
<1>12. CASE ExecuteOk
  <2>1. sim.cur \in Id
    BY <1>12, <1>1 DEF ExecuteOk, SimType
  <2>2. Executed(sim.cur) \in Nat
    <3>1. obj[sim.cur] \in [ec : EC, next : Nat]
      BY <2>1, <1>1, ValueOfSeq DEF VecType, Id
    <3> QED BY <3>1, ClockAssumption DEF Executed
  <2>3. /\ done' = done \cup {sim.cur}
        /\ sim' = [pc |-> "size", i |-> sim.i + 1, cur |-> 0]
        /\ UNCHANGED <<ecs, simTime, ahead, missed, stale>>
        /\ \/ UNCHANGED obj
           \/ obj' = [obj EXCEPT ![sim.cur].next = Executed(sim.cur)]
    BY <1>12 DEF ExecuteOk, AfterExecute
  <2>4. /\ obj' \in Seq([ec : EC, next : Nat])
        /\ Len(obj') = Len(obj) /\ Id' = Id
    <3>1. CASE UNCHANGED obj
      BY <3>1, <1>1 DEF VecType, Id
    <3>2. CASE obj' = [obj EXCEPT ![sim.cur].next = Executed(sim.cur)]
      BY <3>2, <2>1, <2>2, <1>1, NextType
    <3> QED BY <3>1, <3>2, <2>3
  <2> QED BY <2>1, <2>3, <2>4, <1>1 DEF VecType, SimType, Pcs
<1>13. CASE ExecuteFail
  <2>1. /\ ecs' = RemoveElem(ecs, sim.cur)
        /\ sim' = [pc |-> "size", i |-> sim.i, cur |-> 0]
        /\ UNCHANGED <<obj, simTime, done, ahead, missed, stale>>
    BY <1>13 DEF ExecuteFail, history
  <2>2. Id' = Id
    BY <2>1 DEF Id
  <2> QED BY <2>1, <2>2, <1>1, RemoveElemType DEF VecType, SimType, Pcs
<1> QED BY <1>5, <1>6, <1>7, <1>8, <1>9, <1>10, <1>11, <1>12, <1>13
        DEF SimNext

\* TypeOK is inductive.
LEMMA TypeStep == TypeOK /\ [Next]_vars => TypeOK'
<1>1. CASE UNCHANGED vars
  BY <1>1 DEF vars, TypeOK, Id
<1>2. ASSUME TypeOK, ClientNext PROVE TypeOK'
  BY <1>2, TypeClient, TypeSubscribe DEF ClientNext
<1> QED BY <1>1, <1>2, TypeSim DEF Next

\* TypeOK is an invariant: in particular the identities in ecs_ and the ones
\* fetched by either loop always denote objects that were made.
THEOREM TypeCorrect == Spec => []TypeOK
  BY TypeInit, TypeStep, PTL DEF Spec

-----------------------------------------------------------------------------
(* The inductive invariant behind the properties of the loops.             *)

InReset  == sim.pc \in {"resetSize", "resetGet", "reset"}
InPass   == InReset \/ sim.pc \in {"size", "get", "execute"}
Fetched  == sim.pc \in {"reset", "execute"}

\* Positions up to Border are out of the reach of the current pass.
Border == IF Fetched THEN sim.i + 1 ELSE sim.i

\* No object is in the Vector twice.
Distinct == \A j, k \in 1..Len(ecs) : ecs[j] = ecs[k] => j = k

\* What the pass has executed lies before its index; what it has fetched is
\* not executed yet and lies at the index or, after a removal, before it.
DoneBehind ==
    /\ InPass => \A k \in 1..Len(ecs) : ecs[k] \in done => k <= sim.i
    /\ Fetched => /\ sim.cur \notin done
                  /\ \A k \in 1..Len(ecs) : ecs[k] = sim.cur => k <= sim.i + 1

\* An entry the pass can no longer reach and has not executed.
Doomed(k) ==
    InPass /\ k <= Border /\ ecs[k] \notin done /\ ~(Fetched /\ ecs[k] = sim.cur)

\* OvertakenOnlyByDepartures with the skip of the current pass counted as soon
\* as it is unavoidable.
Overtaken ==
    \A k \in 1..Len(ecs) :
        missed[ecs[k]] + (k - 1) + (IF Doomed(k) THEN 1 ELSE 0)
            <= ahead[ecs[k]] + 1

\* What the reset pass has visited starts from 0.
ResetDone == InReset => \A id \in done : obj[id].next = 0

ClockInv ==
    /\ TypeOK /\ Distinct /\ DoneBehind /\ Overtaken
    /\ ResetDone /\ ResetReachesAllButOvertaken /\ RunningStaysSubscribed

\* With an empty Vector every part of ClockInv holds.
LEMMA ClockInit == Init => ClockInv
<1> SUFFICES ASSUME Init PROVE ClockInv
  OBVIOUS
<1>1. TypeOK
  BY TypeInit
<1>2. Len(ecs) = 0 /\ DOMAIN ecs = {}
  BY DEF Init
<1> QED BY <1>1, <1>2 DEF Init, ClockInv, Distinct, DoneBehind, Overtaken,
          ResetDone, ResetReachesAllButOvertaken, RunningStaysSubscribed,
          InPass, InReset, Fetched, Updating

\* What an action of an ORB thread other than subscribe can do to the Vector.
LEMMA ClientVec ==
    ASSUME NEW c \in EC,
           \/ ECStart(c) \/ ECStop(c) \/ UnsubSize(c) \/ UnsubGet(c)
           \/ UnsubMatch(c) \/ Die(c)
    PROVE  /\ UNCHANGED <<obj, simTime, sim, done, ahead, missed, stale>>
           /\ ecs' = ecs \/ ecs' = RemoveElem(ecs, call[c].cur)
  BY DEF ECStart, ECStop, UnsubSize, UnsubGet, UnsubMatch, Unsubscribed, Die,
         vecVars, history

\* What an action of the simulation side can do to the Vector: a removal goes
\* with a failed remote call.
LEMMA SimVec ==
    ASSUME SimNext
    PROVE  \/ ecs' = ecs
           \/ /\ Fetched /\ ~alive[obj[sim.cur].ec]
              /\ ecs' = RemoveElem(ecs, sim.cur)
              /\ sim'.i = sim.i /\ sim'.pc = (IF sim.pc = "reset"
                                              THEN "resetSize" ELSE "size")
              /\ UNCHANGED <<obj, simTime, done, ahead, missed, stale>>
  BY DEF SimNext, StartSim, ResetSize, ResetGet, ResetOne, Step, StopSim,
         UpdateSize, UpdateGet, ExecuteOk, ExecuteFail, vecVars, history,
         Fetched

\* subscribe appends an identity that was not in use.
LEMMA SubscribeVec ==
    ASSUME TypeOK, NEW c \in EC, Subscribe(c)
    PROVE  /\ Len(ecs') = Len(ecs) + 1 /\ Len(obj') = Len(obj) + 1
           /\ ecs'[Len(ecs) + 1] = Len(obj) + 1
           /\ \A k \in 1..Len(ecs) : ecs'[k] = ecs[k] /\ ecs[k] \in 1..Len(obj)
           /\ Id = 1..Len(obj) /\ Len(obj) \in Nat
           /\ obj'[Len(obj) + 1] = [ec |-> c, next |-> 0]
           /\ \A id \in 1..Len(obj) : obj'[id] = obj[id]
           /\ missed'[Len(obj) + 1] = 0 /\ ahead'[Len(obj) + 1] = Len(ecs)
           /\ \A id \in 1..Len(obj) :
                 missed'[id] = missed[id] /\ ahead'[id] = ahead[id]
           /\ UNCHANGED <<simTime, sim, done, stale>>
<1> DEFINE e == [ec |-> c, next |-> 0]
<1>1. /\ obj' = Append(obj, e) /\ ecs' = Append(ecs, Len(obj) + 1)
      /\ ahead' = Append(ahead, Len(ecs)) /\ missed' = Append(missed, 0)
      /\ UNCHANGED <<simTime, sim, done, stale>>
  BY DEF Subscribe, AddEntry
<1>2. e \in [ec : EC, next : Nat]
  OBVIOUS
<1> HIDE DEF e
<1>3. /\ Len(obj') = Len(obj) + 1 /\ obj'[Len(obj) + 1] = e
      /\ \A id \in 1..Len(obj) : obj'[id] = obj[id]
      /\ Id = 1..Len(obj) /\ Len(obj) \in Nat
  BY <1>1, <1>2 DEF TypeOK, Id
<1>4. /\ Len(ecs') = Len(ecs) + 1 /\ ecs'[Len(ecs) + 1] = Len(obj) + 1
      /\ \A k \in 1..Len(ecs) : ecs'[k] = ecs[k] /\ ecs[k] \in 1..Len(obj)
  <2>0. ecs \in Seq(1..Len(obj)) /\ 1..Len(obj) \subseteq Nat
    BY <1>3 DEF TypeOK
  <2>1. ecs \in Seq(Nat) /\ Len(obj) + 1 \in Nat
    BY <2>0, <1>3
  <2>2. \A k \in 1..Len(ecs) : ecs[k] \in 1..Len(obj)
    BY <2>0
  <2> QED BY <2>1, <2>2, <1>1
<1>5. /\ missed'[Len(obj) + 1] = 0 /\ ahead'[Len(obj) + 1] = Len(ecs)
      /\ \A id \in 1..Len(obj) :
            missed'[id] = missed[id] /\ ahead'[id] = ahead[id]
  <2>1. /\ missed \in Seq(Nat) /\ Len(missed) = Len(obj)
        /\ ahead \in Seq(Nat) /\ Len(ahead) = Len(obj)
    BY DEF TypeOK
  <2>2. Len(ecs) \in Nat
    BY DEF TypeOK
  <2> QED BY <1>1, <2>1, <2>2, AppendShape
<1> QED BY <1>1, <1>3, <1>4, <1>5 DEF e

\* subscribe adds a new identity and a removal only drops one, so no object
\* gets into the Vector twice.
LEMMA DistinctStep ==
    ASSUME TypeOK, Distinct, Next
    PROVE  Distinct'
<1>0. ecs \in Seq(Id)
  BY DEF TypeOK
<1>1. ASSUME ecs' = ecs PROVE Distinct'
  BY <1>1 DEF Distinct
<1>2. ASSUME NEW id, ecs' = RemoveElem(ecs, id) PROVE Distinct'
  BY <1>0, <1>2, RemoveElemDistinct DEF Distinct
<1>3. ASSUME NEW c \in EC, Subscribe(c) PROVE Distinct'
  <2>1. \A k \in 1..Len(ecs) : ecs[k] # Len(obj) + 1
    <3>1. \A k \in 1..Len(ecs) : ecs[k] \in 1..Len(obj)
      BY <1>3, SubscribeVec
    <3> QED BY <3>1, <1>3, SubscribeVec
  <2>2. /\ Len(ecs') = Len(ecs) + 1 /\ ecs'[Len(ecs) + 1] = Len(obj) + 1
        /\ \A k \in 1..Len(ecs) : ecs'[k] = ecs[k]
    BY <1>3, SubscribeVec
  <2>3. Len(ecs) \in Nat
    BY DEF TypeOK
  <2> QED BY <2>1, <2>2, <2>3 DEF Distinct
<1>4. CASE SimNext
  BY <1>1, <1>2, <1>4, SimVec
<1>5. CASE ClientNext
  <2> PICK c \in EC : \/ ECStart(c) \/ Subscribe(c) \/ ECStop(c)
                      \/ UnsubSize(c) \/ UnsubGet(c) \/ UnsubMatch(c) \/ Die(c)
    BY <1>5 DEF ClientNext
  <2>1. CASE Subscribe(c)
    BY <2>1, <1>3
  <2>2. CASE ~Subscribe(c)
    BY <2>2, <1>1, <1>2, ClientVec
  <2> QED BY <2>1, <2>2
<1> QED BY <1>4, <1>5 DEF Next

\* Removals move entries to the front and subscriptions append: what a pass has
\* visited stays behind its index.
LEMMA DoneBehindStep ==
    ASSUME TypeOK, Distinct, DoneBehind, Next
    PROVE  DoneBehind'
<1>0. /\ ecs \in Seq(Id) /\ Len(ecs) \in Nat
      /\ sim \in [pc : Pcs, i : Nat, cur : Id \cup {0}]
      /\ done \subseteq Id /\ (Fetched => sim.cur \in Id)
  BY DEF TypeOK, Fetched
<1>1. ASSUME NEW id, ecs' = RemoveElem(ecs, id), UNCHANGED done,
             sim'.i = sim.i,
             \/ UNCHANGED sim
             \/ Fetched /\ ~Fetched'
      PROVE  DoneBehind'
  <2>1. \A j \in 1..Len(ecs') : \E k \in 1..Len(ecs) :
           ecs[k] = ecs'[j] /\ j <= k
    BY <1>0, <1>1, RemoveElemFrom
  <2>2. Len(ecs') \in Nat
    BY <1>0, <1>1, RemoveElemType
  <2>3. InPass' => InPass
    BY <1>1 DEF InPass, InReset, Fetched
  <2>4. ASSUME InPass', NEW j \in 1..Len(ecs'), ecs'[j] \in done'
        PROVE  j <= sim'.i
    <3> PICK k \in 1..Len(ecs) : ecs[k] = ecs'[j] /\ j <= k
      BY <2>1
    <3>1. k <= sim.i
      BY <2>3, <2>4, <1>1 DEF DoneBehind
    <3> QED BY <3>1, <1>0, <1>1, <2>2
  <2>5. ASSUME Fetched' PROVE UNCHANGED sim
    BY <1>1, <2>5
  <2>6. ASSUME Fetched', NEW j \in 1..Len(ecs'), ecs'[j] = sim'.cur
        PROVE  j <= sim'.i + 1
    <3> PICK k \in 1..Len(ecs) : ecs[k] = ecs'[j] /\ j <= k
      BY <2>1
    <3>1. k <= sim.i + 1
      BY <2>5, <2>6 DEF DoneBehind, Fetched
    <3> QED BY <3>1, <1>0, <1>1, <2>2
  <2>7. Fetched' => sim'.cur \notin done'
    BY <2>5, <1>1 DEF DoneBehind, Fetched
  <2> QED BY <2>4, <2>6, <2>7 DEF DoneBehind
<1>2. ASSUME NEW c \in EC, Subscribe(c) PROVE DoneBehind'
  <2>1. /\ UNCHANGED <<sim, done>> /\ Len(ecs') = Len(ecs) + 1
        /\ ecs'[Len(ecs) + 1] = Len(obj) + 1
        /\ \A k \in 1..Len(ecs) : ecs'[k] = ecs[k]
    BY <1>2, SubscribeVec
  <2>3. Len(obj) + 1 \notin Id
    <3>1. Id = 1..Len(obj) /\ Len(obj) \in Nat
      BY <1>2, SubscribeVec
    <3> QED BY <3>1
  <2>2. Len(obj) + 1 \notin done /\ (Fetched => Len(obj) + 1 # sim.cur)
    BY <2>3, <1>0
  <2> QED BY <2>1, <2>2, <1>0 DEF DoneBehind, InPass, InReset, Fetched
<1>3. CASE ClientNext
  <2> PICK c \in EC : \/ ECStart(c) \/ Subscribe(c) \/ ECStop(c)
                      \/ UnsubSize(c) \/ UnsubGet(c) \/ UnsubMatch(c) \/ Die(c)
    BY <1>3 DEF ClientNext
  <2>1. CASE Subscribe(c)
    BY <2>1, <1>2
  <2>2. CASE ~Subscribe(c)
    <3>1. CASE ecs' = ecs
      BY <2>2, <3>1, ClientVec DEF DoneBehind, InPass, InReset, Fetched
    <3> QED BY <2>2, <3>1, <1>1, ClientVec
  <2> QED BY <2>1, <2>2
<1>4. CASE SimNext
  <2>1. CASE ecs' = RemoveElem(ecs, sim.cur) /\ ecs' # ecs
    <3>1. Fetched /\ ~Fetched' /\ sim'.i = sim.i /\ UNCHANGED done
      BY <1>4, <2>1, SimVec DEF Fetched
    <3> QED BY <2>1, <3>1, <1>1
  <2>2. CASE ecs' = ecs
    <3>1. CASE StartSim \/ Step \/ StopSim
      BY <3>1, <2>2, <1>0
         DEF StartSim, Step, StopSim, DoneBehind, InPass, InReset, Fetched
    <3>2. CASE ResetSize \/ UpdateSize
      BY <3>2, <2>2, <1>0
         DEF ResetSize, UpdateSize, DoneBehind, InPass, InReset, Fetched
    <3>3. CASE ResetGet \/ UpdateGet
      <4>1. UNCHANGED done /\ InPass
        BY <3>3 DEF ResetGet, UpdateGet, history, InPass, InReset
      <4>2. CASE sim.i < Len(ecs)
        <5>1. /\ sim'.i = sim.i /\ sim'.cur = ecs[sim.i + 1]
              /\ sim.i + 1 \in 1..Len(ecs)
          BY <3>3, <4>2, <1>0 DEF ResetGet, UpdateGet
        <5>2. ecs[sim.i + 1] \notin done
          BY <4>1, <5>1, <1>0 DEF DoneBehind
        <5>3. \A k \in 1..Len(ecs) : ecs[k] = ecs[sim.i + 1] => k = sim.i + 1
          BY <5>1 DEF Distinct
        <5> QED BY <4>1, <5>1, <5>2, <5>3, <2>2, <1>0 DEF DoneBehind
      <4>3. CASE ~(sim.i < Len(ecs))
        <5>1. ~InPass' /\ ~Fetched'
          BY <3>3, <4>3, <1>0 DEF ResetGet, UpdateGet, InPass, InReset, Fetched
        <5> QED BY <5>1 DEF DoneBehind
      <4> QED BY <4>2, <4>3
    <3>4. CASE (ResetOne \/ ExecuteOk) /\ done' = done \cup {sim.cur}
      <4>1. Fetched /\ InPass /\ ~Fetched'
        BY <3>4 DEF ResetOne, ExecuteOk, Fetched, InPass, InReset
      <4>2. sim'.i = sim.i + 1 \/ UNCHANGED done
        BY <3>4 DEF ResetOne, ExecuteOk, AfterExecute
      <4>3. sim'.i = sim.i + 1 \/ sim'.i = sim.i
        BY <3>4 DEF ResetOne, ExecuteOk, AfterExecute
      <4> QED BY <3>4, <4>1, <4>2, <4>3, <2>2, <1>0 DEF DoneBehind
    <3>5. CASE (ResetOne \/ ExecuteFail) /\ UNCHANGED done
      <4>1. Fetched /\ InPass /\ ~Fetched' /\ (sim'.i = sim.i \/ sim'.i = sim.i + 1)
        BY <3>5 DEF ResetOne, ExecuteFail, Fetched, InPass, InReset
      <4> QED BY <3>5, <4>1, <2>2, <1>0 DEF DoneBehind
    <3> QED BY <1>4, <3>1, <3>2, <3>3, <3>4, <3>5
            DEF SimNext, ResetOne, ExecuteOk, ExecuteFail, history
  <2> QED BY <2>1, <2>2, <1>4, SimVec
<1> QED BY <1>3, <1>4 DEF Next

\* The slots of the histories that the Vector refers to are numbers.
LEMMA HistoryType ==
    ASSUME TypeOK
    PROVE  /\ ecs \in Seq(Id) /\ Len(ecs) \in Nat
           /\ sim \in [pc : Pcs, i : Nat, cur : Id \cup {0}]
           /\ \A k \in 1..Len(ecs) :
                 /\ ecs[k] \in Id
                 /\ missed[ecs[k]] \in Nat /\ ahead[ecs[k]] \in Nat
<1>1. ecs \in Seq(Id) /\ Len(ecs) \in Nat
  BY DEF TypeOK
<1>2. \A k \in 1..Len(ecs) : ecs[k] \in Id
  BY <1>1
<1>3. \A id \in Id : missed[id] \in Nat /\ ahead[id] \in Nat
  <2>1. /\ missed \in Seq(Nat) /\ Len(missed) = Len(obj)
        /\ ahead \in Seq(Nat) /\ Len(ahead) = Len(obj)
    BY DEF TypeOK
  <2>2. Id = 1..Len(obj)
    <3>1. obj \in Seq([ec : EC, next : Nat])
      BY DEF TypeOK
    <3> QED BY <3>1 DEF Id
  <2> QED BY <2>1, <2>2
<1> QED BY <1>1, <1>2, <1>3 DEF TypeOK

\* An entry is skipped by a pass only after it has moved one place forward, or
\* when it subscribed behind the index: each way leaves Overtaken true.
LEMMA OvertakenStep ==
    ASSUME TypeOK, Distinct, DoneBehind, Overtaken, Next
    PROVE  Overtaken'
<1>0. /\ ecs \in Seq(Id) /\ Len(ecs) \in Nat
      /\ sim \in [pc : Pcs, i : Nat, cur : Id \cup {0}]
      /\ \A k \in 1..Len(ecs) :
            missed[ecs[k]] \in Nat /\ ahead[ecs[k]] \in Nat
  BY HistoryType
<1>1. ASSUME UNCHANGED <<ecs, missed, ahead>>,
             \A k \in 1..Len(ecs) : Doomed(k)' => Doomed(k)
      PROVE  Overtaken'
  BY <1>0, <1>1 DEF Overtaken
<1>2. ASSUME NEW c \in EC, Subscribe(c) PROVE Overtaken'
  <2>1. /\ Len(ecs') = Len(ecs) + 1
        /\ ecs'[Len(ecs) + 1] = Len(obj) + 1
        /\ \A k \in 1..Len(ecs) : ecs'[k] = ecs[k] /\ ecs[k] \in 1..Len(obj)
        /\ missed'[Len(obj) + 1] = 0 /\ ahead'[Len(obj) + 1] = Len(ecs)
        /\ \A id \in 1..Len(obj) :
              missed'[id] = missed[id] /\ ahead'[id] = ahead[id]
        /\ UNCHANGED <<sim, done>>
    BY <1>2, SubscribeVec
  <2>2. ASSUME NEW k \in 1..Len(ecs)
        PROVE  missed'[ecs'[k]] + (k - 1) + (IF Doomed(k)' THEN 1 ELSE 0)
                   <= ahead'[ecs'[k]] + 1
    <3>1. Doomed(k)' <=> Doomed(k)
      BY <2>1 DEF Doomed, InPass, InReset, Fetched, Border
    <3>2. /\ missed'[ecs'[k]] = missed[ecs[k]]
          /\ ahead'[ecs'[k]] = ahead[ecs[k]]
      BY <2>1
    <3>3. missed[ecs[k]] + (k - 1) + (IF Doomed(k) THEN 1 ELSE 0)
              <= ahead[ecs[k]] + 1
      BY DEF Overtaken
    <3> QED BY <3>1, <3>2, <3>3
  <2>3. ASSUME NEW k, k = Len(ecs) + 1
        PROVE  missed'[ecs'[k]] + (k - 1) + (IF Doomed(k)' THEN 1 ELSE 0)
                   <= ahead'[ecs'[k]] + 1
    BY <2>1, <2>3, <1>0
  <2>4. ASSUME NEW k \in 1..Len(ecs')
        PROVE  k \in 1..Len(ecs) \/ k = Len(ecs) + 1
    BY <2>1, <2>4, <1>0
  <2> QED BY <2>2, <2>3, <2>4 DEF Overtaken
<1>3. ASSUME NEW id, ecs' = RemoveElem(ecs, id),
             UNCHANGED <<missed, ahead, done>>,
             \A j \in 1..Len(ecs'), k \in 1..Len(ecs) :
                ecs'[j] = ecs[k] /\ Doomed(j)' /\ ~Doomed(k) => k # j
      PROVE  Overtaken'
  <2>1. \A j \in 1..Len(ecs') : \E k \in 1..Len(ecs) :
           ecs[k] = ecs'[j] /\ j <= k /\ k <= j + 1
    BY <1>0, <1>3, RemoveElemFrom
  <2>2. Len(ecs') \in Nat
    BY <1>0, <1>3, RemoveElemType
  <2>3. ASSUME NEW j \in 1..Len(ecs')
        PROVE  missed'[ecs'[j]] + (j - 1) + (IF Doomed(j)' THEN 1 ELSE 0)
                   <= ahead'[ecs'[j]] + 1
    <3> PICK k \in 1..Len(ecs) : ecs[k] = ecs'[j] /\ j <= k /\ k <= j + 1
      BY <2>1
    <3>1. missed[ecs[k]] + (k - 1) + (IF Doomed(k) THEN 1 ELSE 0)
              <= ahead[ecs[k]] + 1
      BY DEF Overtaken
    <3>2. missed[ecs[k]] \in Nat /\ ahead[ecs[k]] \in Nat
      BY <1>0
    <3>3. missed'[ecs'[j]] = missed[ecs[k]] /\ ahead'[ecs'[j]] = ahead[ecs[k]]
      BY <1>3
    <3>4. CASE k = j
      <4>1. Doomed(j)' => Doomed(k)
        BY <1>3, <3>4
      <4> QED BY SMTT(20), <3>1, <3>2, <3>3, <3>4, <4>1
    <3>5. CASE k = j + 1
      BY SMTT(20), <3>1, <3>2, <3>3, <3>5, <2>2
    <3> QED BY <3>4, <3>5, <2>2, <1>0
  <2> QED BY <2>3 DEF Overtaken
<1>4. CASE ClientNext
  <2> PICK c \in EC : \/ ECStart(c) \/ Subscribe(c) \/ ECStop(c)
                      \/ UnsubSize(c) \/ UnsubGet(c) \/ UnsubMatch(c) \/ Die(c)
    BY <1>4 DEF ClientNext
  <2>1. CASE Subscribe(c)
    BY <2>1, <1>2
  <2>2. CASE ~Subscribe(c)
    <3>1. /\ UNCHANGED <<sim, done, ahead, missed>>
          /\ ecs' = ecs \/ ecs' = RemoveElem(ecs, call[c].cur)
      BY <2>2, ClientVec
    <3>2. CASE ecs' = ecs
      <4>1. \A k \in 1..Len(ecs) : Doomed(k)' => Doomed(k)
        BY <3>1, <3>2 DEF Doomed, InPass, InReset, Fetched, Border
      <4> QED BY <3>1, <3>2, <4>1, <1>1
    <3>3. CASE ecs' = RemoveElem(ecs, call[c].cur)
      <4>1. \A j \in 1..Len(ecs'), k \in 1..Len(ecs) :
               ecs'[j] = ecs[k] /\ Doomed(j)' /\ ~Doomed(k) => k # j
        BY <3>1 DEF Doomed, InPass, InReset, Fetched, Border
      <4> QED BY <3>1, <3>3, <4>1, <1>3
    <3> QED BY <3>1, <3>2, <3>3
  <2> QED BY <2>1, <2>2
<1>5. CASE SimNext /\ ecs' # ecs
  <2>1. /\ Fetched /\ ecs' = RemoveElem(ecs, sim.cur)
        /\ sim'.i = sim.i /\ ~Fetched'
        /\ UNCHANGED <<done, ahead, missed>>
    BY <1>5, SimVec DEF Fetched
  <2>2. \A j \in 1..Len(ecs') : ecs'[j] # sim.cur
    BY <2>1, <1>0, RemoveElemDistinct DEF Distinct
  <2>3. \A j \in 1..Len(ecs'), k \in 1..Len(ecs) :
           ecs'[j] = ecs[k] /\ Doomed(j)' /\ ~Doomed(k) => k # j
    <3>1. Len(ecs') \in Nat
      BY <2>1, <1>0, RemoveElemType
    <3> QED BY <2>1, <2>2, <3>1, <1>0 DEF Doomed, InPass, InReset, Fetched, Border
  <2> QED BY <2>1, <2>3, <1>3
<1>6. CASE SimNext /\ ecs' = ecs
  <2>1. CASE StartSim \/ Step \/ StopSim
    <3>1. UNCHANGED <<missed, ahead>>
      BY <2>1 DEF StartSim, Step, StopSim, history
    <3>2. \A k \in 1..Len(ecs) : ~Doomed(k)'
      BY <2>1, <1>6, <1>0
         DEF StartSim, Step, StopSim, Doomed, InPass, InReset, Fetched, Border
    <3> QED BY <3>1, <3>2, <1>1, <1>6
  <2>2. CASE (ResetSize \/ UpdateSize) /\ sim.i < Len(ecs)
    <3>1. UNCHANGED <<missed, ahead>>
      BY <2>2 DEF ResetSize, UpdateSize
    <3>2. \A k \in 1..Len(ecs) : Doomed(k)' => Doomed(k)
      BY <2>2, <1>6, <1>0
         DEF ResetSize, UpdateSize, Doomed, InPass, InReset, Fetched, Border
    <3> QED BY <3>1, <3>2, <1>1, <1>6
  <2>3. CASE (ResetSize \/ UpdateSize) /\ ~(sim.i < Len(ecs))
    <3>1. /\ missed' = CountMissed /\ UNCHANGED <<ahead, done>>
          /\ sim'.pc = "step"
      BY <2>3, <1>0 DEF ResetSize, UpdateSize
    <3>2. ASSUME NEW k \in 1..Len(ecs)
          PROVE  missed'[ecs[k]] <= missed[ecs[k]]
                                      + (IF Doomed(k) THEN 1 ELSE 0)
      <4>1. ecs[k] \in Id
        BY HistoryType
      <4>2. ecs[k] \notin done => Doomed(k)
        BY <2>3, <1>0
           DEF ResetSize, UpdateSize, Doomed, InPass, InReset, Fetched, Border
      <4>3. CountMissed[ecs[k]] = IF ecs[k] \in Skipped THEN missed[ecs[k]] + 1
                                                         ELSE missed[ecs[k]]
        BY <4>1 DEF CountMissed
      <4>4. ecs[k] \in Skipped => ecs[k] \notin done
        BY DEF Skipped
      <4> QED BY <3>1, <4>2, <4>3, <4>4, <1>0
    <3>3. ASSUME NEW k \in 1..Len(ecs) PROVE missed'[ecs[k]] \in Nat
      BY <3>1, <1>0, HistoryType DEF CountMissed
    <3>4. \A k \in 1..Len(ecs) : ~Doomed(k)'
      BY <3>1 DEF Doomed, InPass, InReset
    <3>5. ASSUME NEW k \in 1..Len(ecs')
          PROVE  missed'[ecs'[k]] + (k - 1) + (IF Doomed(k)' THEN 1 ELSE 0)
                     <= ahead'[ecs'[k]] + 1
      <4>1. k \in 1..Len(ecs) /\ ecs'[k] = ecs[k]
        BY <1>6, <3>5
      <4>2. missed[ecs[k]] + (k - 1) + (IF Doomed(k) THEN 1 ELSE 0)
                <= ahead[ecs[k]] + 1
        BY <4>1 DEF Overtaken
      <4>3. ~Doomed(k)' /\ ahead' = ahead
        BY <4>1, <3>4, <3>1
      <4>4. /\ missed'[ecs[k]] <= missed[ecs[k]] + (IF Doomed(k) THEN 1 ELSE 0)
            /\ missed'[ecs[k]] \in Nat
            /\ missed[ecs[k]] \in Nat /\ ahead[ecs[k]] \in Nat
        BY <4>1, <3>2, <3>3, <1>0
      <4>5. k \in Int /\ ahead'[ecs'[k]] = ahead[ecs[k]]
            /\ missed'[ecs'[k]] = missed'[ecs[k]]
        BY <4>1, <4>3, <1>0
      <4>6. CASE Doomed(k)
        BY SMTT(20), <4>2, <4>3, <4>4, <4>5, <4>6
      <4>7. CASE ~Doomed(k)
        BY <4>2, <4>3, <4>4, <4>5, <4>7
      <4> QED BY <4>6, <4>7
    <3> QED BY <3>5 DEF Overtaken
  <2>4. CASE ResetGet \/ UpdateGet
    <3>1. UNCHANGED <<missed, ahead, done>>
      BY <2>4 DEF ResetGet, UpdateGet, history
    <3>2. ASSUME NEW k \in 1..Len(ecs), Doomed(k)' PROVE Doomed(k)
      <4>1. CASE sim.i < Len(ecs)
        <5>1. /\ sim'.i = sim.i /\ sim'.cur = ecs[sim.i + 1] /\ Fetched'
              /\ ~Fetched /\ InPass
          BY <2>4, <4>1, <1>0
             DEF ResetGet, UpdateGet, Fetched, InPass, InReset
        <5>2. k <= sim.i + 1 /\ ecs[k] \notin done /\ ecs[k] # ecs[sim.i + 1]
          BY <3>2, <5>1, <3>1, <1>6 DEF Doomed, Border
        <5>3. k <= sim.i
          BY <5>2, <1>0
        <5> QED BY <5>1, <5>2, <5>3 DEF Doomed, Border
      <4>2. CASE ~(sim.i < Len(ecs))
        BY <2>4, <4>2, <3>2, <1>0
           DEF ResetGet, UpdateGet, Doomed, InPass, InReset
      <4> QED BY <4>1, <4>2
    <3> QED BY <3>1, <3>2, <1>1, <1>6
  <2>5. CASE ResetOne \/ ExecuteOk \/ ExecuteFail
    <3>1. /\ UNCHANGED <<missed, ahead>> /\ Fetched /\ InPass /\ ~Fetched'
          /\ \/ UNCHANGED done /\ sim'.i = sim.i
             \/ done' = done \cup {sim.cur} /\ sim'.i = sim.i + 1
      BY <2>5 DEF ResetOne, ExecuteOk, ExecuteFail, AfterExecute, history,
                  Fetched, InPass, InReset
    <3>2. CASE done' = done \cup {sim.cur} /\ sim'.i = sim.i + 1
      <4>1. \A k \in 1..Len(ecs) : Doomed(k)' => Doomed(k)
        BY <3>1, <3>2, <1>6, <1>0 DEF Doomed, Border
      <4> QED BY <3>1, <4>1, <1>1, <1>6
    <3>3. CASE UNCHANGED done /\ sim'.i = sim.i
      <4>1. \A k \in 1..Len(ecs) : ecs[k] # sim.cur
        <5>1. ecs = RemoveElem(ecs, sim.cur)
          BY <2>5, <3>3, <1>6, <1>0 DEF ResetOne, ExecuteOk, ExecuteFail, AfterExecute
        <5> QED BY <5>1, <1>0, RemoveElemDistinct DEF Distinct
      <4>2. \A k \in 1..Len(ecs) : Doomed(k)' => Doomed(k)
        BY <3>1, <3>3, <4>1, <1>6, <1>0 DEF Doomed, Border
      <4> QED BY <3>1, <4>2, <1>1, <1>6
    <3> QED BY <3>1, <3>2, <3>3
  <2> QED BY <1>6, <2>1, <2>2, <2>3, <2>4, <2>5 DEF SimNext
<1> QED BY <1>4, <1>5, <1>6 DEF Next

\* While the reset pass runs, what it has visited has next execution time 0;
\* once it is over, a visited entry, or one that subscribed since, is at most
\* one period ahead of the simulation time.
LEMMA ResetStep ==
    ASSUME ClockInv, Next, Distinct'
    PROVE  ResetDone' /\ ResetReachesAllButOvertaken'
<1>0. /\ TypeOK /\ Distinct /\ DoneBehind
      /\ ResetDone /\ ResetReachesAllButOvertaken
  BY DEF ClockInv
<1>1. /\ obj \in Seq([ec : EC, next : Nat]) /\ Id = 1..Len(obj)
      /\ Len(obj) \in Nat
  <2>1. obj \in Seq([ec : EC, next : Nat])
    BY <1>0 DEF TypeOK
  <2> QED BY <2>1 DEF Id
<1>2. /\ ecs \in Seq(Id) /\ Len(ecs) \in Nat /\ DOMAIN ecs = 1..Len(ecs)
      /\ \A k \in 1..Len(ecs) : ecs[k] \in Id
  BY <1>0, HistoryType
<1>3. /\ simTime \in Nat /\ done \subseteq Id /\ stale \subseteq Id
      /\ sim \in [pc : Pcs, i : Nat, cur : Id \cup {0}]
      /\ Fetched => sim.cur \in Id
  BY <1>0 DEF TypeOK, Fetched
<1>4. \A id \in Id : /\ obj[id].next \in Nat /\ obj[id].ec \in EC
                     /\ Period[obj[id].ec] \in Nat
  <2>1. \A id \in Id : obj[id] \in [ec : EC, next : Nat]
    BY <1>1, ValueOfSeq
  <2> QED BY <2>1, ClockAssumption
<1>5. ASSUME NEW id, ecs' = RemoveElem(ecs, id) \/ ecs' = ecs,
             UNCHANGED <<obj, done, stale, simTime>>,
             InReset' => InReset, Updating' => Updating
      PROVE  ResetDone' /\ ResetReachesAllButOvertaken'
  <2>1. ResetDone'
    BY <1>5, <1>0 DEF ResetDone
  <2>2. \A j \in DOMAIN ecs' : \E k \in DOMAIN ecs : ecs[k] = ecs'[j]
    <3>1. CASE ecs' = ecs
      BY <3>1
    <3>2. CASE ecs' = RemoveElem(ecs, id)
      <4>1. ecs' \in Seq(Id)
        BY <3>2, <1>2, RemoveElemType
      <4>2. DOMAIN ecs' = 1..Len(ecs')
        BY <4>1
      <4> QED BY <3>2, <4>2, <1>2, RemoveElemFrom
    <3> QED BY <3>1, <3>2, <1>5
  <2>3. ResetReachesAllButOvertaken'
    BY <2>2, <1>5, <1>0 DEF ResetReachesAllButOvertaken
  <2> QED BY <2>1, <2>3
<1>6. ASSUME NEW c \in EC, Subscribe(c)
      PROVE  ResetDone' /\ ResetReachesAllButOvertaken'
  <2>1. /\ Len(ecs') = Len(ecs) + 1
        /\ ecs'[Len(ecs) + 1] = Len(obj) + 1
        /\ \A k \in 1..Len(ecs) : ecs'[k] = ecs[k] /\ ecs[k] \in 1..Len(obj)
        /\ obj'[Len(obj) + 1] = [ec |-> c, next |-> 0]
        /\ \A id \in 1..Len(obj) : obj'[id] = obj[id]
        /\ UNCHANGED <<simTime, sim, done, stale>>
    BY <1>6, <1>0, SubscribeVec
  <2>2. ResetDone'
    BY <2>1, <1>0, <1>1, <1>3 DEF ResetDone, InReset
  <2>3. DOMAIN ecs' = 1..(Len(ecs) + 1)
    BY <1>6, <1>2, <2>1 DEF Subscribe, AddEntry
  <2>4. ASSUME Updating', NEW k \in DOMAIN ecs', ecs'[k] \notin stale'
        PROVE  obj'[ecs'[k]].next <= simTime' + Period[obj'[ecs'[k]].ec]
    <3>1. CASE k \in 1..Len(ecs)
      <4>1. /\ ecs'[k] = ecs[k] /\ obj'[ecs[k]] = obj[ecs[k]]
            /\ Updating /\ ecs[k] \notin stale
        BY <3>1, <2>1, <2>4 DEF Updating
      <4>2. obj[ecs[k]].next <= simTime + Period[obj[ecs[k]].ec]
        BY <4>1, <3>1, <1>0, <1>2 DEF ResetReachesAllButOvertaken
      <4> QED BY <4>1, <4>2, <2>1
    <3>2. CASE k = Len(ecs) + 1
      <4>1. obj'[ecs'[k]].next = 0 /\ obj'[ecs'[k]].ec = c /\ simTime' = simTime
        BY <3>2, <2>1
      <4>2. Period[c] \in Nat
        BY ClockAssumption
      <4> QED BY <4>1, <4>2, <1>3
    <3> QED BY <3>1, <3>2, <2>3, <1>2
  <2> QED BY <2>2, <2>4 DEF ResetReachesAllButOvertaken
<1>7. CASE ClientNext
  <2> PICK c \in EC : \/ ECStart(c) \/ Subscribe(c) \/ ECStop(c)
                      \/ UnsubSize(c) \/ UnsubGet(c) \/ UnsubMatch(c) \/ Die(c)
    BY <1>7 DEF ClientNext
  <2>1. CASE Subscribe(c)
    BY <2>1, <1>6
  <2>2. CASE ~Subscribe(c)
    BY <2>2, <1>5, ClientVec DEF InReset, Updating
  <2> QED BY <2>1, <2>2
<1>8. CASE StartSim
  BY <1>8 DEF StartSim, ResetDone, ResetReachesAllButOvertaken, Updating
<1>9. CASE ResetSize
  <2>1. CASE sim.i < Len(ecs)
    <3>1. /\ UNCHANGED <<ecs, obj, done, stale, simTime>>
          /\ sim.pc = "resetSize" /\ sim'.pc = "resetGet"
      BY <2>1, <1>9, <1>3 DEF ResetSize, vecVars
    <3> QED BY <3>1, <1>5 DEF InReset, Updating
  <2>2. CASE ~(sim.i < Len(ecs))
    <3>1. /\ UNCHANGED <<ecs, obj>> /\ simTime' = 0 /\ stale' = Skipped
          /\ sim'.pc = "step" /\ InReset
      BY <2>2, <1>9, <1>3 DEF ResetSize, vecVars, InReset
    <3>2. ASSUME NEW k \in DOMAIN ecs, ecs[k] \notin Skipped
          PROVE  obj[ecs[k]].next = 0 /\ Period[obj[ecs[k]].ec] \in Nat
      <4>1. ecs[k] \in done
        BY <3>2 DEF Skipped, Elems
      <4> QED BY <4>1, <3>1, <3>2, <1>0, <1>2, <1>4 DEF ResetDone
    <3> QED BY <3>1, <3>2
            DEF ResetDone, InReset, ResetReachesAllButOvertaken
  <2> QED BY <2>1, <2>2
<1>10. CASE ResetGet \/ UpdateGet \/ StopSim
  BY <1>10, <1>5, <1>3 DEF ResetGet, UpdateGet, StopSim, vecVars, history,
          InReset, Updating
<1>11. CASE UpdateSize
  <2>1. /\ UNCHANGED <<ecs, obj, done, stale, simTime>>
        /\ InReset' => InReset
        /\ Updating' => Updating
    BY <1>11, <1>3 DEF UpdateSize, vecVars, InReset, Updating
  <2> QED BY <2>1, <1>5
<1>12. CASE ExecuteFail
  <2>1. /\ UNCHANGED <<obj, done, stale, simTime>>
        /\ ecs' = RemoveElem(ecs, sim.cur)
        /\ sim.pc = "execute" /\ sim'.pc = "size"
    BY <1>12 DEF ExecuteFail, history
  <2> QED BY <2>1, <1>5 DEF InReset, Updating
<1>13. CASE ResetOne
  <2>1. CASE ~alive[obj[sim.cur].ec]
    <3>1. /\ UNCHANGED <<obj, done, stale, simTime>>
          /\ ecs' = RemoveElem(ecs, sim.cur)
          /\ sim.pc = "reset" /\ sim'.pc = "resetSize"
      BY <2>1, <1>13 DEF ResetOne
    <3> QED BY <3>1, <1>5 DEF InReset, Updating
  <2>2. CASE alive[obj[sim.cur].ec]
    <3>1. /\ obj' = [obj EXCEPT ![sim.cur].next = 0]
          /\ done' = done \cup {sim.cur} /\ sim'.pc = "resetSize"
          /\ sim.pc = "reset" /\ sim.cur \in Id
      BY <2>2, <1>13, <1>3 DEF ResetOne, Reset, Fetched
    <3>2. obj'[sim.cur].next = 0
          /\ \A id \in Id : id # sim.cur => obj'[id] = obj[id]
      <4>1. 0 \in Nat /\ VecType
        BY <1>0, TypeParts
      <4> QED BY <3>1, <4>1, <1>1, NextType
    <3> QED BY <3>1, <3>2, <1>0, <1>3
            DEF ResetDone, InReset, ResetReachesAllButOvertaken, Updating
  <2> QED BY <2>1, <2>2
<1>14. CASE Step
  <2>1. /\ UNCHANGED <<ecs, obj, stale>> /\ sim.pc = "step"
        /\ sim'.pc \in {"idle", "size"}
        /\ simTime' = simTime \/ simTime' = simTime + StepTime
    BY <1>14, <1>3 DEF Step, vecVars
  <2>2. ~InReset'
    BY <2>1 DEF InReset
  <2>3. simTime' \in Nat /\ simTime <= simTime'
    BY <2>1, <1>3, ClockAssumption
  <2>4. ASSUME NEW k \in DOMAIN ecs, ecs[k] \notin stale
        PROVE  obj[ecs[k]].next <= simTime' + Period[obj[ecs[k]].ec]
    <3>1. obj[ecs[k]].next <= simTime + Period[obj[ecs[k]].ec]
      BY <2>1, <2>4, <1>0 DEF ResetReachesAllButOvertaken, Updating
    <3>2. ecs[k] \in Id
      BY <1>2
    <3>3. obj[ecs[k]].next \in Nat /\ Period[obj[ecs[k]].ec] \in Nat
      BY <3>2, <1>4
    <3> QED BY <3>1, <3>3, <2>3, <1>3
  <2> QED BY <2>1, <2>2, <2>4 DEF ResetDone, ResetReachesAllButOvertaken
<1>15. CASE ExecuteOk
  <2>1. /\ sim.pc = "execute" /\ sim.cur \in Id
        /\ sim'.pc = "size" /\ UNCHANGED <<ecs, stale, simTime>>
    BY <1>15, <1>3 DEF ExecuteOk, Fetched
  <2>2. ~InReset' /\ Updating
    BY <2>1 DEF InReset, Updating
  <2>3. CASE UNCHANGED obj
    BY <2>1, <2>2, <2>3, <1>0 DEF ResetDone, ResetReachesAllButOvertaken
  <2>4. CASE ~UNCHANGED obj
    <3>1. /\ obj' = [obj EXCEPT ![sim.cur].next = Executed(sim.cur)]
          /\ simTime >= obj[sim.cur].next
      BY <2>4, <1>15 DEF ExecuteOk, Due
    <3>2. Executed(sim.cur) \in Nat
          /\ Executed(sim.cur) <= simTime + Period[obj[sim.cur].ec]
      <4>1. obj[sim.cur].next \in Nat /\ Period[obj[sim.cur].ec] \in Nat
        BY <2>1, <1>4
      <4> QED BY <3>1, <4>1, <1>3 DEF Executed
    <3>3. /\ obj'[sim.cur].next = Executed(sim.cur)
          /\ obj'[sim.cur].ec = obj[sim.cur].ec
          /\ \A id \in Id : id # sim.cur => obj'[id] = obj[id]
      <4>1. VecType
        BY <1>0, TypeParts
      <4> QED BY <3>1, <3>2, <4>1, <2>1, <1>1, NextType
    <3>4. ASSUME NEW k \in DOMAIN ecs, ecs[k] \notin stale
          PROVE  obj'[ecs[k]].next <= simTime + Period[obj'[ecs[k]].ec]
      <4>1. CASE ecs[k] = sim.cur
        BY <4>1, <3>2, <3>3
      <4>2. CASE ecs[k] # sim.cur
        <5>1. obj'[ecs[k]] = obj[ecs[k]]
          BY <4>2, <3>3, <1>2
        <5>2. obj[ecs[k]].next <= simTime + Period[obj[ecs[k]].ec]
          BY <2>2, <3>4, <1>0 DEF ResetReachesAllButOvertaken
        <5> QED BY <5>1, <5>2
      <4> QED BY <4>1, <4>2
    <3> QED BY <2>1, <2>2, <3>4 DEF ResetDone, ResetReachesAllButOvertaken
  <2> QED BY <2>3, <2>4
<1> QED BY <1>7, <1>8, <1>9, <1>10, <1>11, <1>12, <1>13, <1>14, <1>15
        DEF Next, SimNext

\* The simulation side rewrites next execution times, never the context of an
\* object.
LEMMA SimKeepsOwner ==
    ASSUME TypeOK, SimNext
    PROVE  \A id \in Id : obj'[id].ec = obj[id].ec
<1>1. /\ VecType /\ Id = 1..Len(obj)
      /\ sim.pc \in {"reset", "execute"} => sim.cur \in Id
  <2>1. VecType
    BY TypeParts
  <2>2. obj \in Seq([ec : EC, next : Nat])
    BY <2>1 DEF VecType
  <2> QED BY <2>1, <2>2 DEF Id, TypeOK
<1>2. CASE UNCHANGED obj
  BY <1>2
<1>3. CASE ~UNCHANGED obj
  <2>1. \/ sim.pc = "reset" /\ obj' = [obj EXCEPT ![sim.cur].next = 0]
        \/ /\ sim.pc = "execute"
           /\ obj' = [obj EXCEPT ![sim.cur].next = Executed(sim.cur)]
    BY <1>3 DEF SimNext, StartSim, ResetSize, ResetGet, ResetOne, Reset, Step,
         StopSim, UpdateSize, UpdateGet, ExecuteOk, ExecuteFail, vecVars
  <2>2. sim.cur \in Id
    BY <2>1, <1>1
  <2>3. Executed(sim.cur) \in Nat /\ 0 \in Nat
    <3>1. obj[sim.cur] \in [ec : EC, next : Nat]
      BY <2>2, <1>1, ValueOfSeq DEF VecType
    <3> QED BY <3>1, ClockAssumption DEF Executed
  <2>4. /\ obj'[sim.cur].ec = obj[sim.cur].ec
        /\ \A id \in Id : id # sim.cur => obj'[id] = obj[id]
    BY ZenonT(60), <2>1, <2>2, <2>3, <1>1, NextType
  <2> QED BY <2>4
<1> QED BY <1>2, <1>3

\* An entry leaves the Vector by its own context's unsubscribe, which ends with
\* m_running cleared, or after a remote call to its dead process raised.
LEMMA RunningStep ==
    ASSUME TypeOK, RunningStaysSubscribed, Next
    PROVE  RunningStaysSubscribed'
<1>0. /\ ecs \in Seq(Id) /\ Len(ecs) \in Nat /\ DOMAIN ecs = 1..Len(ecs)
      /\ \A k \in 1..Len(ecs) : ecs[k] \in Id
      /\ running \in [EC -> BOOLEAN] /\ alive \in [EC -> BOOLEAN]
  BY HistoryType DEF TypeOK
<1>1. call \in [EC -> [op : Ops, i : Nat, cur : Id \cup {0}]]
  BY DEF TypeOK
<1>2. ASSUME NEW d \in EC, ecs' = ecs,
             \A id \in Id : obj'[id].ec = obj[id].ec,
             \E k \in DOMAIN ecs : obj[ecs[k]].ec = d
      PROVE  \E k \in DOMAIN ecs' : obj'[ecs'[k]].ec = d
  BY <1>0, <1>2
<1>3. ASSUME NEW d \in EC, NEW id, ecs' = RemoveElem(ecs, id), UNCHANGED obj,
             obj[id].ec # d, \E k \in DOMAIN ecs : obj[ecs[k]].ec = d
      PROVE  \E k \in DOMAIN ecs' : obj'[ecs'[k]].ec = d
  <2> PICK k \in 1..Len(ecs) : obj[ecs[k]].ec = d
    BY <1>0, <1>3
  <2>1. ecs[k] # id
    BY <1>3
  <2>2. PICK j \in 1..Len(ecs') : ecs'[j] = ecs[k]
    BY <1>0, <1>3, <2>1, RemoveElemKeeps
  <2>3. ecs' \in Seq(Id)
    BY <1>0, <1>3, RemoveElemType
  <2>4. DOMAIN ecs' = 1..Len(ecs')
    BY <2>3
  <2> QED BY <1>3, <2>2, <2>4
<1>4. ASSUME NEW c \in EC, Subscribe(c) PROVE RunningStaysSubscribed'
  <2>1. /\ Len(ecs') = Len(ecs) + 1
        /\ ecs'[Len(ecs) + 1] = Len(obj) + 1
        /\ \A k \in 1..Len(ecs) : ecs'[k] = ecs[k] /\ ecs[k] \in 1..Len(obj)
        /\ obj'[Len(obj) + 1] = [ec |-> c, next |-> 0]
        /\ \A id \in 1..Len(obj) : obj'[id] = obj[id]
    BY <1>4, SubscribeVec
  <2>2. DOMAIN ecs' = 1..(Len(ecs) + 1)
    BY <1>4, <1>0, <2>1 DEF Subscribe, AddEntry
  <2>3. UNCHANGED <<running, alive>> /\ \A d \in EC : d # c => call'[d] = call[d]
    BY <1>4, <1>1 DEF Subscribe
  <2>4. ASSUME NEW d \in EC, running'[d], alive'[d], call'[d].op # "subscribe"
        PROVE  \E k \in DOMAIN ecs' : obj'[ecs'[k]].ec = d
    <3>1. CASE d = c
      <4>1. obj'[ecs'[Len(ecs) + 1]].ec = d
        BY <3>1, <2>1
      <4> QED BY <4>1, <2>2, <1>0
    <3>2. CASE d # c
      <4>1. PICK k \in 1..Len(ecs) : obj[ecs[k]].ec = d
        BY <3>2, <2>3, <2>4, <1>0 DEF RunningStaysSubscribed
      <4>2. k \in DOMAIN ecs'
        BY <2>2, <1>0
      <4> QED BY <4>1, <4>2, <2>1
    <3> QED BY <3>1, <3>2
  <2> QED BY <2>4 DEF RunningStaysSubscribed
<1>5. ASSUME NEW c \in EC, ECStart(c) \/ ECStop(c) \/ UnsubSize(c)
                             \/ UnsubGet(c) \/ Die(c)
      PROVE  RunningStaysSubscribed'
  <2>1. UNCHANGED <<ecs, obj>>
    BY <1>5 DEF ECStart, ECStop, UnsubSize, UnsubGet, Die, vecVars
  <2>2. ASSUME NEW d \in EC, running'[d], alive'[d], call'[d].op # "subscribe"
        PROVE  running[d] /\ alive[d] /\ call[d].op # "subscribe"
    <3>1. CASE ECStart(c)
      BY <3>1, <2>2, <1>0, <1>1 DEF ECStart, Idle
    <3>2. CASE ECStop(c)
      BY <3>2, <2>2, <1>0, <1>1 DEF ECStop, Idle
    <3>3. CASE UnsubSize(c)
      BY <3>3, <2>2, <1>0, <1>1 DEF UnsubSize, Idle
    <3>4. CASE UnsubGet(c)
      BY <3>4, <2>2, <1>0, <1>1 DEF UnsubGet, Idle
    <3>5. CASE Die(c)
      BY <3>5, <2>2, <1>0, <1>1 DEF Die
    <3> QED BY <1>5, <3>1, <3>2, <3>3, <3>4, <3>5
  <2> QED BY <2>1, <2>2 DEF RunningStaysSubscribed
<1>6. ASSUME NEW c \in EC, UnsubMatch(c) PROVE RunningStaysSubscribed'
  <2>1. ASSUME NEW d \in EC, running'[d], alive'[d], call'[d].op # "subscribe"
        PROVE  running[d] /\ alive[d] /\ call[d].op # "subscribe"
    BY <1>6, <2>1, <1>0, <1>1 DEF UnsubMatch, Idle
  <2>2. CASE obj[call[c].cur].ec = c
    <3>1. /\ ecs' = RemoveElem(ecs, call[c].cur) /\ UNCHANGED obj
          /\ ~running'[c]
      BY <2>2, <1>6, <1>0 DEF UnsubMatch, Unsubscribed
    <3> QED BY <2>1, <2>2, <3>1, <1>3 DEF RunningStaysSubscribed
  <2>3. CASE obj[call[c].cur].ec # c
    <3>1. UNCHANGED <<ecs, obj>>
      BY <2>3, <1>6 DEF UnsubMatch
    <3> QED BY <2>1, <3>1 DEF RunningStaysSubscribed
  <2> QED BY <2>2, <2>3
<1>7. CASE SimNext
  <2>1. UNCHANGED <<running, alive, call>>
    BY <1>7 DEF SimNext, StartSim, ResetSize, ResetGet, ResetOne, Step, StopSim,
         UpdateSize, UpdateGet, ExecuteOk, ExecuteFail, corba
  <2>2. CASE ecs' = ecs
    <3>1. \A id \in Id : obj'[id].ec = obj[id].ec
      BY <1>7, <2>2, SimKeepsOwner
    <3> QED BY <2>1, <2>2, <3>1, <1>2 DEF RunningStaysSubscribed
  <2>3. CASE ecs' # ecs
    <3>1. /\ ~alive[obj[sim.cur].ec] /\ ecs' = RemoveElem(ecs, sim.cur)
          /\ UNCHANGED obj
      BY <1>7, <2>3, SimVec
    <3> QED BY <2>1, <3>1, <1>3 DEF RunningStaysSubscribed
  <2> QED BY <2>2, <2>3
<1>8. CASE ClientNext
  BY <1>8, <1>4, <1>5, <1>6 DEF ClientNext
<1> QED BY <1>7, <1>8 DEF Next

\* ClockInv is inductive.
LEMMA ClockStep == ClockInv /\ [Next]_vars => ClockInv'
<1>1. ASSUME ClockInv, UNCHANGED vars PROVE ClockInv'
  <2>1. TypeOK'
    BY <1>1, TypeStep DEF ClockInv
  <2> QED BY <2>1, <1>1
        DEF vars, ClockInv, Distinct, DoneBehind, Overtaken, Doomed, Border,
            InPass, InReset, Fetched, ResetDone, ResetReachesAllButOvertaken,
            RunningStaysSubscribed, Updating
<1>2. ASSUME ClockInv, Next PROVE ClockInv'
  <2>1. TypeOK'
    BY <1>2, TypeStep DEF ClockInv
  <2>2. Distinct' /\ DoneBehind' /\ Overtaken' /\ RunningStaysSubscribed'
    BY <1>2, DistinctStep, DoneBehindStep, OvertakenStep, RunningStep
       DEF ClockInv
  <2>3. ResetDone' /\ ResetReachesAllButOvertaken'
    BY <1>2, <2>2, ResetStep
  <2> QED BY <2>1, <2>2, <2>3 DEF ClockInv
<1> QED BY <1>1, <1>2

\* What ClockInv says of a single state.
LEMMA ClockSafe ==
    ASSUME ClockInv
    PROVE  /\ ExecutedOncePerPass /\ OvertakenOnlyByDepartures
           /\ ResetReachesAllButOvertaken /\ RunningStaysSubscribed
<1>1. ExecutedOncePerPass
  BY DEF ClockInv, DoneBehind, Fetched, ExecutedOncePerPass
<1>2. ASSUME NEW k \in DOMAIN ecs
      PROVE  missed[ecs[k]] + (k - 1) <= ahead[ecs[k]] + 1
  <2>1. k \in 1..Len(ecs) /\ Len(ecs) \in Nat
    BY <1>2, HistoryType, ValueOfSeq DEF ClockInv
  <2>2. missed[ecs[k]] \in Nat /\ ahead[ecs[k]] \in Nat
    BY <2>1, HistoryType DEF ClockInv
  <2>3. missed[ecs[k]] + (k - 1) + (IF Doomed(k) THEN 1 ELSE 0)
            <= ahead[ecs[k]] + 1
    BY <2>1 DEF ClockInv, Overtaken
  <2>4. CASE Doomed(k)
    BY <2>1, <2>2, <2>3, <2>4
  <2>5. CASE ~Doomed(k)
    BY <2>1, <2>2, <2>3, <2>5
  <2> QED BY <2>4, <2>5
<1> QED BY <1>1, <1>2 DEF OvertakenOnlyByDepartures, ClockInv

\* No pass over ecs_, of a reset or of a simulation step, visits an
\* ExecutionContext twice, for any number of contexts and subscriptions.
THEOREM VisitedOnce == Spec => []ExecutedOncePerPass
  BY ClockInit, ClockStep, ClockSafe, PTL DEF Spec

\* The unlocked loop of updateExecutionContext loses at most as many ticks of
\* an entry as entries before it have left, and one more.
THEOREM SkipsAreBounded == Spec => []OvertakenOnlyByDepartures
  BY ClockInit, ClockStep, ClockSafe, PTL DEF Spec

\* No context is left waiting for times of an earlier simulation unless
\* resetClockReceivers skipped its entry.
THEOREM ResetIsEffective == Spec => []ResetReachesAllButOvertaken
  BY ClockInit, ClockStep, ClockSafe, PTL DEF Spec

\* A live context that started and did not stop keeps its entry, whatever the
\* other contexts and the simulation do.
THEOREM RunningKeepsEntry == Spec => []RunningStaysSubscribed
  BY ClockInit, ClockStep, ClockSafe, PTL DEF Spec

=============================================================================
