------------------------- MODULE ModelLoaderProofs -------------------------
(* Proofs that ModelLoader's properties hold for any number of clients,    *)
(* edits, seconds and objects.                                             *)
EXTENDS ModelLoader, SequenceTheorems, TLAPS

-----------------------------------------------------------------------------
(* The inductive invariant.                                                *)

Body == [main : Nat, inline : Nat, shape : Seq({"origin", "box"}),
         lastUpdateTime : Nat, inlineTime : Nat]
Asked == [at : Ats, option : Shapes, variable : BOOLEAN, stat : Nat,
          asked : [File -> Nat], object : Nat, target : Nat]

\* The types of TypeOK without its bounds.
LoaderTypes ==
    /\ env \in Environments
    /\ now \in 1..MaxTime
    /\ version \in [File -> 1..MaxEdits] /\ mtime \in [File -> 1..now]
    /\ objects \in Seq(Body) /\ cache \in 0..Len(objects)
    /\ call \in [Client -> Asked]

\* An object x was read from versions that exist. Its times tell, as long as a file
\* is not written, whether x holds what is in the file: what has the current version
\* has the current time, and if nobody disturbs a load the other way round, too.
BodyOK(x) ==
    /\ x.main \in 1..version["main"] /\ x.inline \in 0..version["inline"]
    /\ x.lastUpdateTime <= mtime["main"] /\ x.inlineTime <= mtime["inline"]
    /\ x.lastUpdateTime # 0 /\ x.main = version["main"]
          => x.lastUpdateTime = mtime["main"]
    /\ x.inlineTime # 0 /\ x.inline = version["inline"]
          => x.inlineTime = mtime["inline"]
    /\ env.calm /\ x.lastUpdateTime = mtime["main"] => x.main = version["main"]
    /\ env.calm /\ x.inlineTime = mtime["inline"] => x.inline = version["inline"]

BodiesOK == \A o \in 1..Len(objects) : BodyOK(objects[o])

\* A call k, by itself.
CallOK(k) ==
    /\ k.stat <= mtime["main"] /\ \A f \in File : k.asked[f] \in 1..version[f]
    /\ k.at \notin {"idle", "lookup", "read"} => k.object # 0
    /\ k.at = "fill" => k.target # 0
    /\ k.at = "lookup" => k.stat # 0
    /\ k.at = "lookup" /\ k.asked["main"] = version["main"] => k.stat = mtime["main"]

CallsOK ==
    \A c \in Client :
        /\ CallOK(call[c])
        /\ call[c].object \in 0..Len(objects) /\ call[c].target \in 0..Len(objects)

\* Where a call has its object out of the map, or has finished it.
Looked == {"checkInline", "take", "convert", "convertEntry", "fill", "done"}

\* An object x is not older than what a call k at one of these found.
NewEnough(k, x) ==
    /\ k.at \in Looked => x.main >= k.asked["main"]
    /\ k.at \in Looked \ {"checkInline"} => x.inline >= k.asked["inline"]

\* A call k and the object x it works on.
WorksOn(k, x) ==
    /\ k.at \in {"readInline", "statInline"} => x.inlineTime = 0
    /\ k.at \in {"checkInline", "insert", "stamp"} => x.inlineTime # 0
    /\ env.calm =>
          /\ k.at \in {"readInline", "statInline", "insert", "stamp"}
                => x.main = version["main"]
          /\ k.at \in {"statInline", "insert", "stamp"} => x.inline = version["inline"]
          /\ NewEnough(k, x)

ObjectsOfCalls ==
    \A c \in Client : call[c].object # 0 => WorksOn(call[c], Object(c))

\* What comes into the map while a call looks at its entry is new enough for it, too.
EntriesOK ==
    env.calm /\ cache # 0 =>
        \A c \in Client :
            call[c].at \in {"checkInline", "take"} => NewEnough(call[c], objects[cache])

\* Nobody else has an object that is not in the map yet.
LoadsApart ==
    \A c \in Client : call[c].at \in {"readInline", "statInline", "insert"} =>
        /\ call[c].object # cache
        /\ \A d \in Client \ {c} : call[d].object # call[c].object

\* If a call finds an object with the time it has taken, the object is new enough.
LookedUp ==
    env.calm =>
        \A c \in Client : \A o \in 1..Len(objects) :
            /\ call[c].at = "lookup" /\ objects[o].lastUpdateTime = call[c].stat
            => objects[o].main >= call[c].asked["main"]

\* An object in the map is complete but for its own time.
CacheComplete == cache # 0 => objects[cache].inlineTime # 0

\* The inductive invariant.
LoaderInv ==
    /\ LoaderTypes
    /\ BodiesOK
    /\ CallsOK
    /\ ObjectsOfCalls
    /\ EntriesOK
    /\ LoadsApart
    /\ LookedUp
    /\ CacheComplete

\* Where conversions of one object do not overlap: the shapes of an object are empty
\* while it is converted, and a call that has boxes made of the entry it finds has
\* them made of the object it returns, unless that one has been replaced.
ShapesInv ==
    /\ env.apart =>
          \A c \in Client : call[c].at = "fill" =>
              /\ objects[call[c].target].shape = <<>>
              /\ Converting(call[c].target) = {c}
              /\ call[c].object = cache => call[c].target = cache
    /\ BoxesAsAsked

-----------------------------------------------------------------------------
(* What the steps do to the objects and the calls.                         *)

\* What the types say of the numbers.
LEMMA LoaderFacts ==
    ASSUME LoaderTypes
    PROVE  /\ Len(objects) \in Nat /\ objects \in [1..Len(objects) -> Body]
           /\ now \in Nat /\ \A f \in File : version[f] \in Nat /\ version[f] >= 1
           /\ \A f \in File : mtime[f] \in Nat /\ mtime[f] >= 1 /\ mtime[f] <= now
           /\ "main" \in File /\ "inline" \in File
<1>1. now \in Nat /\ MaxEdits \in Nat
  BY LoaderAssumption DEF LoaderTypes
<1>2. \A f \in File : version[f] \in 1..MaxEdits /\ mtime[f] \in 1..now
  BY DEF LoaderTypes
<1>3. Len(objects) \in Nat /\ objects \in [1..Len(objects) -> Body]
  BY LenProperties DEF LoaderTypes
<1> QED BY <1>1, <1>2, <1>3 DEF File

\* One object is replaced.
LEMMA BodyReplaced ==
    ASSUME LoaderTypes, NEW k \in 1..Len(objects), NEW x \in Body,
           objects' = [objects EXCEPT ![k] = x]
    PROVE  /\ objects' \in Seq(Body) /\ Len(objects') = Len(objects)
           /\ objects'[k] = x
           /\ \A o \in 1..Len(objects) : o # k => objects'[o] = objects[o]
<1>1. Len(objects) \in Nat /\ objects \in [1..Len(objects) -> Body]
  BY LoaderFacts
<1>2. objects' \in [1..Len(objects) -> Body]
  BY <1>1
<1>3. objects' \in Seq(Body)
  BY <1>1, <1>2, SeqDef
<1>4. Len(objects') = Len(objects)
  BY <1>1, <1>2, <1>3, LenProperties
<1> QED BY <1>1, <1>3, <1>4

\* A call that goes on.
LEMMA CallMoved ==
    ASSUME LoaderTypes, NEW c \in Client, NEW at \in Ats, NEW o \in Nat, At(c, at, o)
    PROVE  /\ call' \in [Client -> Asked]
           /\ call'[c].at = at /\ call'[c].object = o /\ call'[c].stat = 0
           /\ call'[c].option = call[c].option /\ call'[c].asked = call[c].asked
           /\ call'[c].target = 0
           /\ \A d \in Client : d # c => call'[d] = call[d]
<1>1. call[c] \in Asked /\ call \in [Client -> Asked]
  BY DEF LoaderTypes
<1> DEFINE r == [call[c] EXCEPT !.at = at, !.object = o, !.stat = 0,
                                !.variable = FALSE, !.target = 0]
<1>2. /\ r \in Asked /\ r.at = at /\ r.object = o /\ r.stat = 0 /\ r.target = 0
      /\ r.option = call[c].option /\ r.asked = call[c].asked
  BY <1>1 DEF Asked
<1>3. call' = [call EXCEPT ![c] = r]
  BY <1>1 DEF At
<1> HIDE DEF r
<1> QED BY <1>1, <1>2, <1>3

\* A step by which the call c that loads the object k replaces it by x: the new object
\* is as good as the old one for all the others, and does for c where c goes to.
LEMMA LoadStep ==
    ASSUME LoaderInv, UNCHANGED <<now, version, mtime, env>>, NEW c \in Client,
           NEW at \in {"statInline", "insert", "stamp", "convert", "done"},
           NEW k \in 1..Len(objects), NEW x \in Body, k = call[c].object,
           call[c].at \in {"readInline", "statInline", "insert", "stamp"},
           At(c, at, k), objects' = [objects EXCEPT ![k] = x],
           cache' = cache \/ (cache' = k /\ call[c].at = "insert" /\ x.inlineTime # 0),
           at \in {"statInline", "insert"} =>
               call[c].at \in {"readInline", "statInline"} /\ cache' = cache,
           BodyOK(x), WorksOn(call'[c], x), x.main = objects[k].main,
           x.inline = objects[k].inline \/ x.inline = version["inline"],
           \/ x.inlineTime = objects[k].inlineTime
           \/ x.inlineTime # 0 /\ call[c].at = "statInline",
           \/ x.lastUpdateTime = objects[k].lastUpdateTime
           \/ env.calm => x.main = version["main"],
           cache' # cache /\ env.calm =>
               x.main = version["main"] /\ x.inline = version["inline"]
    PROVE  LoaderInv'
<1> USE DEF LoaderInv
<1> DEFINE n == Len(objects)
<1>1. /\ n \in Nat /\ objects \in [1..n -> Body]
      /\ \A f \in File : version[f] \in Nat /\ mtime[f] \in Nat
      /\ "main" \in File /\ "inline" \in File /\ k \in Nat /\ k # 0
  BY LoaderFacts
<1>2. /\ objects' \in Seq(Body) /\ Len(objects') = n /\ objects'[k] = x
      /\ \A o \in 1..n : o # k => objects'[o] = objects[o]
  BY BodyReplaced
<1>3. /\ call' \in [Client -> Asked]
      /\ call'[c].at = at /\ call'[c].object = k /\ call'[c].stat = 0
      /\ call'[c].option = call[c].option /\ call'[c].asked = call[c].asked
      /\ call'[c].target = 0
      /\ \A d \in Client : d # c => call'[d] = call[d]
  BY <1>1, CallMoved DEF Ats
<1>4. LoaderTypes'
  BY <1>1, <1>2, <1>3 DEF LoaderTypes
<1>5. BodiesOK'
  <2>1. ASSUME NEW o \in 1..n PROVE BodyOK(objects'[o])
    BY <1>2 DEF BodiesOK
  <2>2. ASSUME NEW o \in 1..n PROVE BodyOK(objects[o])'
    BY <2>1 DEF BodyOK
  <2> QED BY <1>2, <2>2 DEF BodiesOK
<1>6. CallsOK'
  <2> SUFFICES ASSUME NEW d \in Client
        PROVE  /\ CallOK(call'[d])
               /\ call'[d].object \in 0..n /\ call'[d].target \in 0..n
    BY <1>2 DEF CallsOK, CallOK
  <2>1. CASE d # c
    BY <1>3, <2>1 DEF CallsOK
  <2>2. CASE d = c
    <3>1. call'[c].at \notin {"idle", "lookup", "read", "fill"}
      BY <1>3
    <3>2. CallOK(call[c])
      BY DEF CallsOK
    <3> QED BY <1>1, <1>3, <2>2, <3>1, <3>2 DEF CallOK
  <2> QED BY <2>1, <2>2
<1>7. \A d \in Client : \A f \in File :
         call[d].asked[f] \in Nat /\ call[d].asked[f] <= version[f]
  BY <1>1 DEF CallsOK, CallOK
<1>8. objects[k] \in Body /\ objects[k].inline <= version["inline"]
  BY <1>1 DEF BodiesOK, BodyOK
<1>9. ASSUME NEW d \in Client, NewEnough(call[d], objects[k])
      PROVE  NewEnough(call[d], x)
  BY <1>1, <1>7, <1>8, <1>9 DEF NewEnough, Body
<1>10. ObjectsOfCalls'
  <2> SUFFICES ASSUME NEW d \in Client, call'[d].object # 0
               PROVE  WorksOn(call'[d], objects'[call'[d].object])
    BY DEF ObjectsOfCalls, Object, WorksOn, NewEnough
  <2>1. CASE d = c
    BY <1>2, <1>3, <2>1
  <2>2. CASE d # c
    <3>1. /\ call'[d] = call[d] /\ call[d].object \in 1..n
          /\ WorksOn(call[d], objects[call[d].object])
      BY <1>1, <1>3, <2>2 DEF ObjectsOfCalls, Object, CallsOK
    <3>2. CASE call[d].object # k
      BY <1>2, <3>1, <3>2
    <3>3. CASE call[d].object = k
      <4>1. call[d].at \notin {"readInline", "statInline", "insert"}
        BY <2>2, <3>3 DEF LoadsApart
      <4>2. call[c].at # "statInline"
        BY <2>2, <3>3 DEF LoadsApart
      <4>3. x.inlineTime = objects[k].inlineTime
        BY <4>2
      <4>4. WorksOn(call[d], x)
        BY <1>9, <3>1, <3>3, <4>1, <4>3 DEF WorksOn
      <4> QED BY <1>2, <3>1, <3>3, <4>4
    <3> QED BY <3>2, <3>3
  <2> QED BY <2>1, <2>2
<1>11. EntriesOK'
  <2> SUFFICES ASSUME env.calm, cache' # 0, NEW d \in Client,
                      call'[d].at \in {"checkInline", "take"}
               PROVE  NewEnough(call'[d], objects'[cache'])
    BY DEF EntriesOK, NewEnough
  <2>1. d # c /\ call'[d] = call[d]
    BY <1>3
  <2>2. CASE cache' = cache
    <3>1. cache \in 1..n /\ NewEnough(call[d], objects[cache])
      BY <1>1, <2>1, <2>2 DEF EntriesOK, LoaderTypes
    <3> QED BY <1>2, <1>9, <2>1, <2>2, <3>1
  <2>3. CASE cache' # cache
    <3>1. cache' = k /\ x.main = version["main"] /\ x.inline = version["inline"]
      BY <2>3
    <3> QED BY <1>1, <1>2, <1>7, <2>1, <3>1 DEF NewEnough
  <2> QED BY <2>2, <2>3
<1>12. LoadsApart'
  <2> SUFFICES ASSUME NEW d \in Client, call'[d].at \in {"readInline", "statInline", "insert"}
               PROVE  /\ call'[d].object # cache'
                      /\ \A e \in Client \ {d} : call'[e].object # call'[d].object
    BY DEF LoadsApart
  <2>1. \A e \in Client : call'[e].object = call[e].object
    BY <1>3
  <2>2. call[d].at \in {"readInline", "statInline", "insert"}
    BY <1>3
  <2>3. cache' = cache \/ (cache' = k /\ d # c)
    BY <1>3
  <2> QED BY <2>1, <2>2, <2>3 DEF LoadsApart
<1>13. LookedUp'
  <2> SUFFICES ASSUME env.calm, NEW d \in Client, NEW o \in 1..n,
                      call'[d].at = "lookup", objects'[o].lastUpdateTime = call'[d].stat
               PROVE  objects'[o].main >= call'[d].asked["main"]
    BY <1>2 DEF LookedUp
  <2>1. d # c /\ call'[d] = call[d]
    BY <1>3
  <2>2. CASE o # k \/ x.lastUpdateTime = objects[k].lastUpdateTime
    BY <1>2, <2>1, <2>2 DEF LookedUp
  <2>3. CASE o = k /\ x.main = version["main"]
    BY <1>1, <1>2, <1>7, <2>1, <2>3
  <2> QED BY <2>2, <2>3
<1>14. CacheComplete'
  <2>1. CASE cache' = k /\ x.inlineTime # 0
    BY <1>2, <2>1 DEF CacheComplete
  <2>2. CASE cache' = cache
    <3>1. cache # 0 => cache \in 1..n /\ objects[cache].inlineTime # 0
      BY <1>1 DEF LoaderTypes, CacheComplete
    <3>2. cache # 0 => objects'[cache].inlineTime # 0
      BY <1>2, <3>1
    <3> QED BY <2>2, <3>2 DEF CacheComplete
  <2> QED BY <2>1, <2>2
<1> QED BY <1>4, <1>5, <1>6, <1>10, <1>11, <1>12, <1>13, <1>14

\* Nothing of what was read into an object changes.
SameBody(y, x) ==
    /\ y.main = x.main /\ y.inline = x.inline
    /\ y.lastUpdateTime = x.lastUpdateTime /\ y.inlineTime = x.inlineTime

\* A step of the call c that loads nothing: it becomes r, and only shapes change.
LEMMA CallStep ==
    ASSUME LoaderInv, UNCHANGED <<files, cache, env>>, NEW c \in Client,
           NEW r \in Asked, call' = [call EXCEPT ![c] = r],
           objects' \in Seq(Body), Len(objects') = Len(objects),
           \A o \in 1..Len(objects) : SameBody(objects'[o], objects[o]),
           CallOK(r), r.object \in {0, cache, call[c].object},
           r.object \in 0..Len(objects), r.target \in 0..Len(objects),
           r.object # 0 => WorksOn(r, objects[r.object]),
           env.calm /\ cache # 0 /\ r.at \in {"checkInline", "take"}
               => NewEnough(r, objects[cache]),
           r.at \notin {"readInline", "statInline", "insert"},
           r.at = "lookup" => r.stat = mtime["main"] /\ r.asked = version
    PROVE  LoaderInv'
<1> USE DEF LoaderInv
<1> DEFINE n == Len(objects)
<1>1. /\ n \in Nat /\ objects \in [1..n -> Body]
      /\ \A f \in File : version[f] \in Nat /\ mtime[f] \in Nat /\ mtime[f] >= 1
      /\ "main" \in File /\ "inline" \in File
  BY LoaderFacts
<1>2. /\ call' \in [Client -> Asked] /\ call'[c] = r
      /\ \A d \in Client : d # c => call'[d] = call[d]
      /\ UNCHANGED <<now, version, mtime, cache, env>>
  BY DEF LoaderTypes, files
<1>3. LoaderTypes'
  BY <1>2 DEF LoaderTypes
<1>4. BodiesOK'
  <2>1. ASSUME NEW o \in 1..n PROVE BodyOK(objects[o])'
    <3>1. BodyOK(objects[o]) /\ SameBody(objects'[o], objects[o])
      BY DEF BodiesOK
    <3> QED BY <1>2, <3>1 DEF BodyOK, SameBody
  <2> QED BY <2>1 DEF BodiesOK
<1>5. CallsOK'
  <2> SUFFICES ASSUME NEW d \in Client
        PROVE  /\ CallOK(call'[d])
               /\ call'[d].object \in 0..n /\ call'[d].target \in 0..n
    BY <1>2 DEF CallsOK, CallOK
  <2> QED BY <1>2 DEF CallsOK
<1>6. ASSUME NEW o \in 1..n, NEW k PROVE
         /\ NewEnough(k, objects[o]) => NewEnough(k, objects'[o])
         /\ WorksOn(k, objects[o]) => WorksOn(k, objects'[o])
  <2>1. SameBody(objects'[o], objects[o])
    OBVIOUS
  <2> QED BY <2>1 DEF SameBody, WorksOn, NewEnough
<1>7. ObjectsOfCalls'
  <2> SUFFICES ASSUME NEW d \in Client, call'[d].object # 0
               PROVE  WorksOn(call'[d], objects'[call'[d].object])
    BY <1>2 DEF ObjectsOfCalls, Object, WorksOn, NewEnough
  <2>1. call'[d].object \in 1..n
    BY <1>1, <1>2 DEF CallsOK
  <2>2. WorksOn(call'[d], objects[call'[d].object])
    BY <1>2 DEF ObjectsOfCalls, Object
  <2> QED BY <1>6, <2>1, <2>2
<1>8. EntriesOK'
  <2> SUFFICES ASSUME env.calm, cache # 0, NEW d \in Client,
                      call'[d].at \in {"checkInline", "take"}
               PROVE  NewEnough(call'[d], objects'[cache])
    BY <1>2 DEF EntriesOK, NewEnough
  <2>1. cache \in 1..n
    BY <1>1 DEF LoaderTypes
  <2>2. NewEnough(call'[d], objects[cache])
    BY <1>2 DEF EntriesOK
  <2> QED BY <1>6, <2>1, <2>2
<1>9. LoadsApart'
  <2> SUFFICES ASSUME NEW d \in Client, call'[d].at \in {"readInline", "statInline", "insert"}
               PROVE  /\ call'[d].object # cache
                      /\ \A e \in Client \ {d} : call'[e].object # call'[d].object
    BY <1>2 DEF LoadsApart
  <2>1. d # c /\ call'[d] = call[d]
    BY <1>2
  <2>2. call[d].object # cache /\ call[d].object # 0
    BY <2>1 DEF LoadsApart, CallsOK, CallOK
  <2>3. \A e \in Client \ {d} : call[e].object # call[d].object
    BY <2>1 DEF LoadsApart
  <2>4. r.object # call[d].object
    BY <2>1, <2>2, <2>3
  <2> QED BY <1>2, <2>1, <2>2, <2>3, <2>4
<1>10. LookedUp'
  <2> SUFFICES ASSUME env.calm, NEW d \in Client, NEW o \in 1..n,
                      call'[d].at = "lookup", objects'[o].lastUpdateTime = call'[d].stat
               PROVE  objects'[o].main >= call'[d].asked["main"]
    BY <1>2 DEF LookedUp
  <2>1. /\ objects'[o].lastUpdateTime = objects[o].lastUpdateTime
        /\ objects'[o].main = objects[o].main
    BY DEF SameBody
  <2>2. CASE d # c
    BY <1>2, <2>1, <2>2 DEF LookedUp
  <2>3. CASE d = c
    <3>1. objects[o].lastUpdateTime = mtime["main"] /\ r.asked = version
      BY <1>2, <2>1, <2>3
    <3>2. objects[o].main = version["main"]
      BY <3>1 DEF BodiesOK, BodyOK
    <3> QED BY <1>1, <1>2, <2>1, <2>3, <3>1, <3>2
  <2> QED BY <2>2, <2>3
<1>11. CacheComplete'
  <2>1. cache # 0 => cache \in 1..n
    BY <1>1 DEF LoaderTypes
  <2> QED BY <1>2, <2>1 DEF CacheComplete, SameBody
<1> QED BY <1>3, <1>4, <1>5, <1>7, <1>8, <1>9, <1>10, <1>11

\* The same where the shapes do not change either.
LEMMA CallOnlyStep ==
    ASSUME LoaderInv, UNCHANGED <<files, server, env>>, NEW c \in Client,
           NEW r \in Asked, call' = [call EXCEPT ![c] = r],
           CallOK(r), r.object \in {0, cache, call[c].object}, r.target = 0,
           r.object # 0 => WorksOn(r, objects[r.object]),
           env.calm /\ cache # 0 /\ r.at \in {"checkInline", "take"}
               => NewEnough(r, objects[cache]),
           r.at \notin {"readInline", "statInline", "insert"},
           r.at = "lookup" => r.stat = mtime["main"] /\ r.asked = version
    PROVE  LoaderInv'
<1>1. UNCHANGED <<files, cache, env, objects>>
  BY DEF server
<1>2. /\ objects' \in Seq(Body) /\ Len(objects') = Len(objects)
      /\ \A o \in 1..Len(objects) : SameBody(objects'[o], objects[o])
  BY <1>1 DEF SameBody, LoaderInv, LoaderTypes
<1>3. r.object \in 0..Len(objects) /\ r.target \in 0..Len(objects)
  BY LoaderFacts DEF LoaderInv, LoaderTypes, CallsOK
<1> QED BY <1>1, <1>2, <1>3, CallStep

\* The same for a call that At() moves.
LEMMA MovedStep ==
    ASSUME LoaderInv, UNCHANGED <<files, server, env>>, NEW c \in Client,
           NEW at \in {"read", "checkInline", "take", "convertEntry", "done"},
           NEW o \in {0, cache, call[c].object}, At(c, at, o),
           at # "read" => o # 0,
           env.calm /\ at # "read" =>
               /\ objects[o].main >= call[c].asked["main"]
               /\ at # "checkInline" => objects[o].inline >= call[c].asked["inline"],
           at = "checkInline" => objects[o].inlineTime # 0,
           at \in {"checkInline", "take"} => cache \in {0, o}
    PROVE  LoaderInv'
<1> DEFINE r == [call[c] EXCEPT !.at = at, !.object = o, !.stat = 0,
                                !.variable = FALSE, !.target = 0]
<1>1. call[c] \in Asked /\ call \in [Client -> Asked] /\ o \in Nat /\ CallOK(call[c])
  BY LoaderFacts DEF LoaderInv, LoaderTypes, CallsOK
<1>2. /\ r \in Asked /\ r.at = at /\ r.object = o /\ r.stat = 0 /\ r.target = 0
      /\ r.option = call[c].option /\ r.asked = call[c].asked
  BY <1>1 DEF Asked, Ats
<1>3. call' = [call EXCEPT ![c] = r]
  BY <1>1 DEF At
<1> HIDE DEF r
<1>4. CallOK(r)
  <2>1. 0 <= mtime["main"]
    BY LoaderFacts DEF LoaderInv
  <2> QED BY <1>1, <1>2, <2>1 DEF CallOK
<1>5. /\ r.object # 0 => WorksOn(r, objects[r.object])
      /\ env.calm /\ cache # 0 /\ r.at \in {"checkInline", "take"}
             => NewEnough(r, objects[cache])
  <2>1. env.calm => NewEnough(r, objects[o])
    BY <1>2 DEF NewEnough, Looked
  <2> QED BY <1>2, <2>1 DEF WorksOn
<1> QED BY <1>2, <1>3, <1>4, <1>5, CallOnlyStep

\* The object of a call that is past its lookup is one of the objects.
LEMMA HasObject ==
    ASSUME LoaderInv, NEW c \in Client, call[c].at \notin {"idle", "lookup", "read"}
    PROVE  /\ call[c].object \in 1..Len(objects) /\ Object(c) \in Body
           /\ BodyOK(Object(c)) /\ WorksOn(call[c], Object(c))
<1>1. Len(objects) \in Nat /\ objects \in [1..Len(objects) -> Body]
  BY LoaderFacts DEF LoaderInv
<1>2. call[c].object \in 1..Len(objects)
  BY <1>1 DEF LoaderInv, CallsOK, CallOK
<1> QED BY <1>1, <1>2 DEF LoaderInv, BodiesOK, ObjectsOfCalls, Object

\* The inlined file is read into the object.
LEMMA ReadInlineStep ==
    ASSUME LoaderInv, NEW c \in Client, ReadInline(c)
    PROVE  LoaderInv'
<1> DEFINE k == call[c].object
           x == [objects[k] EXCEPT !.inline = version["inline"]]
<1>1. call[c].at = "readInline" /\ UNCHANGED <<now, version, mtime, env, cache>>
  BY DEF ReadInline, files
<1>2. /\ k \in 1..Len(objects) /\ objects[k] \in Body
      /\ BodyOK(objects[k]) /\ WorksOn(call[c], objects[k])
  BY <1>1, HasObject DEF Object
<1>3. /\ version["inline"] \in Nat /\ version["inline"] >= 1
      /\ mtime["inline"] \in Nat /\ mtime["inline"] >= 1 /\ k \in Nat
  BY <1>2, LoaderFacts DEF LoaderInv
<1>4. /\ x \in Body /\ x.inline = version["inline"] /\ x.main = objects[k].main
      /\ x.lastUpdateTime = objects[k].lastUpdateTime
      /\ x.inlineTime = objects[k].inlineTime
  BY <1>2, <1>3 DEF Body
<1>5. objects[k].inlineTime = 0
  BY <1>1, <1>2 DEF WorksOn
<1>6. objects' = [objects EXCEPT ![k] = x] /\ At(c, "statInline", k)
  BY DEF ReadInline
<1>7. call'[c].at = "statInline"
  BY <1>3, <1>6, CallMoved DEF LoaderInv, Ats
<1> HIDE DEF x
<1>8. BodyOK(x)
  BY <1>2, <1>3, <1>4, <1>5 DEF BodyOK
<1>9. WorksOn(call'[c], x)
  BY <1>1, <1>2, <1>4, <1>5, <1>7 DEF WorksOn, NewEnough, Looked
<1> QED BY <1>1, <1>2, <1>4, <1>6, <1>8, <1>9, LoadStep

\* The time of the inlined file is entered.
LEMMA StatInlineStep ==
    ASSUME LoaderInv, NEW c \in Client, StatInline(c)
    PROVE  LoaderInv'
<1> DEFINE k == call[c].object
           x == [objects[k] EXCEPT !.inlineTime = mtime["inline"]]
<1>1. call[c].at = "statInline" /\ UNCHANGED <<now, version, mtime, env, cache>>
  BY DEF StatInline, files
<1>2. /\ k \in 1..Len(objects) /\ objects[k] \in Body
      /\ BodyOK(objects[k]) /\ WorksOn(call[c], objects[k])
  BY <1>1, HasObject DEF Object
<1>3. mtime["inline"] \in Nat /\ mtime["inline"] >= 1 /\ k \in Nat
  BY <1>2, LoaderFacts DEF LoaderInv
<1>4. /\ x \in Body /\ x.inlineTime = mtime["inline"] /\ x.main = objects[k].main
      /\ x.lastUpdateTime = objects[k].lastUpdateTime
      /\ x.inline = objects[k].inline
  BY <1>2, <1>3 DEF Body
<1>5. objects' = [objects EXCEPT ![k] = x] /\ At(c, "insert", k)
  BY DEF StatInline
<1>6. call'[c].at = "insert"
  BY <1>3, <1>5, CallMoved DEF LoaderInv, Ats
<1> HIDE DEF x
<1>7. BodyOK(x)
  BY <1>1, <1>2, <1>3, <1>4 DEF BodyOK, WorksOn
<1>8. WorksOn(call'[c], x)
  BY <1>1, <1>2, <1>3, <1>4, <1>6 DEF WorksOn, NewEnough, Looked
<1>9. x.inlineTime # 0
  BY <1>3, <1>4
<1> QED BY <1>1, <1>2, <1>4, <1>5, <1>7, <1>8, <1>9, LoadStep

\* The object is entered in the map.
LEMMA InsertStep ==
    ASSUME LoaderInv, NEW c \in Client, Insert(c)
    PROVE  LoaderInv'
<1> DEFINE k == call[c].object
           x == objects[k]
<1>1. /\ call[c].at = "insert" /\ cache' = k /\ At(c, "stamp", k)
      /\ UNCHANGED <<now, version, mtime, env, objects>>
  BY DEF Insert, files
<1>2. /\ k \in 1..Len(objects) /\ x \in Body /\ BodyOK(x) /\ WorksOn(call[c], x)
  BY <1>1, HasObject DEF Object
<1>3. k \in Nat /\ objects \in [1..Len(objects) -> Body]
  BY <1>2, LoaderFacts DEF LoaderInv
<1>4. objects' = [objects EXCEPT ![k] = x]
  BY <1>1, <1>2, <1>3
<1>5. call'[c].at = "stamp"
  BY <1>1, <1>3, CallMoved DEF LoaderInv, Ats
<1>6. WorksOn(call'[c], x) /\ x.inlineTime # 0
  BY <1>1, <1>2, <1>5 DEF WorksOn, NewEnough, Looked
<1>7. env.calm => x.main = version["main"] /\ x.inline = version["inline"]
  BY <1>1, <1>2 DEF WorksOn
<1> QED BY <1>1, <1>2, <1>4, <1>6, <1>7, LoadStep

\* The time of the main file is entered, which nobody has written meanwhile if
\* nobody writes during a load.
LEMMA StampStep ==
    ASSUME LoaderInv, NEW c \in Client, Stamp(c)
    PROVE  LoaderInv'
<1> DEFINE k == call[c].object
           x == [objects[k] EXCEPT !.lastUpdateTime = mtime["main"]]
           at == IF call[c].option = "boxes" THEN "convert" ELSE "done"
<1>1. call[c].at = "stamp" /\ UNCHANGED <<now, version, mtime, env, cache>>
  BY DEF Stamp, files
<1>2. /\ k \in 1..Len(objects) /\ objects[k] \in Body
      /\ BodyOK(objects[k]) /\ WorksOn(call[c], objects[k])
  BY <1>1, HasObject DEF Object
<1>3. /\ mtime["main"] \in Nat /\ mtime["main"] >= 1 /\ k \in Nat
      /\ \A f \in File : version[f] \in Nat
      /\ "main" \in File /\ "inline" \in File
  BY <1>2, LoaderFacts DEF LoaderInv
<1>4. /\ x \in Body /\ x.lastUpdateTime = mtime["main"] /\ x.main = objects[k].main
      /\ x.inline = objects[k].inline /\ x.inlineTime = objects[k].inlineTime
  BY <1>2, <1>3 DEF Body
<1>5. objects' = [objects EXCEPT ![k] = x] /\ At(c, at, k)
  BY DEF Stamp, StampTime
<1>6. at \in {"convert", "done"} /\ call'[c].at = at /\ call'[c].asked = call[c].asked
  <2>1. at \in {"convert", "done"} /\ at \in Ats
    BY DEF Ats
  <2> QED BY <1>3, <1>5, <2>1, CallMoved DEF LoaderInv
<1>7. \A f \in File : call[c].asked[f] \in 1..version[f]
  BY DEF LoaderInv, CallsOK, CallOK
<1> HIDE DEF x, at
<1>8. BodyOK(x)
  BY <1>1, <1>2, <1>3, <1>4 DEF BodyOK, WorksOn
<1>9. WorksOn(call'[c], x)
  BY <1>1, <1>2, <1>3, <1>4, <1>6, <1>7 DEF WorksOn, NewEnough, Looked
<1>10. env.calm => x.main = version["main"]
  BY <1>1, <1>2, <1>4 DEF WorksOn
<1>11. /\ at \in {"statInline", "insert", "stamp", "convert", "done"}
       /\ at \notin {"statInline", "insert"} /\ x.inline = objects[k].inline
       /\ k = call[c].object
  BY <1>4, <1>6
<1> HIDE DEF k
<1> QED BY <1>1, <1>2, <1>4, <1>5, <1>8, <1>9, <1>10, <1>11, LoadStep

\* What a call reads of p->second is an object that does for it.
LEMMA EntryFacts ==
    ASSUME LoaderInv, NEW c \in Client, call[c].at \in {"checkInline", "take"}
    PROVE  /\ Entry(c) \in 1..Len(objects) /\ Entry(c) \in {cache, call[c].object}
           /\ cache \in {0, Entry(c)}
           /\ BodyOK(objects[Entry(c)])
           /\ env.calm => NewEnough(call[c], objects[Entry(c)])
           /\ call[c].at = "checkInline" => objects[Entry(c)].inlineTime # 0
<1>1. CASE cache = 0
  BY <1>1, HasObject DEF Entry, Object, WorksOn
<1>2. CASE cache # 0
  BY <1>2, LoaderFacts DEF Entry, LoaderInv, LoaderTypes, BodiesOK, EntriesOK, CacheComplete
<1> QED BY <1>1, <1>2

\* The cached object is new enough for the call that finds it.
LEMMA CacheFoundStep ==
    ASSUME LoaderInv, NEW c \in Client, CacheFound(c)
    PROVE  LoaderInv'
<1>1. /\ call[c].at = "lookup" /\ Found(c) /\ At(c, "checkInline", cache)
      /\ UNCHANGED <<files, server, env>>
  BY DEF CacheFound
<1>2. cache # 0 /\ cache \in 1..Len(objects) /\ objects[cache].lastUpdateTime = call[c].stat
  BY <1>1, LoaderFacts DEF LoaderInv, LoaderTypes, Found
<1>3. env.calm => objects[cache].main >= call[c].asked["main"]
  BY <1>1, <1>2 DEF LoaderInv, LookedUp
<1>4. objects[cache].inlineTime # 0
  BY <1>2 DEF LoaderInv, CacheComplete
<1> QED BY <1>1, <1>2, <1>3, <1>4, MovedStep

\* Nor has the inlined file been written since, if its time is still the same.
LEMMA CheckInlineStep ==
    ASSUME LoaderInv, NEW c \in Client, CheckInline(c)
    PROVE  LoaderInv'
<1> DEFINE o == Entry(c)
<1>1. call[c].at = "checkInline" /\ UNCHANGED <<files, server, env>>
  BY DEF CheckInline
<1>2. /\ o \in 1..Len(objects) /\ o # 0 /\ o \in {0, cache, call[c].object}
      /\ cache \in {0, o} /\ BodyOK(objects[o])
      /\ env.calm => objects[o].main >= call[c].asked["main"]
  BY <1>1, EntryFacts DEF NewEnough, Looked
<1>3. CASE InlineUnchanged(o)
  <2>1. objects[o].inlineTime = mtime["inline"]
    BY <1>3 DEF InlineUnchanged
  <2>2. env.calm => objects[o].inline = version["inline"]
    BY <1>2, <2>1 DEF BodyOK
  <2>3. call[c].asked["inline"] \in 1..version["inline"] /\ version["inline"] \in Nat
    BY LoaderFacts DEF LoaderInv, CallsOK, CallOK
  <2>4. env.calm => objects[o].inline >= call[c].asked["inline"]
    BY <2>2, <2>3
  <2>5. At(c, "take", o)
    BY <1>3 DEF CheckInline
  <2> HIDE DEF o
  <2> QED BY <1>1, <1>2, <2>4, <2>5, MovedStep
<1>4. CASE ~InlineUnchanged(o)
  <2>1. At(c, "read", 0)
    BY <1>4 DEF CheckInline
  <2> QED BY <1>1, <2>1, MovedStep
<1> QED BY <1>3, <1>4

\* What the call returns is as new.
LEMMA TakeStep ==
    ASSUME LoaderInv, NEW c \in Client, Take(c)
    PROVE  LoaderInv'
<1> DEFINE o == Entry(c)
           at == HitNext(c)
<1>1. call[c].at = "take" /\ UNCHANGED <<files, server, env>> /\ At(c, at, o)
  BY DEF Take
<1>2. /\ o \in 1..Len(objects) /\ o # 0 /\ o \in {0, cache, call[c].object}
      /\ env.calm => /\ objects[o].main >= call[c].asked["main"]
                     /\ objects[o].inline >= call[c].asked["inline"]
  BY <1>1, EntryFacts DEF NewEnough, Looked
<1>3. at \in {"convertEntry", "done"}
  BY DEF HitNext
<1> HIDE DEF o, at
<1> QED BY <1>1, <1>2, <1>3, MovedStep

\* What is converted is the object the call has loaded, or the entry it has found.
LEMMA ClearShapesFacts ==
    ASSUME LoaderInv, NEW c \in Client, ClearShapes(c)
    PROVE  \E o \in 1..Len(objects) :
              /\ call[c].at \in {"convert", "convertEntry"} /\ o \in {cache, call[c].object}
              /\ call[c].object = cache => o = cache
              /\ env.apart => Converting(o) = {}
              /\ objects' = [objects EXCEPT ![o].shape = <<>>]
              /\ call' = [call EXCEPT ![c].at = "fill", ![c].target = o]
              /\ UNCHANGED <<files, cache, env>>
<1>1. PICK o \in IF call[c].at = "convert" THEN {call[c].object} ELSE {Entry(c)} :
         /\ call[c].at \in {"convert", "convertEntry"}
         /\ env.apart => Converting(o) = {}
         /\ objects' = [objects EXCEPT ![o].shape = <<>>]
         /\ call' = [call EXCEPT ![c].at = "fill", ![c].target = o]
         /\ UNCHANGED <<files, cache, env>>
  BY DEF ClearShapes
<1>2. call[c].object \in 1..Len(objects)
  BY <1>1, HasObject
<1>3. cache # 0 => cache \in 1..Len(objects)
  BY LoaderFacts DEF LoaderInv, LoaderTypes
<1>4. o \in 1..Len(objects) /\ o \in {cache, call[c].object} /\ (call[c].object = cache => o = cache)
  BY <1>1, <1>2, <1>3 DEF Entry
<1> QED BY <1>1, <1>4

\* The shapes of one object change.
LEMMA ShapesChanged ==
    ASSUME LoaderTypes, NEW o \in 1..Len(objects), NEW s \in Seq({"origin", "box"}),
           objects' = [objects EXCEPT ![o].shape = s]
    PROVE  /\ objects' \in Seq(Body) /\ Len(objects') = Len(objects)
           /\ \A i \in 1..Len(objects) : SameBody(objects'[i], objects[i])
           /\ objects'[o].shape = s
           /\ \A i \in 1..Len(objects) : i # o => objects'[i] = objects[i]
<1> DEFINE x == [objects[o] EXCEPT !.shape = s]
<1>1. objects \in [1..Len(objects) -> Body] /\ objects[o] \in Body
  BY LoaderFacts
<1>2. /\ x \in Body /\ x.shape = s /\ SameBody(x, objects[o])
  BY <1>1 DEF Body, SameBody
<1>3. objects' = [objects EXCEPT ![o] = x]
  OBVIOUS
<1> HIDE DEF x
<1>4. /\ objects' \in Seq(Body) /\ Len(objects') = Len(objects) /\ objects'[o] = x
      /\ \A i \in 1..Len(objects) : i # o => objects'[i] = objects[i]
  BY <1>2, <1>3, BodyReplaced
<1>5. ASSUME NEW i \in 1..Len(objects) PROVE SameBody(objects'[i], objects[i])
  BY <1>2, <1>4 DEF SameBody
<1> QED BY <1>2, <1>4, <1>5

\* The shapes of an object are cleared.
LEMMA ClearShapesStep ==
    ASSUME LoaderInv, NEW c \in Client, ClearShapes(c)
    PROVE  LoaderInv'
<1>1. PICK o \in 1..Len(objects) :
         /\ call[c].at \in {"convert", "convertEntry"}
         /\ objects' = [objects EXCEPT ![o].shape = <<>>]
         /\ call' = [call EXCEPT ![c].at = "fill", ![c].target = o]
         /\ UNCHANGED <<files, cache, env>>
  BY ClearShapesFacts
<1> DEFINE r == [call[c] EXCEPT !.at = "fill", !.target = o]
<1>2. call[c] \in Asked /\ call \in [Client -> Asked] /\ CallOK(call[c]) /\ o \in Nat
  BY LoaderFacts DEF LoaderInv, LoaderTypes, CallsOK
<1>3. /\ r \in Asked /\ r.at = "fill" /\ r.object = call[c].object /\ r.target = o
      /\ r.stat = call[c].stat /\ r.asked = call[c].asked
  BY <1>2 DEF Asked, Ats
<1>4. call' = [call EXCEPT ![c] = r]
  BY <1>1, <1>2
<1> HIDE DEF r
<1>5. CallOK(r)
  BY <1>1, <1>2, <1>3, LoaderFacts DEF CallOK, LoaderInv
<1>6. call[c].object \in 1..Len(objects) /\ WorksOn(r, objects[r.object])
  BY <1>1, <1>3, HasObject DEF Object, WorksOn, NewEnough, Looked
<1>7. <<>> \in Seq({"origin", "box"})
  OBVIOUS
<1>8. /\ objects' \in Seq(Body) /\ Len(objects') = Len(objects)
      /\ \A i \in 1..Len(objects) : SameBody(objects'[i], objects[i])
  BY <1>1, <1>7, ShapesChanged DEF LoaderInv
<1>9. o \in 0..Len(objects) /\ call[c].object \in 0..Len(objects)
  BY <1>6, LoaderFacts DEF LoaderInv
<1> QED BY <1>1, <1>3, <1>4, <1>5, <1>6, <1>8, <1>9, CallStep

\* The boxes are added.
LEMMA FillShapesStep ==
    ASSUME LoaderInv, NEW c \in Client, FillShapes(c)
    PROVE  LoaderInv'
<1> DEFINE k == call[c].object
           o == call[c].target
           s == Append(objects[o].shape, "box")
           r == [call[c] EXCEPT !.at = "done", !.object = k, !.stat = 0,
                                !.variable = FALSE, !.target = 0]
<1>1. /\ call[c].at = "fill" /\ objects' = [objects EXCEPT ![o].shape = s]
      /\ At(c, "done", k) /\ UNCHANGED <<files, cache, env>>
  BY DEF FillShapes
<1>2. call[c] \in Asked /\ call \in [Client -> Asked] /\ CallOK(call[c]) /\ k \in Nat
  BY LoaderFacts DEF LoaderInv, LoaderTypes, CallsOK
<1>3. /\ r \in Asked /\ r.at = "done" /\ r.object = k /\ r.target = 0
      /\ r.stat = 0 /\ r.asked = call[c].asked
  BY <1>2 DEF Asked, Ats
<1>4. call' = [call EXCEPT ![c] = r]
  BY <1>1, <1>2 DEF At
<1>5. o \in 1..Len(objects) /\ s \in Seq({"origin", "box"})
  <2>1. o \in 1..Len(objects)
    BY <1>1, LoaderFacts DEF LoaderInv, CallsOK, CallOK
  <2>2. objects[o].shape \in Seq({"origin", "box"})
    BY <2>1, LoaderFacts DEF LoaderInv, Body
  <2> QED BY <2>1, <2>2
<1> HIDE DEF r, s
<1>6. CallOK(r)
  BY <1>1, <1>2, <1>3, LoaderFacts DEF CallOK, LoaderInv
<1>7. k \in 1..Len(objects) /\ WorksOn(r, objects[r.object])
  BY <1>1, <1>3, HasObject DEF Object, WorksOn, NewEnough, Looked
<1>8. /\ objects' \in Seq(Body) /\ Len(objects') = Len(objects)
      /\ \A i \in 1..Len(objects) : SameBody(objects'[i], objects[i])
  BY <1>1, <1>5, ShapesChanged DEF LoaderInv
<1>9. k \in 0..Len(objects) /\ 0 \in 0..Len(objects)
  BY <1>7, LoaderFacts DEF LoaderInv
<1> HIDE DEF k, o
<1>10. r.object \in {0, cache, call[c].object}
  BY <1>3 DEF k
<1> QED BY <1>1, <1>3, <1>4, <1>6, <1>7, <1>8, <1>9, <1>10, CallStep

\* A new call.
LEMMA RequestStep ==
    ASSUME LoaderInv, NEW c \in Client, NEW option \in Shapes, Request(c, option)
    PROVE  LoaderInv'
<1>1. /\ \A f \in File : version[f] \in Nat /\ version[f] >= 1
      /\ mtime["main"] \in Nat /\ mtime["main"] >= 1 /\ version \in [File -> Nat]
  BY LoaderFacts, LoaderAssumption DEF LoaderInv, LoaderTypes
<1>2. ASSUME NEW at \in {"lookup", "read"}, NEW variable \in BOOLEAN,
             NEW stat \in {0, mtime["main"]}, at = "lookup" => stat = mtime["main"],
             Begin(c, at, option, variable, stat)
      PROVE  LoaderInv'
  <2> DEFINE r == [at |-> at, option |-> option, variable |-> variable,
                   stat |-> stat, asked |-> version, object |-> 0, target |-> 0]
  <2>1. r \in Asked
    BY <1>1 DEF Asked, Ats
  <2>2. call' = [call EXCEPT ![c] = r] /\ UNCHANGED <<files, server, env>>
    BY <1>2 DEF Begin
  <2>3. /\ r.at = at /\ r.stat = stat /\ r.asked = version
        /\ r.object = 0 /\ r.target = 0
    OBVIOUS
  <2> HIDE DEF r
  <2>4. CallOK(r)
    BY <1>1, <1>2, <2>3 DEF CallOK
  <2> QED BY <1>2, <2>1, <2>2, <2>3, <2>4, CallOnlyStep
<1>3. CASE loadBodyInfo(c, option)
  BY <1>2, <1>3 DEF loadBodyInfo
<1>4. ASSUME NEW variable \in BOOLEAN, getBodyInfo(c, option, variable)
      PROVE  LoaderInv'
  BY <1>2, <1>4 DEF getBodyInfo
<1> QED BY <1>3, <1>4 DEF Request

\* A call that has to load.
LEMMA CacheMissedStep ==
    ASSUME LoaderInv, NEW c \in Client, CacheMissed(c)
    PROVE  LoaderInv'
  BY MovedStep DEF CacheMissed

\* A call that fails to.
LEMMA LoadFailsStep ==
    ASSUME LoaderInv, NEW c \in Client, LoadFails(c)
    PROVE  LoaderInv'
<1>1. /\ NoCall \in Asked /\ NoCall.at = "idle" /\ NoCall.object = 0
      /\ NoCall.stat = 0 /\ NoCall.target = 0 /\ \A f \in File : NoCall.asked[f] = 1
  BY DEF Asked, NoCall, Ats, Shapes
<1>2. call' = [call EXCEPT ![c] = NoCall] /\ UNCHANGED <<files, server, env>>
  BY DEF LoadFails
<1>3. CallOK(NoCall)
  <2>1. /\ \A f \in File : version[f] \in Nat /\ version[f] >= 1
        /\ mtime["main"] \in Nat
    BY LoaderFacts DEF LoaderInv
  <2> QED BY <1>1, <2>1 DEF CallOK
<1> QED BY <1>1, <1>2, <1>3, CallOnlyStep

\* The main file is read into a new object, which no other call has.
LEMMA ReadMainStep ==
    ASSUME LoaderInv, NEW c \in Client, ReadMain(c)
    PROVE  LoaderInv'
<1> USE DEF LoaderInv
<1> DEFINE n == Len(objects)
           x == [main |-> version["main"], inline |-> 0, shape |-> <<"origin">>,
                 lastUpdateTime |-> 0, inlineTime |-> 0]
<1>1. /\ n \in Nat /\ objects \in [1..n -> Body]
      /\ \A f \in File : version[f] \in Nat /\ version[f] >= 1
      /\ \A f \in File : mtime[f] \in Nat /\ mtime[f] >= 1
      /\ "main" \in File /\ "inline" \in File
  BY LoaderFacts
<1>2. /\ call[c].at = "read" /\ objects' = Append(objects, x)
      /\ At(c, "readInline", n + 1)
      /\ UNCHANGED <<now, version, mtime, env, cache>>
  BY DEF ReadMain, files
<1>3. /\ x \in Body /\ x.main = version["main"] /\ x.inline = 0
      /\ x.lastUpdateTime = 0 /\ x.inlineTime = 0
  <2>1. <<"origin">> \in Seq({"origin", "box"})
    OBVIOUS
  <2> QED BY <1>1, <2>1 DEF Body
<1> HIDE DEF x
<1>4. /\ objects' \in Seq(Body) /\ Len(objects') = n + 1 /\ objects'[n + 1] = x
      /\ \A o \in 1..n : objects'[o] = objects[o]
  BY <1>2, <1>3, AppendProperties DEF LoaderTypes
<1>5. /\ call' \in [Client -> Asked]
      /\ call'[c].at = "readInline" /\ call'[c].object = n + 1 /\ call'[c].stat = 0
      /\ call'[c].option = call[c].option /\ call'[c].asked = call[c].asked
      /\ call'[c].target = 0
      /\ \A d \in Client : d # c => call'[d] = call[d]
  BY <1>1, <1>2, CallMoved DEF Ats
<1> HIDE DEF n
<1>6. LoaderTypes'
  <2>1. cache \in 0..(n + 1)
    BY <1>1 DEF LoaderTypes, n
  <2> QED BY <1>2, <1>4, <1>5, <2>1 DEF LoaderTypes
<1>7. BodiesOK'
  <2>1. BodyOK(x)
    BY <1>1, <1>3 DEF BodyOK
  <2>2. ASSUME NEW o \in 1..(n + 1) PROVE BodyOK(objects'[o])
    <3>1. o \in 1..n \/ o = n + 1
      BY <1>1
    <3> QED BY <1>4, <2>1, <3>1 DEF BodiesOK, n
  <2>3. ASSUME NEW o \in 1..(n + 1) PROVE BodyOK(objects[o])'
    BY <1>2, <2>2 DEF BodyOK
  <2> QED BY <1>4, <2>3 DEF BodiesOK
<1>8. CallsOK'
  <2> SUFFICES ASSUME NEW d \in Client
        PROVE  /\ CallOK(call'[d])
               /\ call'[d].object \in 0..(n + 1) /\ call'[d].target \in 0..(n + 1)
    BY <1>2, <1>4 DEF CallsOK, CallOK
  <2>1. CallOK(call[d]) /\ call[d].object \in 0..n /\ call[d].target \in 0..n
    BY DEF CallsOK, n
  <2>2. CASE d # c
    BY <1>1, <1>5, <2>1, <2>2
  <2>3. CASE d = c
    BY <1>1, <1>2, <1>5, <2>1, <2>3 DEF CallOK
  <2> QED BY <2>2, <2>3
<1>9. ObjectsOfCalls'
  <2> SUFFICES ASSUME NEW d \in Client, call'[d].object # 0
               PROVE  WorksOn(call'[d], objects'[call'[d].object])
    BY <1>2 DEF ObjectsOfCalls, Object, WorksOn, NewEnough
  <2>1. CASE d = c
    BY <1>3, <1>4, <1>5, <2>1 DEF WorksOn, NewEnough, Looked
  <2>2. CASE d # c
    <3>1. /\ call'[d] = call[d] /\ call[d].object \in 1..n
          /\ WorksOn(call[d], objects[call[d].object])
      BY <1>1, <1>5, <2>2 DEF ObjectsOfCalls, Object, CallsOK, n
    <3> QED BY <1>4, <3>1
  <2> QED BY <2>1, <2>2
<1>10. cache # 0 => cache \in 1..n
  BY <1>1 DEF LoaderTypes, n
<1>11. EntriesOK'
  <2> SUFFICES ASSUME env.calm, cache # 0, NEW d \in Client,
                      call'[d].at \in {"checkInline", "take"}
               PROVE  NewEnough(call'[d], objects'[cache])
    BY <1>2 DEF EntriesOK, NewEnough
  <2>1. d # c /\ call'[d] = call[d]
    BY <1>5
  <2> QED BY <1>4, <1>10, <2>1 DEF EntriesOK
<1>12. LoadsApart'
  <2>1. \A d \in Client : d # c => call'[d].object # n + 1
    BY <1>1, <1>5 DEF CallsOK, n
  <2>2. cache # n + 1
    BY <1>1, <1>10
  <2> QED BY <1>2, <1>5, <2>1, <2>2 DEF LoadsApart
<1>13. LookedUp'
  <2> SUFFICES ASSUME env.calm, NEW d \in Client, NEW o \in 1..(n + 1),
                      call'[d].at = "lookup", objects'[o].lastUpdateTime = call'[d].stat
               PROVE  objects'[o].main >= call'[d].asked["main"]
    BY <1>2, <1>4 DEF LookedUp
  <2>1. call'[d] = call[d] /\ call[d].stat # 0
    BY <1>5 DEF CallsOK, CallOK
  <2>2. o # n + 1
    BY <1>3, <1>4, <2>1
  <2>3. o \in 1..n
    BY <1>1, <2>2
  <2> QED BY <1>4, <2>1, <2>3 DEF LookedUp, n
<1>14. CacheComplete'
  BY <1>2, <1>4, <1>10 DEF CacheComplete
<1> QED BY <1>6, <1>7, <1>8, <1>9, <1>11, <1>12, <1>13, <1>14

\* A file is written: no object holds its version yet, and if nobody writes twice in
\* a second none has its time.
LEMMA EditStep ==
    ASSUME LoaderInv, NEW f \in File, Edit(f)
    PROVE  LoaderInv'
<1> USE DEF LoaderInv
<1>1. /\ Len(objects) \in Nat /\ objects \in [1..Len(objects) -> Body] /\ now \in Nat
      /\ \A g \in File : version[g] \in Nat /\ version[g] >= 1
      /\ \A g \in File : mtime[g] \in Nat /\ mtime[g] >= 1 /\ mtime[g] <= now
      /\ "main" \in File /\ "inline" \in File
  BY LoaderFacts
<1>2. /\ version[f] < MaxEdits /\ MaxEdits \in Nat
      /\ env.calm => Loading = {} /\ mtime[f] < now
      /\ UNCHANGED <<now, objects, cache, call, env>>
  BY LoaderAssumption DEF Edit, server
<1>3. /\ version' \in [File -> 1..MaxEdits] /\ mtime' \in [File -> 1..now]
      /\ version'[f] = version[f] + 1 /\ mtime'[f] = now
      /\ \A g \in File : g # f => version'[g] = version[g] /\ mtime'[g] = mtime[g]
  BY <1>1, <1>2 DEF Edit, LoaderTypes
<1>4. \A g \in File :
         /\ version'[g] \in Nat /\ version'[g] >= version[g]
         /\ mtime'[g] \in Nat /\ mtime'[g] >= mtime[g]
         /\ version'[g] = version[g] => mtime'[g] = mtime[g]
         /\ env.calm /\ mtime'[g] = mtime[g] => version'[g] = version[g]
  BY <1>1, <1>2, <1>3
<1>5. LoaderTypes'
  BY <1>2, <1>3 DEF LoaderTypes
<1>6. BodiesOK'
  <2> SUFFICES ASSUME NEW o \in 1..Len(objects) PROVE BodyOK(objects[o])'
    BY <1>2 DEF BodiesOK
  <2> DEFINE x == objects[o]
  <2>1. /\ x.main \in Nat /\ x.inline \in Nat
        /\ x.lastUpdateTime \in Nat /\ x.inlineTime \in Nat
    BY <1>1 DEF Body
  <2>2. BodyOK(x)
    BY DEF BodiesOK
  <2> HIDE DEF x
  <2>3. /\ x.main \in 1..version'["main"] /\ x.inline \in 0..version'["inline"]
        /\ x.lastUpdateTime <= mtime'["main"] /\ x.inlineTime <= mtime'["inline"]
    <3>1. /\ version'["main"] >= version["main"] /\ version'["inline"] >= version["inline"]
          /\ mtime'["main"] >= mtime["main"] /\ mtime'["inline"] >= mtime["inline"]
          /\ version'["main"] \in Nat /\ version'["inline"] \in Nat
          /\ mtime'["main"] \in Nat /\ mtime'["inline"] \in Nat
          /\ version["main"] \in Nat /\ version["inline"] \in Nat
          /\ mtime["main"] \in Nat /\ mtime["inline"] \in Nat
      BY <1>1, <1>4
    <3>2. /\ x.main \in 1..version["main"] /\ x.inline \in 0..version["inline"]
          /\ x.lastUpdateTime <= mtime["main"] /\ x.inlineTime <= mtime["inline"]
      BY <2>2 DEF BodyOK
    <3>3. x.main \in 1..version'["main"]
      BY <3>1, <3>2
    <3>4. x.inline \in 0..version'["inline"]
      BY <3>1, <3>2
    <3>5. x.lastUpdateTime <= mtime'["main"]
      BY SMTT(20), <2>1, <3>1, <3>2
    <3>6. x.inlineTime <= mtime'["inline"]
      BY SMTT(20), <2>1, <3>1, <3>2
    <3> QED BY <3>3, <3>4, <3>5, <3>6
  <2>4. /\ x.lastUpdateTime # 0 /\ x.main = version'["main"]
              => x.lastUpdateTime = mtime'["main"]
        /\ x.inlineTime # 0 /\ x.inline = version'["inline"]
              => x.inlineTime = mtime'["inline"]
    BY SMTT(20), <1>1, <1>4, <2>1, <2>2 DEF BodyOK
  <2>5. ASSUME env.calm
        PROVE  /\ x.lastUpdateTime = mtime'["main"] => x.main = version'["main"]
               /\ x.inlineTime = mtime'["inline"] => x.inline = version'["inline"]
    BY SMTT(20), <1>1, <1>4, <2>1, <2>2, <2>5 DEF BodyOK
  <2> QED BY <1>2, <2>3, <2>4, <2>5 DEF BodyOK, x
<1>7. CallsOK'
  <2> SUFFICES ASSUME NEW d \in Client
        PROVE  /\ call[d].stat <= mtime'["main"]
               /\ \A g \in File : call[d].asked[g] \in 1..version'[g]
               /\ call[d].at = "lookup" /\ call[d].asked["main"] = version'["main"]
                    => call[d].stat = mtime'["main"]
    BY <1>2 DEF CallsOK, CallOK
  <2>1. call[d].stat \in Nat /\ \A g \in File : call[d].asked[g] \in Nat
    BY DEF LoaderTypes, Asked
  <2>2. /\ call[d].stat <= mtime["main"]
        /\ \A g \in File : call[d].asked[g] \in 1..version[g]
        /\ call[d].at = "lookup" /\ call[d].asked["main"] = version["main"]
             => call[d].stat = mtime["main"]
    BY DEF CallsOK, CallOK
  <2>3. call[d].stat <= mtime'["main"]
    BY <1>1, <1>4, <2>1, <2>2
  <2>4. \A g \in File : call[d].asked[g] \in 1..version'[g]
    BY <1>1, <1>4, <2>1, <2>2
  <2>5. call[d].asked["main"] = version'["main"] => version'["main"] = version["main"]
    BY <1>1, <1>4, <2>2
  <2>6. call[d].at = "lookup" /\ call[d].asked["main"] = version'["main"]
          => call[d].stat = mtime'["main"]
    BY <1>1, <1>4, <2>2, <2>5
  <2> QED BY <2>3, <2>4, <2>6
<1>8. ObjectsOfCalls'
  <2> SUFFICES ASSUME NEW d \in Client, call[d].object # 0
               PROVE  WorksOn(call[d], Object(d))'
    BY <1>2 DEF ObjectsOfCalls
  <2>1. WorksOn(call[d], Object(d))
    BY DEF ObjectsOfCalls
  <2>2. env.calm => call[d].at \notin {"readInline", "statInline", "insert", "stamp"}
    BY <1>2 DEF Loading
  <2> QED BY <1>2, <2>1, <2>2 DEF WorksOn, NewEnough, Object
<1>9. EntriesOK' /\ LoadsApart' /\ LookedUp' /\ CacheComplete'
  BY <1>2 DEF EntriesOK, NewEnough, LoadsApart, LookedUp, CacheComplete
<1> QED BY <1>5, <1>6, <1>7, <1>8, <1>9

\* Time passes, or the map is cleared.
LEMMA TickStep ==
    ASSUME LoaderInv, Tick \/ clearData \/ UNCHANGED vars
    PROVE  LoaderInv'
<1> USE DEF LoaderInv
<1>1. /\ UNCHANGED <<version, mtime, objects, call, env>>
      /\ now' \in 1..MaxTime /\ mtime \in [File -> 1..now'] /\ cache' \in {0, cache}
  <2>1. /\ UNCHANGED <<version, mtime, objects, call, env>>
        /\ now' = now \/ (now' = now + 1 /\ now < MaxTime)
        /\ cache' \in {0, cache}
    <3>1. CASE Tick
      BY <3>1 DEF Tick, server
    <3>2. CASE clearData \/ UNCHANGED vars
      <4>1. UNCHANGED <<now, version, mtime, objects, call, env>>
        BY <3>2 DEF clearData, files, vars
      <4>2. cache' \in {0, cache}
        BY <3>2 DEF clearData, vars
      <4> QED BY <4>1, <4>2
    <3> QED BY <3>1, <3>2
  <2>2. now' \in 1..MaxTime /\ now' >= now
    BY <2>1, LoaderAssumption DEF LoaderTypes
  <2>3. mtime \in [File -> 1..now']
    BY <2>2, LoaderAssumption DEF LoaderTypes
  <2> QED BY <2>1, <2>2, <2>3
<1>2. 0 \in 0..Len(objects)
  BY LoaderFacts
<1>3. LoaderTypes'
  BY <1>1, <1>2 DEF LoaderTypes
<1>4. BodiesOK' /\ CallsOK'
  BY <1>1 DEF BodiesOK, BodyOK, CallsOK, CallOK
<1>5. ObjectsOfCalls' /\ EntriesOK'
  BY <1>1 DEF ObjectsOfCalls, EntriesOK, WorksOn, NewEnough, Object
<1>6. LoadsApart'
  <2>1. ASSUME NEW c \in Client, call[c].at \in {"readInline", "statInline", "insert"}
        PROVE  call[c].object # 0
    BY <2>1 DEF CallsOK, CallOK
  <2> QED BY <1>1, <2>1 DEF LoadsApart
<1>7. LookedUp' /\ CacheComplete'
  BY <1>1 DEF LookedUp, CacheComplete
<1> QED BY <1>3, <1>4, <1>5, <1>6, <1>7

-----------------------------------------------------------------------------
(* The invariant holds.                                                    *)

\* An empty map and no calls.
LEMMA LoaderInvInit == Init => LoaderInv
<1> SUFFICES ASSUME Init PROVE LoaderInv
  OBVIOUS
<1>1. /\ NoCall \in Asked /\ NoCall.at = "idle" /\ NoCall.object = 0
      /\ NoCall.stat = 0 /\ NoCall.target = 0 /\ \A f \in File : NoCall.asked[f] = 1
  BY DEF Asked, NoCall, Ats, Shapes
<1>2. /\ objects = <<>> /\ Len(objects) = 0 /\ cache = 0 /\ env \in Environments
      /\ \A c \in Client : call[c] = NoCall
      /\ \A f \in File : version[f] = 1 /\ mtime[f] = 1
      /\ "main" \in File
  BY DEF Init, File
<1>3. LoaderTypes
  <2>1. now \in 1..MaxTime /\ now = 1 /\ 1 \in 1..MaxEdits
    BY LoaderAssumption DEF Init
  <2>2. version \in [File -> 1..MaxEdits] /\ mtime \in [File -> 1..now]
    BY <2>1 DEF Init
  <2>3. objects \in Seq(Body) /\ cache \in 0..Len(objects)
    BY <1>2
  <2>4. call \in [Client -> Asked]
    BY <1>1 DEF Init
  <2> QED BY <1>2, <2>1, <2>2, <2>3, <2>4 DEF LoaderTypes
<1>4. BodiesOK /\ EntriesOK /\ LookedUp /\ CacheComplete
  BY <1>2 DEF BodiesOK, EntriesOK, LookedUp, CacheComplete
<1>5. CallsOK
  BY <1>1, <1>2 DEF CallsOK, CallOK
<1>6. ObjectsOfCalls /\ LoadsApart
  BY <1>1, <1>2 DEF ObjectsOfCalls, LoadsApart
<1> QED BY <1>3, <1>4, <1>5, <1>6 DEF LoaderInv

\* Every step keeps it.
LEMMA LoaderInvNext == LoaderInv /\ [Next]_vars => LoaderInv'
<1> SUFFICES ASSUME LoaderInv, [Next]_vars PROVE LoaderInv'
  OBVIOUS
<1>1. ASSUME NEW c \in Client, Serve(c) PROVE LoaderInv'
  BY <1>1, CacheFoundStep, CacheMissedStep, CheckInlineStep, TakeStep, ReadMainStep,
     LoadFailsStep, ReadInlineStep, StatInlineStep, InsertStep, StampStep,
     ClearShapesStep, FillShapesStep DEF Serve
<1> QED BY <1>1, TickStep, EditStep, RequestStep DEF Next

\* So it always holds.
LEMMA LoaderInvHolds == Spec => []LoaderInv
  BY LoaderInvInit, LoaderInvNext, PTL DEF Spec

-----------------------------------------------------------------------------
(* What follows from it.                                                   *)

\* Types; an object is read from versions that exist, and its times are never later
\* than those of the files.
THEOREM LoaderTypeCorrect == Spec => []TypeOK
<1>1. ASSUME LoaderInv PROVE TypeOK
  <2> USE <1>1 DEF LoaderInv
  <2> DEFINE Rec == [main : 1..version["main"], inline : 0..version["inline"],
                     shape : Seq({"origin", "box"}), lastUpdateTime : 0..mtime["main"],
                     inlineTime : 0..mtime["inline"]]
  <2>1. /\ Len(objects) \in Nat /\ objects \in [1..Len(objects) -> Body]
        /\ \A f \in File : version[f] \in Nat /\ mtime[f] \in Nat
        /\ "main" \in File /\ "inline" \in File
    BY LoaderFacts
  <2>2. ASSUME NEW o \in 1..Len(objects) PROVE objects[o] \in Rec
    <3>1. objects[o] \in Body /\ BodyOK(objects[o])
      BY <2>1 DEF BodiesOK
    <3>2. /\ objects[o].lastUpdateTime \in 0..mtime["main"]
          /\ objects[o].inlineTime \in 0..mtime["inline"]
      BY <2>1, <3>1 DEF Body, BodyOK
    <3>3. /\ objects[o].main \in 1..version["main"]
          /\ objects[o].inline \in 0..version["inline"]
      BY <3>1 DEF BodyOK
    <3> QED BY <3>1, <3>2, <3>3 DEF Body
  <2>3. objects \in Seq(Rec)
    <3>1. objects \in [1..Len(objects) -> Rec]
      BY <2>1, <2>2
    <3> HIDE DEF Rec
    <3> QED BY <2>1, <3>1, SeqDef
  <2> DEFINE Rec2 == [at : Ats, option : Shapes, variable : BOOLEAN,
                      stat : 0..mtime["main"], asked : [File -> 1..MaxEdits],
                      object : 0..Len(objects), target : 0..Len(objects)]
  <2>4. ASSUME NEW c \in Client PROVE call[c] \in Rec2
    <3>1. call[c] \in Asked
      BY DEF LoaderTypes
    <3>2. /\ call[c].stat \in 0..mtime["main"]
          /\ call[c].object \in 0..Len(objects) /\ call[c].target \in 0..Len(objects)
      BY <2>1, <3>1 DEF CallsOK, CallOK, Asked
    <3>3. call[c].asked \in [File -> 1..MaxEdits]
      <4>1. \A f \in File : call[c].asked[f] \in 1..MaxEdits
        BY LoaderAssumption DEF CallsOK, CallOK, LoaderTypes
      <4> QED BY <3>1, <4>1 DEF Asked
    <3> QED BY <3>1, <3>2, <3>3 DEF Asked
  <2> HIDE DEF Rec
  <2>5. call \in [Client -> Rec2]
    <3> HIDE DEF Rec2
    <3> QED BY <2>4 DEF LoaderTypes
  <2> QED BY <2>3, <2>5 DEF TypeOK, LoaderTypes, Rec
<1> QED BY <1>1, LoaderInvHolds, PTL

\* A call answers with files at least as new as when it looked at them, out of the
\* cache or not, if nobody writes during a load or twice in a second.
THEOREM AnswersAreFresh == Spec => []AnswersFresh
<1>1. ASSUME LoaderInv PROVE AnswersFresh
  <2> SUFFICES ASSUME NEW c \in Client, env.calm, call[c].at = "done"
               PROVE  /\ Object(c).main >= call[c].asked["main"]
                      /\ Object(c).inline >= call[c].asked["inline"]
    BY DEF AnswersFresh
  <2>1. WorksOn(call[c], Object(c))
    BY <1>1, HasObject
  <2> QED BY <2>1 DEF WorksOn, NewEnough, Looked
<1> QED BY <1>1, LoaderInvHolds, PTL

\* A call that goes on to loading has found no entry, or has found one with another
\* time of the inlined file.
LEMMA MissedStep ==
    ASSUME LoaderTypes, Next, NEW c \in Client, call'[c].at = "read"
    PROVE  /\ call[c].at = "lookup" => CacheMissed(c)
           /\ call[c].at = "checkInline" => ~InlineUnchanged(Entry(c))
<1> SUFFICES ASSUME call[c].at \in {"lookup", "checkInline"}
             PROVE  \/ CacheMissed(c)
                    \/ call[c].at = "checkInline" /\ ~InlineUnchanged(Entry(c))
  BY DEF CacheMissed
<1>1. call \in [Client -> Asked]
  BY DEF LoaderTypes
<1>2. call' # call
  OBVIOUS
<1>3. ~Tick /\ ~clearData /\ \A f \in File : ~Edit(f)
  BY <1>2 DEF Tick, clearData, Edit
<1>4. ASSUME NEW d \in Client, NEW at, NEW option, NEW variable, NEW stat,
             Begin(d, at, option, variable, stat)
      PROVE  FALSE
  BY <1>1, <1>4 DEF Begin
<1>5. ASSUME NEW d \in Client, NEW option, Request(d, option) PROVE FALSE
  BY <1>4, <1>5 DEF Request, loadBodyInfo, getBodyInfo
<1>6. ASSUME NEW d \in Client, Serve(d)
      PROVE  \/ CacheMissed(c)
             \/ call[c].at = "checkInline" /\ ~InlineUnchanged(Entry(c))
  <2>1. CASE d # c
    <3>1. call'[c] = call[c]
      BY <1>1, <1>6, <2>1 DEF Serve, CacheFound, CacheMissed, CheckInline, Take, ReadMain,
            LoadFails, ReadInline, StatInline, Insert, Stamp, ClearShapes, FillShapes, At
    <3> QED BY <3>1
  <2>2. CASE d = c
    <3>1. CacheFound(c) \/ CacheMissed(c) \/ CheckInline(c)
      BY <1>6, <2>2 DEF Serve, ReadMain, LoadFails, Take,
            ReadInline, StatInline, Insert, Stamp, ClearShapes, FillShapes
    <3>2. ~CacheFound(c)
      BY <1>1 DEF CacheFound, At, Asked
    <3>3. CASE CheckInline(c)
      BY <1>1, <3>3 DEF CheckInline, At, Asked
    <3> QED BY <3>1, <3>2, <3>3
  <2> QED BY <2>1, <2>2
<1> QED BY <1>3, <1>5, <1>6 DEF Next

\* getBodyInfo() loads again only if a file differs from what the cached object was
\* read from.
THEOREM ReloadsOnlyIfChanged == Spec => ReloadOnlyIfChanged
<1> DEFINE P == \A c \in Client : call'[c].at = "read" =>
                  /\ call[c].at = "lookup" =>
                        \/ cache = 0 \/ call[c].variable
                        \/ objects[cache].lastUpdateTime = 0
                        \/ objects[cache].main # call[c].asked["main"]
                        \/ objects[cache].main # version["main"]
                  /\ call[c].at = "checkInline" =>
                        objects[Entry(c)].inline # version["inline"]
<1>1. ASSUME LoaderInv, Next, NEW c \in Client, call'[c].at = "read",
             call[c].at = "lookup", cache # 0, ~call[c].variable,
             objects[cache].lastUpdateTime # 0,
             objects[cache].main = call[c].asked["main"],
             objects[cache].main = version["main"]
      PROVE  FALSE
  <2>1. cache \in 1..Len(objects)
    BY <1>1, LoaderFacts DEF LoaderInv, LoaderTypes
  <2>2. BodyOK(objects[cache])
    BY <1>1, <2>1 DEF LoaderInv, BodiesOK
  <2>3. call[c].stat = mtime["main"]
    BY <1>1 DEF LoaderInv, CallsOK, CallOK
  <2>4. Found(c)
    BY <1>1, <2>2, <2>3 DEF Found, BodyOK
  <2>5. CacheMissed(c)
    BY <1>1, MissedStep DEF LoaderInv
  <2> QED BY <2>4, <2>5 DEF CacheMissed
<1>2. ASSUME LoaderInv, Next, NEW c \in Client, call'[c].at = "read",
             call[c].at = "checkInline"
      PROVE  objects[Entry(c)].inline # version["inline"]
  <2>1. ~InlineUnchanged(Entry(c))
    BY <1>2, MissedStep DEF LoaderInv
  <2>2. BodyOK(objects[Entry(c)]) /\ objects[Entry(c)].inlineTime # 0
    BY <1>2, EntryFacts
  <2> QED BY <2>1, <2>2 DEF BodyOK, InlineUnchanged
<1>3. LoaderInv /\ [Next]_vars => [P]_vars
  BY <1>1, <1>2
<1> QED BY <1>3, LoaderInvHolds, PTL DEF Spec, ReloadOnlyIfChanged

-----------------------------------------------------------------------------
(* The shapes.                                                             *)

\* A step that leaves the shapes alone, and the calls that convert or have boxes.
LEMMA ShapesKept ==
    ASSUME LoaderInv, ShapesInv, env' = env,
           \A o \in 1..Len(objects) : objects'[o].shape = objects[o].shape,
           \A d \in Client :
               /\ call[d].at = "fill" \/ call'[d].at = "fill" => call'[d] = call[d]
               /\ call'[d].at = "done" /\ call'[d].option = "boxes" => call'[d] = call[d],
           \/ cache' \in {0, cache}
           \/ \A d \in Client : call[d].at \in {"fill", "done"} => call[d].object # cache'
    PROVE  ShapesInv'
<1>1. ASSUME NEW d \in Client, call[d].at \in {"fill", "done"}
      PROVE  /\ call[d].object \in 1..Len(objects) /\ call[d].object # 0
             /\ call[d].object = cache' => cache' = cache
  <2>1. call[d].object \in 1..Len(objects)
    BY <1>1, HasObject
  <2>2. call[d].object # 0
    BY <1>1 DEF LoaderInv, CallsOK, CallOK
  <2> QED BY <1>1, <2>1, <2>2
<1>2. \A o : {d \in Client : call'[d].at = "fill" /\ call'[d].target = o} = Converting(o)
  BY DEF Converting
<1>3. ASSUME env.apart, NEW d \in Client, call'[d].at = "fill"
      PROVE  /\ objects'[call'[d].target].shape = <<>>
             /\ {e \in Client : call'[e].at = "fill" /\ call'[e].target = call'[d].target} = {d}
             /\ call'[d].object = cache' => call'[d].target = cache'
  <2>1. call'[d] = call[d] /\ call[d].at = "fill"
    BY <1>3
  <2>2. call[d].target \in 1..Len(objects)
    BY <2>1, LoaderFacts DEF LoaderInv, CallsOK, CallOK
  <2>3. /\ objects[call[d].target].shape = <<>> /\ Converting(call[d].target) = {d}
        /\ call[d].object = cache => call[d].target = cache
    BY <1>3, <2>1 DEF ShapesInv
  <2>4. call[d].object = cache' => cache' = cache
    BY <1>1, <2>1
  <2> QED BY <1>2, <2>1, <2>2, <2>3, <2>4
<1>4. ASSUME env.apart, NEW d \in Client, call'[d].at = "done", call'[d].option = "boxes",
             call'[d].object = cache',
             {e \in Client : call'[e].at = "fill" /\ call'[e].target = cache'} = {}
      PROVE  objects'[call'[d].object].shape = <<"box">>
  <2>1. call'[d] = call[d]
    BY <1>4
  <2>2. call[d].object \in 1..Len(objects) /\ cache' = cache
    BY <1>1, <1>4, <2>1
  <2>3. Converting(cache) = {}
    BY <1>2, <1>4, <2>2
  <2>4. objects[call[d].object].shape = <<"box">>
    BY <1>4, <2>1, <2>2, <2>3 DEF ShapesInv, BoxesAsAsked, Object
  <2> QED BY <2>1, <2>2, <2>4
<1> QED BY <1>3, <1>4 DEF ShapesInv, BoxesAsAsked, Object, Converting

\* A call that goes on to something else.
LEMMA ShapesMoved ==
    ASSUME LoaderInv, ShapesInv, env' = env, NEW c \in Client,
           NEW at \in Ats \ {"fill"}, NEW o \in Nat, At(c, at, o), call[c].at # "fill",
           at = "done" => call[c].option # "boxes",
           \A i \in 1..Len(objects) : objects'[i].shape = objects[i].shape,
           \/ cache' \in {0, cache}
           \/ \A d \in Client : call[d].at \in {"fill", "done"} => call[d].object # cache'
    PROVE  ShapesInv'
<1>1. /\ call'[c].at = at /\ call'[c].option = call[c].option
      /\ \A d \in Client : d # c => call'[d] = call[d]
  BY CallMoved DEF LoaderInv
<1> QED BY <1>1, ShapesKept

\* The shapes of o are cleared, which no other call is converting.
LEMMA ShapesCleared ==
    ASSUME LoaderInv, ShapesInv, NEW c \in Client, ClearShapes(c)
    PROVE  ShapesInv'
<1>1. PICK o \in 1..Len(objects) :
         /\ call[c].at \in {"convert", "convertEntry"}
         /\ call[c].object = cache => o = cache
         /\ env.apart => Converting(o) = {}
         /\ objects' = [objects EXCEPT ![o].shape = <<>>]
         /\ call' = [call EXCEPT ![c].at = "fill", ![c].target = o]
         /\ UNCHANGED <<files, cache, env>>
  BY ClearShapesFacts
<1>2. /\ \A i \in 1..Len(objects) : i # o => objects'[i] = objects[i]
      /\ objects'[o].shape = <<>>
  <2>1. <<>> \in Seq({"origin", "box"})
    OBVIOUS
  <2> QED BY <1>1, <2>1, ShapesChanged DEF LoaderInv
<1>3. /\ call'[c].at = "fill" /\ call'[c].target = o /\ call'[c].object = call[c].object
      /\ \A d \in Client : d # c => call'[d] = call[d]
  <2>1. call \in [Client -> Asked] /\ call[c] \in Asked
    BY DEF LoaderInv, LoaderTypes
  <2> QED BY <1>1, <2>1 DEF Asked
<1>4. ASSUME env.apart, NEW d \in Client, call'[d].at = "fill"
      PROVE  /\ objects'[call'[d].target].shape = <<>>
             /\ {e \in Client : call'[e].at = "fill" /\ call'[e].target = call'[d].target} = {d}
             /\ call'[d].object = cache => call'[d].target = cache
  <2>1. \A e \in Client : call[e].at = "fill" => call[e].target # o
    BY <1>1, <1>4 DEF Converting
  <2>2. CASE d = c
    <3>1. {e \in Client : call'[e].at = "fill" /\ call'[e].target = o} = {c}
      BY <1>3, <2>1
    <3>2. objects'[call'[d].target].shape = <<>> /\ call'[d].target = o
      BY <1>2, <1>3, <2>2
    <3>3. call'[d].object = cache => call'[d].target = cache
      BY <1>1, <1>3, <2>2
    <3> QED BY <2>2, <3>1, <3>2, <3>3
  <2>3. CASE d # c
    <3>1. call'[d] = call[d] /\ call[d].at = "fill" /\ call[d].target # o
      BY <1>3, <1>4, <2>1, <2>3
    <3>2. /\ objects[call[d].target].shape = <<>> /\ Converting(call[d].target) = {d}
          /\ call[d].object = cache => call[d].target = cache
      BY <1>4, <3>1 DEF ShapesInv
    <3>3. call[d].target \in 1..Len(objects)
      BY <3>1, LoaderFacts DEF LoaderInv, CallsOK, CallOK
    <3>4. {e \in Client : call'[e].at = "fill" /\ call'[e].target = call[d].target}
             = Converting(call[d].target)
      BY <1>1, <1>3, <3>1 DEF Converting
    <3> QED BY <1>2, <3>1, <3>2, <3>3, <3>4
  <2> QED BY <2>2, <2>3
<1>5. ASSUME env.apart, NEW d \in Client, call'[d].at = "done", call'[d].option = "boxes",
             call'[d].object = cache,
             {e \in Client : call'[e].at = "fill" /\ call'[e].target = cache} = {}
      PROVE  objects'[call'[d].object].shape = <<"box">>
  <2>1. d # c /\ call'[d] = call[d] /\ cache # o
    BY <1>3, <1>5
  <2>2. call[d].object \in 1..Len(objects)
    BY <1>5, <2>1, HasObject
  <2>3. Converting(cache) = {}
    BY <1>1, <1>3, <1>5 DEF Converting
  <2>4. objects[call[d].object].shape = <<"box">>
    BY <1>5, <2>1, <2>3 DEF ShapesInv, BoxesAsAsked, Object
  <2> QED BY <1>2, <1>5, <2>1, <2>2, <2>4
<1>6. env' = env /\ cache' = cache
  BY <1>1
<1> QED BY <1>4, <1>5, <1>6 DEF ShapesInv, BoxesAsAsked, Object, Converting

\* The boxes are added to a list that is empty, if nobody else adds any.
LEMMA ShapesFilled ==
    ASSUME LoaderInv, ShapesInv, NEW c \in Client, FillShapes(c)
    PROVE  ShapesInv'
<1> DEFINE o == call[c].target
           s == Append(objects[o].shape, "box")
<1>1. /\ call[c].at = "fill" /\ objects' = [objects EXCEPT ![o].shape = s]
      /\ At(c, "done", call[c].object) /\ env' = env /\ cache' = cache
  BY DEF FillShapes
<1>2. o \in 1..Len(objects) /\ s \in Seq({"origin", "box"})
  <2>1. o \in 1..Len(objects)
    BY <1>1, LoaderFacts DEF LoaderInv, CallsOK, CallOK
  <2>2. objects[o].shape \in Seq({"origin", "box"})
    BY <2>1, LoaderFacts DEF LoaderInv, Body
  <2> QED BY <2>1, <2>2
<1>3. /\ \A i \in 1..Len(objects) : i # o => objects'[i] = objects[i]
      /\ objects'[o].shape = s
  <2> HIDE DEF s, o
  <2> QED BY <1>1, <1>2, ShapesChanged DEF LoaderInv
<1>4. /\ call'[c].at = "done" /\ call'[c].object = call[c].object
      /\ \A d \in Client : d # c => call'[d] = call[d]
  <2>1. call[c].object \in Nat /\ "done" \in Ats
    BY LoaderFacts DEF LoaderInv, CallsOK, Ats
  <2> QED BY <1>1, <2>1, CallMoved DEF LoaderInv
<1>5. env.apart =>
         /\ objects[o].shape = <<>> /\ Converting(o) = {c}
         /\ call[c].object = cache => o = cache
  BY <1>1 DEF ShapesInv
<1>6. env.apart => s = <<"box">>
  <2>1. Append(<<>>, "box") = <<"box">>
    OBVIOUS
  <2> HIDE DEF o
  <2> QED BY <1>5, <2>1
<1> HIDE DEF s, o
<1>7. ASSUME env.apart, NEW d \in Client, call'[d].at = "fill"
      PROVE  /\ objects'[call'[d].target].shape = <<>>
             /\ {e \in Client : call'[e].at = "fill" /\ call'[e].target = call'[d].target} = {d}
             /\ call'[d].object = cache => call'[d].target = cache
  <2>1. d # c /\ call'[d] = call[d] /\ call[d].at = "fill"
    BY <1>4, <1>7
  <2>2. /\ objects[call[d].target].shape = <<>> /\ Converting(call[d].target) = {d}
        /\ call[d].object = cache => call[d].target = cache
    BY <1>7, <2>1 DEF ShapesInv
  <2>3. call[d].target \in 1..Len(objects) /\ call[d].target # o
    <3>1. call[d].target \in 1..Len(objects)
      BY <2>1, LoaderFacts DEF LoaderInv, CallsOK, CallOK
    <3>2. c \in Converting(o) /\ c \notin Converting(call[d].target)
      BY <1>5, <1>7, <2>1, <2>2
    <3> QED BY <3>1, <3>2
  <2>4. {e \in Client : call'[e].at = "fill" /\ call'[e].target = call[d].target} = {d}
    <3>1. \A e \in Client : call[e].at = "fill" /\ call[e].target = call[d].target <=> e = d
      BY <2>1, <2>2 DEF Converting
    <3>2. \A e \in Client : call'[e].at = "fill" /\ call'[e].target = call[d].target <=> e = d
      BY <1>4, <2>1, <3>1
    <3> QED BY <3>2
  <2> QED BY <1>3, <2>1, <2>2, <2>3, <2>4
<1>8. ASSUME env.apart, NEW d \in Client, call'[d].at = "done", call'[d].option = "boxes",
             call'[d].object = cache,
             {e \in Client : call'[e].at = "fill" /\ call'[e].target = cache} = {}
      PROVE  objects'[call'[d].object].shape = <<"box">>
  <2>1. CASE cache = o
    BY <1>3, <1>6, <1>8, <2>1
  <2>2. CASE cache # o
    <3>1. d # c /\ call'[d] = call[d]
      BY <1>4, <1>5, <1>8, <2>2
    <3>2. call[d].object \in 1..Len(objects)
      BY <1>8, <3>1, HasObject
    <3>3. Converting(cache) = {}
      <4>1. \A e \in Client : ~(call'[e].at = "fill" /\ call'[e].target = cache)
        BY <1>8
      <4>2. ~(call[c].at = "fill" /\ call[c].target = cache)
        BY <2>2 DEF o
      <4> QED BY <1>4, <4>1, <4>2 DEF Converting
    <3>4. objects[call[d].object].shape = <<"box">>
      BY <1>8, <3>1, <3>3 DEF ShapesInv, BoxesAsAsked, Object
    <3> QED BY <1>3, <1>8, <2>2, <3>1, <3>2, <3>4
  <2> QED BY <2>1, <2>2
<1> QED BY <1>1, <1>7, <1>8 DEF ShapesInv, BoxesAsAsked, Object, Converting

\* Every step keeps the shapes in order.
LEMMA ShapesNext == LoaderInv /\ ShapesInv /\ [Next]_vars => ShapesInv'
<1> SUFFICES ASSUME LoaderInv, ShapesInv, [Next]_vars PROVE ShapesInv'
  OBVIOUS
<1>1. ASSUME NEW c \in Client, NEW x, call[c].at # "fill",
             objects' = [objects EXCEPT ![call[c].object] = x],
             call[c].object \in 1..Len(objects), x.shape = objects[call[c].object].shape
      PROVE  \A i \in 1..Len(objects) : objects'[i].shape = objects[i].shape
  BY <1>1, LoaderFacts DEF LoaderInv
<1>2. ASSUME NEW c \in Client, NEW option \in Shapes, Request(c, option)
      PROVE  ShapesInv'
  <2>1. ASSUME NEW at \in {"lookup", "read"}, NEW variable, NEW stat,
               Begin(c, at, option, variable, stat)
        PROVE  ShapesInv'
    <3>1. call[c].at \in {"idle", "done"} /\ UNCHANGED <<objects, cache, env>>
      BY <2>1 DEF Begin, server
    <3>2. call'[c].at = at /\ \A d \in Client : d # c => call'[d] = call[d]
      BY <2>1 DEF Begin, LoaderInv, LoaderTypes
    <3> QED BY <3>1, <3>2, ShapesKept
  <2> QED BY <1>2, <2>1 DEF Request, loadBodyInfo, getBodyInfo
<1>3. ASSUME NEW c \in Client, Serve(c) PROVE ShapesInv'
  <2>1. \A o : o \in 0..Len(objects) => o \in Nat
    BY LoaderFacts DEF LoaderInv
  <2>2. call[c].object \in Nat /\ cache \in Nat /\ Len(objects) \in Nat
    BY LoaderFacts DEF LoaderInv, LoaderTypes, CallsOK
  <2>3. CASE CacheFound(c) \/ CacheMissed(c)
    <3>1. /\ \E at \in {"checkInline", "read"} : \E o \in Nat : At(c, at, o)
          /\ call[c].at = "lookup" /\ UNCHANGED <<objects, cache, env>>
      BY <2>2, <2>3 DEF CacheFound, CacheMissed, server
    <3> QED BY <3>1, ShapesMoved DEF Ats
  <2>4. CASE CheckInline(c) \/ Take(c)
    <3>1. call[c].at \in {"checkInline", "take"} /\ UNCHANGED <<objects, cache, env>>
      BY <2>4 DEF CheckInline, Take, server
    <3>2. Entry(c) \in Nat
      BY <2>2 DEF Entry
    <3>3. CASE CheckInline(c)
      <4>1. \E at \in {"take", "read"} : \E o \in Nat : At(c, at, o)
        BY <3>2, <3>3 DEF CheckInline
      <4> QED BY <3>1, <4>1, ShapesMoved DEF Ats
    <3>4. CASE Take(c)
      <4>1. At(c, HitNext(c), Entry(c))
        BY <3>4 DEF Take
      <4>2. /\ HitNext(c) \in {"convertEntry", "done"}
            /\ HitNext(c) = "done" => call[c].option # "boxes"
        BY DEF HitNext
      <4> QED BY <3>1, <3>2, <4>1, <4>2, ShapesMoved DEF Ats
    <3> QED BY <2>4, <3>3, <3>4
  <2>5. CASE ReadMain(c)
    <3>1. /\ At(c, "readInline", Len(objects) + 1) /\ call[c].at = "read"
          /\ env' = env /\ cache' = cache
          /\ \A i \in 1..Len(objects) : objects'[i] = objects[i]
      BY <2>5, LoaderFacts DEF ReadMain, LoaderInv, LoaderTypes
    <3>2. "readInline" \in Ats \ {"fill"} /\ Len(objects) + 1 \in Nat
      BY <2>2 DEF Ats
    <3> QED BY <3>1, <3>2, ShapesMoved
  <2>6. CASE LoadFails(c)
    <3>1. /\ call[c].at \in {"readInline", "statInline"} /\ UNCHANGED <<objects, cache, env>>
          /\ call'[c] = NoCall /\ \A d \in Client : d # c => call'[d] = call[d]
      BY <2>6 DEF LoadFails, server, LoaderInv, LoaderTypes
    <3> QED BY <3>1, ShapesKept DEF NoCall
  <2>7. ASSUME call[c].at \in {"readInline", "statInline", "stamp"},
               NEW x, objects' = [objects EXCEPT ![call[c].object] = x],
               x.shape = Object(c).shape, cache' = cache, env' = env,
               NEW at \in {"statInline", "insert", "convert", "done"},
               At(c, at, call[c].object), at = "done" => call[c].option # "boxes"
        PROVE  ShapesInv'
    <3>1. call[c].object \in 1..Len(objects)
      BY <2>7, HasObject
    <3>2. \A i \in 1..Len(objects) : objects'[i].shape = objects[i].shape
      BY <1>1, <2>7, <3>1 DEF Object
    <3>3. at \in Ats \ {"fill"} /\ call[c].at # "fill"
      BY <2>7 DEF Ats
    <3> QED BY <2>2, <2>7, <3>2, <3>3, ShapesMoved
  <2>8. CASE ReadInline(c)
    <3> DEFINE x == [Object(c) EXCEPT !.inline = version["inline"]]
    <3>1. call[c].at = "readInline"
      BY <2>8 DEF ReadInline
    <3>2. x.shape = Object(c).shape
      BY <3>1, HasObject DEF Body
    <3>3. objects' = [objects EXCEPT ![call[c].object] = x]
      BY <2>8 DEF ReadInline, Object
    <3> HIDE DEF x
    <3> QED BY <2>7, <2>8, <3>1, <3>2, <3>3 DEF ReadInline
  <2>9. CASE StatInline(c)
    <3> DEFINE x == [Object(c) EXCEPT !.inlineTime = mtime["inline"]]
    <3>1. call[c].at = "statInline"
      BY <2>9 DEF StatInline
    <3>2. x.shape = Object(c).shape
      BY <3>1, HasObject DEF Body
    <3>3. objects' = [objects EXCEPT ![call[c].object] = x]
      BY <2>9 DEF StatInline, Object
    <3> HIDE DEF x
    <3> QED BY <2>7, <2>9, <3>1, <3>2, <3>3 DEF StatInline
  <2>10. CASE Stamp(c)
    <3> DEFINE x == [Object(c) EXCEPT !.lastUpdateTime = StampTime]
               at == IF call[c].option = "boxes" THEN "convert" ELSE "done"
    <3>1. call[c].at = "stamp"
      BY <2>10 DEF Stamp
    <3>2. x.shape = Object(c).shape
      BY <3>1, HasObject DEF Body
    <3>3. objects' = [objects EXCEPT ![call[c].object] = x] /\ At(c, at, call[c].object)
      BY <2>10 DEF Stamp, Object
    <3>4. at \in {"convert", "done"} /\ (at = "done" => call[c].option # "boxes")
      OBVIOUS
    <3> HIDE DEF x, at
    <3> QED BY <2>7, <2>10, <3>1, <3>2, <3>3, <3>4 DEF Stamp
  <2>11. CASE Insert(c)
    <3>1. /\ call[c].at = "insert" /\ At(c, "stamp", call[c].object)
          /\ cache' = call[c].object /\ UNCHANGED <<objects, env>>
      BY <2>11 DEF Insert
    <3>2. \A d \in Client : call[d].at \in {"fill", "done"} => call[d].object # cache'
      BY <3>1 DEF LoaderInv, LoadsApart
    <3> QED BY <2>2, <3>1, <3>2, ShapesMoved DEF Ats
  <2> QED BY <1>3, <2>3, <2>4, <2>5, <2>6, <2>8, <2>9, <2>10, <2>11,
             ShapesCleared, ShapesFilled DEF Serve
<1>4. CASE (\E f \in File : Edit(f)) \/ Tick \/ clearData \/ UNCHANGED vars
  <2>1. UNCHANGED <<objects, call, env>> /\ cache' \in {0, cache}
    <3>1. CASE (\E f \in File : Edit(f)) \/ Tick
      BY <3>1 DEF Edit, Tick, server
    <3>2. CASE clearData \/ UNCHANGED vars
      BY <3>2 DEF clearData, vars
    <3> QED BY <1>4, <3>1, <3>2
  <2> QED BY <2>1, ShapesKept
<1> QED BY <1>2, <1>3, <1>4 DEF Next

\* A client that has asked for boxes has each of them once, however often others
\* convert the object again, where conversions of one object do not overlap.
THEOREM BoxesAreAsAsked == Spec => []BoxesAsAsked
<1>1. Init => ShapesInv
  BY DEF Init, NoCall, ShapesInv, BoxesAsAsked
<1>2. ShapesInv => BoxesAsAsked
  BY DEF ShapesInv
<1> QED BY <1>1, <1>2, ShapesNext, LoaderInvHolds, PTL DEF Spec

=============================================================================
