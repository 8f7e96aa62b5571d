---------------------------- MODULE ModelLoader ----------------------------
(***************************************************************************)
(* The cache of the model loader server (ModelLoader_impl). A BodyInfo is  *)
(* a CORBA object: the clients that ask for the same model get references  *)
(* to one object, which the server also keeps in urlToBodyInfoMap. Calls   *)
(* run on several ORB threads and take no lock.                            *)
(*                                                                         *)
(* One model is considered: a main file, which inlines a second one. A     *)
(* file is known by a version number, its stat() by a time in seconds. An  *)
(* object is known by the versions it was read from and by the list of its *)
(* shapes, which changetoBoundingBox() clears and fills in place: what a   *)
(* reader finds in between, part of the boxes, is the empty list, and what *)
(* two conversions at once make of it is each one's boxes. All who ask for *)
(* boxes ask for the same ones. The map itself is accessed atomically      *)
(* here; the code does not lock it.                                        *)
(***************************************************************************)
EXTENDS Naturals, Sequences, FiniteSets

CONSTANTS
    Client,       \* clients, each with one call at a time
    MaxTime,      \* bound: the clock, in seconds
    MaxEdits,     \* bound: versions of a file
    MaxObjects,   \* bound: loaded BodyInfo objects
    Environments  \* the environments to consider; each is a record of
                  \*  calm: nobody writes a file while it is loaded, nor twice
                  \*    within one second
                  \*  apart: no two calls convert one object at once

File == {"main", "inline"}
Shapes == {"origin", "boxes"}

ASSUME LoaderAssumption ==
    /\ MaxTime \in Nat \ {0} /\ MaxEdits \in Nat \ {0} /\ MaxObjects \in Nat
    /\ \A e \in Environments : e.calm \in BOOLEAN /\ e.apart \in BOOLEAN

VARIABLES
    now,      \* the clock of the file system
    version,  \* the version of each file
    mtime,    \* st_mtime of each file
    objects,  \* the BodyInfo objects created so far
    cache,    \* urlToBodyInfoMap: the object of the model, 0 if none
    call,     \* the call of each client
    env       \* the environment of this behaviour

files  == <<now, version, mtime>>
server == <<objects, cache>>
vars   == <<now, version, mtime, objects, cache, call, env>>

\* at: where the call is; option: the shapes asked for; variable: whether the url
\* holds $(PROJECT_DIR); stat: what stat() said of the main file; asked: the
\* versions at that time (history); object: the object the call works on or has
\* returned; target: the one it is converting.
NoCall == [at |-> "idle", option |-> "origin", variable |-> FALSE, stat |-> 0,
           asked |-> [f \in File |-> 1], object |-> 0, target |-> 0]

Object(c) == objects[call[c].object]

Init ==
    /\ now = 1
    /\ version = [f \in File |-> 1] /\ mtime = [f \in File |-> 1]
    /\ objects = <<>> /\ cache = 0
    /\ call = [c \in Client |-> NoCall]
    /\ env \in Environments

-----------------------------------------------------------------------------
(* The files.                                                              *)

Tick ==
    /\ now < MaxTime
    /\ now' = now + 1
    /\ UNCHANGED <<version, mtime, server, call, env>>

Loading == {c \in Client : call[c].at \in {"read", "readInline", "statInline",
                                           "insert", "stamp"}}

Edit(f) ==
    /\ version[f] < MaxEdits
    /\ env.calm => Loading = {} /\ mtime[f] < now
    /\ version' = [version EXCEPT ![f] = @ + 1]
    /\ mtime' = [mtime EXCEPT ![f] = now]
    /\ UNCHANGED <<now, server, call, env>>

-----------------------------------------------------------------------------
(* The calls.                                                              *)

Begin(c, at, option, variable, stat) ==
    /\ call[c].at \in {"idle", "done"}
    /\ call' = [call EXCEPT ![c] =
                  [at |-> at, option |-> option, variable |-> variable,
                   stat |-> stat, asked |-> version, object |-> 0, target |-> 0]]
    /\ UNCHANGED <<files, server, env>>

\* The call goes on; what it has looked up for the cache is used no more.
At(c, at, object) ==
    call' = [call EXCEPT ![c].at = at, ![c].object = object, ![c].stat = 0,
                         ![c].variable = FALSE, ![c].target = 0]

\* loadBodyInfo() and loadBodyInfoEx()
loadBodyInfo(c, option) == Begin(c, "read", option, FALSE, 0)

\* getBodyInfo() and getBodyInfoEx(): first the time of the main file is taken.
getBodyInfo(c, option, variable) ==
    Begin(c, "lookup", option, variable, mtime["main"])

\* Mutant of InlineUnchanged: inlined files are not looked at.
InlineUnchangedAssumed(o) == TRUE

\* checkInlineFileUpdateTime()
InlineUnchanged(o) == objects[o].inlineTime = mtime["inline"]

\* The entry is found and has the time of the main file. Entries are stored under
\* the expanded url and looked up under the url as given.
Found(c) == /\ cache # 0 /\ ~call[c].variable
            /\ objects[cache].lastUpdateTime = call[c].stat

CacheFound(c) ==
    /\ call[c].at = "lookup" /\ Found(c)
    /\ At(c, "checkInline", cache)
    /\ UNCHANGED <<files, server, env>>

CacheMissed(c) ==
    /\ call[c].at = "lookup" /\ ~Found(c)
    /\ At(c, "read", 0)
    /\ UNCHANGED <<files, server, env>>

\* p->second is read again for every use, and another call may have replaced it;
\* when clearData() has freed the entry, it still shows what was there.
Entry(c) == IF cache # 0 THEN cache ELSE call[c].object

CheckInline(c) ==
    /\ call[c].at = "checkInline"
    /\ IF InlineUnchanged(Entry(c)) THEN At(c, "take", Entry(c)) ELSE At(c, "read", 0)
    /\ UNCHANGED <<files, server, env>>

\* Mutant of HitNext: only an object that was loaded for it is converted.
HitNextReturn(c) == "done"

HitNext(c) == IF call[c].option = "boxes" THEN "convertEntry" ELSE "done"

\* The object that will be returned.
Take(c) ==
    /\ call[c].at = "take"
    /\ At(c, HitNext(c), Entry(c))
    /\ UNCHANGED <<files, server, env>>

\* loadBodyInfoFromModelFile(): a new object; the main file is parsed, and the
\* parser opens the inlined file where it comes to it. lastUpdate_ is 0.
ReadMain(c) ==
    /\ call[c].at = "read" /\ Len(objects) < MaxObjects
    /\ objects' = Append(objects, [main |-> version["main"], inline |-> 0,
                                   shape |-> <<"origin">>, lastUpdateTime |-> 0,
                                   inlineTime |-> 0])
    /\ At(c, "readInline", Len(objects) + 1)
    /\ UNCHANGED <<files, cache, env>>

\* A ModelLoaderException: the object is left behind, the map is not touched.
LoadFails(c) ==
    /\ call[c].at \in {"readInline", "statInline"}
    /\ call' = [call EXCEPT ![c] = NoCall]
    /\ UNCHANGED <<files, server, env>>

ReadInline(c) ==
    /\ call[c].at = "readInline"
    /\ objects' = [objects EXCEPT ![call[c].object].inline = version["inline"]]
    /\ At(c, "statInline", call[c].object)
    /\ UNCHANGED <<files, cache, env>>

\* traverseShapeNodes() enters the time of the inlined file in fileTimeMap.
StatInline(c) ==
    /\ call[c].at = "statInline"
    /\ objects' = [objects EXCEPT ![call[c].object].inlineTime = mtime["inline"]]
    /\ At(c, "insert", call[c].object)
    /\ UNCHANGED <<files, cache, env>>

\* urlToBodyInfoMap[url] = bodyInfo
Insert(c) ==
    /\ call[c].at = "insert"
    /\ cache' = call[c].object
    /\ At(c, "stamp", call[c].object)
    /\ UNCHANGED <<files, objects, env>>

\* Mutant of StampTime: the time of the load instead of the time of the file.
StampTimeNow == now

\* The second stat() of the main file.
StampTime == mtime["main"]

\* setLastUpdateTime()
Stamp(c) ==
    /\ call[c].at = "stamp"
    /\ objects' = [objects EXCEPT ![call[c].object].lastUpdateTime = StampTime]
    /\ At(c, IF call[c].option = "boxes" THEN "convert" ELSE "done",
          call[c].object)
    /\ UNCHANGED <<files, cache, env>>

Converting(o) == {c \in Client : call[c].at = "fill" /\ call[c].target = o}

\* changetoBoundingBox(), of the object just loaded or of the entry found: whether
\* others hold it, and has boxes already, makes no difference.
ClearShapes(c) ==
    \E o \in IF call[c].at = "convert" THEN {call[c].object} ELSE {Entry(c)} :
        /\ call[c].at \in {"convert", "convertEntry"}
        /\ env.apart => Converting(o) = {}
        /\ objects' = [objects EXCEPT ![o].shape = <<>>]
        /\ call' = [call EXCEPT ![c].at = "fill", ![c].target = o]
        /\ UNCHANGED <<files, cache, env>>

\* The original shapes are never restored.
FillShapes(c) ==
    /\ call[c].at = "fill"
    /\ objects' = [objects EXCEPT ![call[c].target].shape = Append(@, "box")]
    /\ At(c, "done", call[c].object)
    /\ UNCHANGED <<files, cache, env>>

clearData ==
    /\ cache # 0
    /\ cache' = 0
    /\ UNCHANGED <<files, objects, call, env>>

-----------------------------------------------------------------------------

Request(c, option) ==
    \/ loadBodyInfo(c, option)
    \/ \E variable \in BOOLEAN : getBodyInfo(c, option, variable)

Serve(c) ==
    \/ CacheFound(c) \/ CacheMissed(c) \/ CheckInline(c) \/ Take(c)
    \/ ReadMain(c) \/ LoadFails(c) \/ ReadInline(c) \/ StatInline(c) \/ Insert(c) \/ Stamp(c)
    \/ ClearShapes(c) \/ FillShapes(c)

Next ==
    \/ Tick \/ clearData
    \/ \E f \in File : Edit(f)
    \/ \E c \in Client : Serve(c) \/ \E option \in Shapes : Request(c, option)

Spec == Init /\ [][Next]_vars

-----------------------------------------------------------------------------
(* Properties.                                                             *)

Ats == {"idle", "lookup", "checkInline", "take", "read", "readInline", "statInline",
        "insert", "stamp", "convert", "convertEntry", "fill", "done"}

\* Types; an object is read from versions that exist, and its times are never
\* later than those of the files.
TypeOK ==
    /\ now \in 1..MaxTime
    /\ version \in [File -> 1..MaxEdits] /\ mtime \in [File -> 1..now]
    /\ objects \in Seq([main : 1..version["main"], inline : 0..version["inline"],
                        shape : Seq({"origin", "box"}), lastUpdateTime : 0..mtime["main"],
                        inlineTime : 0..mtime["inline"]])
    /\ cache \in 0..Len(objects)
    /\ call \in [Client -> [at : Ats, option : Shapes, variable : BOOLEAN,
                            stat : 0..mtime["main"],
                            asked : [File -> 1..MaxEdits],
                            object : 0..Len(objects), target : 0..Len(objects)]]

\* A call answers with files at least as new as they were when it looked at
\* them, whether the object comes out of the cache or was loaded by another
\* client meanwhile, if nobody writes during a load or twice in a second.
AnswersFresh ==
    \A c \in Client : env.calm /\ call[c].at = "done" =>
        /\ Object(c).main >= call[c].asked["main"]
        /\ Object(c).inline >= call[c].asked["inline"]

\* A client that has asked for boxes has each of them once, whether its call loaded
\* the object or found it, and however often others convert it again, unless it is
\* being converted at the moment: as long as conversions of one object do not overlap
\* and the object has not been replaced in the map (the call may have converted the
\* one that came in its place).
BoxesAsAsked ==
    \A c \in Client :
        /\ env.apart /\ call[c].at = "done" /\ call[c].option = "boxes"
        /\ call[c].object = cache /\ Converting(cache) = {}
        => Object(c).shape = <<"box">>

\* getBodyInfo() loads again only if a file differs, now or when the call looked
\* at it, from what the cached object was read from (or if the object is not
\* finished): times that differ always mean contents that differ.
ReloadOnlyIfChanged ==
    [][\A c \in Client : call'[c].at = "read" =>
          /\ call[c].at = "lookup" =>
                \/ cache = 0 \/ call[c].variable
                \/ objects[cache].lastUpdateTime = 0
                \/ objects[cache].main # call[c].asked["main"]
                \/ objects[cache].main # version["main"]
          /\ call[c].at = "checkInline" =>
                objects[Entry(c)].inline # version["inline"]]_vars

=============================================================================
