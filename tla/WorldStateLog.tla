--------------------------- MODULE WorldStateLog ---------------------------
(***************************************************************************)
(* The log of a simulation: GrxWorldStateItem on top of GrxTimeSeriesItem  *)
(* (the list log_) and LogManager (the record files).  The simulation      *)
(* thread records states, the UI thread shows, clears and loads, and a     *)
(* thread of its own saves.                                                *)
(*                                                                         *)
(* With useDisk every state goes to the files in the directory "base" and  *)
(* log_ only counts.  Without it states stay in log_ until the heap runs   *)
(* low; from then on (changePos_ >= 0) they go to the files in "over".     *)
(* A state is its number; positions count from 0 as in the code.           *)
(***************************************************************************)
EXTENDS Integers, Sequences, SequencesExt

CONSTANTS
  States,    \* bound: states simulated in all
  MaxLog,    \* maxLogSize_ of the list
  Settings   \* the records env may be

(***************************************************************************)
(* env.useDisk  the property of the item                                   *)
(* env.calm     the user does nothing else to the log while it is recorded *)
(*              or saved than looking at it                                *)
(* env.low      the heap may run low while a file is loaded                *)
(***************************************************************************)
ASSUME LogAssumption ==
  /\ States \in Nat
  /\ MaxLog \in Nat \ {0}
  /\ Settings \subseteq [useDisk : BOOLEAN, calm : BOOLEAN, low : BOOLEAN]

VARIABLES
  env,       \* the setting
  log,       \* log_: a state, or Null where the state is in a file
  dropped,   \* entries removed from the front; bRemoved is dropped > 0
  changePos, \* changePos_; overPos_ > 0 iff it is not negative
  preStat,   \* what preStat_ holds, Null for null
  prePos,    \* prePos_
  logger,    \* logger_: directory, open files, header_; tempDir_, initLogFlag_
  files,     \* the records in the files of each directory
  menus,     \* save and clear are enabled
  sim,       \* the simulation thread: "off", "on", "put" (recorded, not listed)
  made,      \* states simulated so far
  saver,     \* the saving thread: what it does next and what it was asked
  archive,   \* the saved file
  trace      \* history: the states this log was given

itemVars == <<log, dropped, changePos, preStat, prePos, menus>>
vars == <<env, itemVars, logger, files, sim, made, saver, archive, trace>>

Null == -1
Blank == 0   \* what a read behind the end of a file leaves: zeros
State == 1..States
Dir == {"base", "over"}
Idle == [at |-> "idle", asked |-> <<>>, split |-> FALSE]

\* LogManager with no file open and no object registered.
Unopened == [dir |-> "base", temp |-> "base", write |-> "none", read |-> "none",
             inited |-> FALSE, registered |-> FALSE]

-----------------------------------------------------------------------------
(* LogManager *)

\* get(): one record by its number.
Record(n) ==
  IF n < Len(files[logger.read]) THEN files[logger.read][n + 1] ELSE Blank

\* put(): without an open stream the exception is caught by the caller.
PutFiles(s) ==
  IF logger.write = "none" THEN files
  ELSE [files EXCEPT ![logger.write] = Append(@, s)]

-----------------------------------------------------------------------------
(* Reading *)

FileBacked(p) == IF env.useDisk THEN TRUE ELSE changePos >= 0 /\ p > changePos
FileIndex(p) == IF env.useDisk THEN p ELSE p - changePos
Readable == preStat # Null /\ logger.read # "none"

\* getValue(int): what a view gets for a position.
getValue(p) ==
  IF ~FileBacked(p) THEN log[p + 1]
  ELSE IF FileIndex(p) = prePos THEN preStat
  ELSE IF Readable THEN Record(FileIndex(p)) ELSE Null

Positions == 0..(Len(log) - 1)

\* Mutant: the position is noted although the record was not read.
ShowAtUnread(p) ==
  IF p \in Positions /\ FileBacked(p) /\ Readable
  THEN prePos' = FileIndex(p) /\ UNCHANGED preStat
  ELSE UNCHANGED <<preStat, prePos>>

\* setPosition(p) tells the views, and they read the position; a read from a
\* file goes through preStat_.
ShowAt(p) ==
  IF p \in Positions /\ FileBacked(p) /\ Readable
  THEN preStat' = getValue(p) /\ prePos' = FileIndex(p)
  ELSE UNCHANGED <<preStat, prePos>>

setPosition ==
  /\ \E p \in Positions : ShowAt(p)
  /\ UNCHANGED <<env, log, dropped, changePos, menus, logger, files, sim, made,
                 saver, archive, trace>>

-----------------------------------------------------------------------------
(* Clearing, and the start of a simulation *)

Calm == ~env.calm \/ (sim = "off" /\ saver.at = "idle")

\* Mutant: the position of the cached state survives the log.
ClearItemButPosition ==
  /\ log' = <<>>
  /\ dropped' = 0
  /\ changePos' = -1
  /\ preStat' = Null
  /\ prePos' = prePos
  /\ menus' = FALSE
  /\ trace' = <<>>

\* clearLog() of the list and of the item; the write streams stay open.
ClearItem ==
  /\ log' = <<>>
  /\ dropped' = 0
  /\ changePos' = -1
  /\ preStat' = Null
  /\ prePos' = -1
  /\ menus' = FALSE
  /\ trace' = <<>>

\* What clearLog() does to the logger: init(), closeReads().
Cleared == [logger EXCEPT !.read = "none", !.inited = FALSE, !.registered = FALSE]

clearLog ==
  /\ menus /\ Calm
  /\ ClearItem
  /\ logger' = Cleared
  /\ UNCHANGED <<env, files, sim, made, saver, archive>>

\* startSimulation(): clearLog(), then registerCharacter() for every body.
StartSimulation ==
  /\ sim = "off" /\ made < States
  /\ Calm
  /\ ClearItem
  /\ logger' = [Cleared EXCEPT !.registered = TRUE]
  /\ sim' = "on"
  /\ UNCHANGED <<env, files, made, saver, archive>>

-----------------------------------------------------------------------------
(* Recording, on the simulation thread *)

\* addValue() of the list: the oldest entry goes when there are too many.
Listed(v) ==
  LET l == Append(log, v)
  IN  IF Len(l) > MaxLog
      THEN log' = Tail(l) /\ dropped' = dropped + 1
      ELSE log' = l /\ dropped' = dropped

Spills == changePos >= 0

\* The first record without room in the heap changes to the other directory.
SpillPos == IF env.useDisk \/ Spills THEN changePos ELSE Len(log)
SpillDir == IF env.useDisk \/ Spills THEN logger.temp ELSE "over"

\* _initLog(): the files are opened, for writing from their beginning.
Opened(dir) == [logger EXCEPT !.dir = dir, !.temp = dir, !.write = dir,
                              !.read = dir, !.inited = TRUE]

\* addValue() with room in the heap.
AddToMemory ==
  /\ sim = "on" /\ made < States
  /\ ~env.useDisk /\ ~Spills
  /\ Listed(made + 1)
  /\ made' = made + 1
  /\ trace' = Append(trace, made')
  /\ UNCHANGED <<env, changePos, preStat, prePos, menus, logger, files, sim,
                 saver, archive>>

\* _initLog() and _toLogFile(): the first record opens the files anew.
PutRecord ==
  /\ sim = "on" /\ made < States
  /\ logger.inited \/ logger.registered
  /\ made' = made + 1
  /\ changePos' = SpillPos
  /\ IF logger.inited
     THEN /\ files' = PutFiles(made')
          /\ logger' = [logger EXCEPT !.temp = SpillDir]
          /\ UNCHANGED <<preStat, menus>>
     ELSE /\ files' = [files EXCEPT ![SpillDir] = <<made'>>]
          /\ preStat' = made'
          /\ logger' = Opened(SpillDir)
          /\ menus' = TRUE
  /\ sim' = "put"
  /\ UNCHANGED <<env, log, dropped, prePos, saver, archive, trace>>

\* _addValueToLog() ends with the entry in the list.
ListRecord ==
  /\ sim = "put"
  /\ Listed(Null)
  /\ sim' = "on"
  /\ trace' = Append(trace, made)
  /\ UNCHANGED <<env, changePos, preStat, prePos, menus, logger, files, made,
                 saver, archive>>

\* The log was cleared under the simulation: with no object registered the
\* record has no place, and the exception ends the simulation.
PutRaises ==
  /\ sim = "on" /\ made < States
  /\ ~logger.inited /\ ~logger.registered
  /\ made' = made + 1
  /\ changePos' = SpillPos
  /\ preStat' = made'
  /\ logger' = [Opened(SpillDir) EXCEPT !.write = "none", !.read = "none"]
  /\ menus' = TRUE
  /\ sim' = "off"
  /\ UNCHANGED <<env, log, dropped, prePos, files, saver, archive, trace>>

\* endOfSimulation(): stopSimulation() of the item, and the view goes to the
\* beginning.
EndSimulation ==
  /\ sim = "on"
  /\ sim' = "off"
  /\ logger' = IF env.useDisk THEN [logger EXCEPT !.write = "none"] ELSE logger
  /\ ShowAt(0)
  /\ UNCHANGED <<env, log, dropped, changePos, menus, files, made, saver, archive,
                 trace>>

-----------------------------------------------------------------------------
(* Saving, on a thread of its own *)

\* The menu: refused when entries were dropped.
saveLog ==
  /\ menus /\ dropped = 0
  /\ saver = Idle /\ Calm
  /\ saver' = [at |-> IF env.useDisk THEN "close" ELSE "restore",
               asked |-> trace, split |-> FALSE]
  /\ UNCHANGED <<env, itemVars, logger, files, sim, made, archive, trace>>

\* closeAsWrite().
SaveCloses ==
  /\ saver.at = "close"
  /\ logger' = [logger EXCEPT !.write = "none"]
  /\ saver' = [saver EXCEPT !.at = "zip"]
  /\ UNCHANGED <<env, itemVars, files, sim, made, archive, trace>>

\* Mutant: the loop over the list stops one entry short.
InMemoryButLast == SelectSeq(Front(log), LAMBDA v : v # Null)

\* The entries that hold a state.  With everything in memory all of them do, unless
\* the log was cleared between a record and its entry.
InMemory ==
  IF Null \in Range(log) THEN SelectSeq(log, LAMBDA v : v # Null) ELSE log

\* _restoreLogFileFromSuperLog(), everything in memory: the list goes to the
\* files, unless an earlier save has written and closed them.
RestoreMemory ==
  /\ saver.at = "restore" /\ changePos < 0
  /\ IF logger.inited \/ InMemory = <<>>
     THEN /\ logger' = [logger EXCEPT !.write = "none"]
          /\ UNCHANGED <<files, preStat, menus>>
     ELSE /\ logger' = [Opened(logger.temp) EXCEPT !.write = "none"]
          /\ files' = IF logger.registered
                      THEN [files EXCEPT ![logger.temp] = InMemory] ELSE files
          /\ preStat' = Head(InMemory)
          /\ menus' = TRUE
  /\ saver' = IF InMemory = <<>> \/ logger.registered
              THEN [saver EXCEPT !.at = "zip", !.split = FALSE] ELSE Idle
  /\ UNCHANGED <<env, log, dropped, changePos, prePos, sim, made, archive, trace>>

\* The entries before the first whose state is in a file.
HeapPart ==
  LET n == CHOOSE k \in 0..Len(log) : /\ \A i \in 1..k : log[i] # Null
                                      /\ k = Len(log) \/ log[k + 1] = Null
  IN  SubSeq(log, 1, n)

\* jointLogs(): the records it appends are read from the directory it writes to.
Joined(memory) == memory \o memory

\* The same with the rest in files: a second logger writes the memory part to
\* "base" and joins the rest.
RestoreSplit ==
  /\ saver.at = "restore" /\ changePos >= 0
  /\ logger' = [logger EXCEPT !.write = "none"]
  /\ IF preStat = Null
     THEN saver' = Idle /\ UNCHANGED files
     ELSE /\ files' = [files EXCEPT !["base"] = Joined(HeapPart)]
          /\ saver' = [saver EXCEPT !.at = "zip", !.split = TRUE]
  /\ UNCHANGED <<env, itemVars, sim, made, archive, trace>>

\* save(): the files of the registered objects, as they are now.
ZippedDir == IF saver.split THEN "base" ELSE logger.dir

SaveZips ==
  /\ saver.at = "zip"
  /\ archive' = [recs |-> IF logger.registered THEN files[ZippedDir] ELSE <<>>,
                 of |-> saver.asked, split |-> saver.split]
  /\ saver' = Idle
  /\ UNCHANGED <<env, itemVars, logger, files, sim, made, trace>>

-----------------------------------------------------------------------------
(* Loading, between simulations *)

\* _loadLog() up to the loop over the records: clearLog(), and the files come
\* out of the archive.
Extracted ==
  /\ sim = "off" /\ archive.recs # <<>> /\ Calm
  /\ trace' = archive.recs
  /\ UNCHANGED <<env, sim, made, saver, archive>>

ReadBase == [Unopened EXCEPT !.write = logger.write, !.read = "base", !.registered = TRUE]

\* The list gets an entry without a state (on disk) or a copy (in memory) for
\* every record, and the view goes to the beginning.  Copying a record and
\* showing one from a file go through preStat_.
loadLog ==
  /\ Extracted
  /\ LET recs == archive.recs
         entries == IF env.useDisk THEN [i \in DOMAIN recs |-> Null] ELSE recs
         over == IF Len(recs) > MaxLog THEN Len(recs) - MaxLog ELSE 0
     IN  /\ log' = SubSeq(entries, over + 1, Len(recs))
         /\ dropped' = over
         /\ preStat' = IF env.useDisk THEN Head(recs) ELSE Last(recs)
         /\ prePos' = IF env.useDisk THEN 0 ELSE Len(recs) - 1
         /\ files' = [files EXCEPT !["base"] = recs]
  /\ changePos' = -1
  /\ menus' = TRUE
  /\ logger' = ReadBase

\* The heap runs low at record i.  _createOverLog() is to move the rest to
\* "over", but separateLogs() reads the directory it has just made empty: it
\* raises out of the load, or at the first record leaves entries to no record.
loadLogLow ==
  /\ Extracted
  /\ ~env.useDisk /\ env.low
  /\ \E i \in 0..(Len(archive.recs) - 1) :
       /\ i <= MaxLog /\ Len(archive.recs) <= MaxLog
       /\ log' = IF i = 0 THEN [k \in DOMAIN archive.recs |-> Null]
                 ELSE SubSeq(archive.recs, 1, i)
       /\ changePos' = i
       /\ preStat' = archive.recs[i + 1]
       /\ prePos' = i
       /\ menus' = (i = 0)
       /\ logger' = IF i = 0 THEN [ReadBase EXCEPT !.dir = "over", !.read = "over"]
                    ELSE ReadBase
  /\ dropped' = 0
  /\ files' = [files EXCEPT !["base"] = archive.recs, !["over"] = <<>>]

-----------------------------------------------------------------------------
Init ==
  /\ env \in Settings
  /\ log = <<>> /\ dropped = 0 /\ changePos = -1
  /\ preStat = Null /\ prePos = -1
  /\ logger = Unopened
  /\ files = [d \in Dir |-> <<>>]
  /\ menus = FALSE
  /\ sim = "off" /\ made = 0
  /\ saver = Idle
  /\ archive = [recs |-> <<>>, of |-> <<>>, split |-> FALSE]
  /\ trace = <<>>

Next ==
  \/ setPosition \/ clearLog \/ StartSimulation
  \/ AddToMemory \/ PutRecord \/ ListRecord \/ PutRaises \/ EndSimulation
  \/ saveLog \/ SaveCloses \/ RestoreMemory \/ RestoreSplit \/ SaveZips
  \/ loadLog \/ loadLogLow

Spec == Init /\ [][Next]_vars

-----------------------------------------------------------------------------
(* Properties *)

\* Every variable keeps its type: the list never exceeds maxLogSize_, and a
\* position that was read lies in the log.
TypeOK ==
  /\ env \in Settings
  /\ log \in Seq(State \cup {Null, Blank}) /\ Len(log) <= MaxLog
  /\ dropped \in Nat /\ changePos \in -1..MaxLog
  /\ preStat \in State \cup {Null, Blank} /\ prePos \in -1..(2 * States)
  /\ logger \in [dir : Dir, temp : Dir, write : Dir \cup {"none"},
                 read : Dir \cup {"none"}, inited : BOOLEAN, registered : BOOLEAN]
  /\ files \in [Dir -> Seq(State \cup {Null, Blank})]
  /\ menus \in BOOLEAN
  /\ sim \in {"off", "on", "put"} /\ made \in 0..States
  /\ saver.at \in {"idle", "close", "restore", "zip"}

\* GrxWorldStateItem.getValue(int): whatever was recorded or loaded comes back
\* at its position, from the heap, the file or the cached preStat_, also while
\* the simulation records.  Left out: the position where the log changes from
\* heap to file, which reads as null (pos > changePos_), and a log partly in
\* files whose list has dropped entries: changePos_ and the files stay.
ReadsBack ==
  env.calm /\ ~env.low =>
    /\ sim # "put" => dropped + Len(log) = Len(trace)
    /\ dropped = 0 \/ (~env.useDisk /\ changePos < 0) =>
         \A p \in Positions \ {changePos} : getValue(p) = trace[dropped + p + 1]

\* A position that has been recorded reads the same for as long as the log
\* lives: neither the views' reading through the one preStat_, nor later
\* records, nor saving changes what it shows, unless entries are dropped.  On
\* disk this needs no calm user; in the heap a save that the next simulation
\* overtakes leaves the logger on the wrong directory.
StableOnceRecorded ==
  [][ \/ clearLog \/ StartSimulation \/ loadLog \/ loadLogLow
      \/ dropped' # dropped
      \/ ~env.calm /\ ~env.useDisk
      \/ \A p \in Positions : getValue(p)' = getValue(p) ]_vars

\* _saveLog(): the saved file is the log the user saw when asking for it,
\* for a log that is wholly on disk or wholly in the heap.
SavedIsLog == env.calm /\ ~archive.split => archive.recs = archive.of

\* The same for every log: also one that went from the heap to files.
SavedIsWholeLog == env.calm => archive.recs = archive.of
=============================================================================
