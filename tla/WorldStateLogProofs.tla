------------------------ MODULE WorldStateLogProofs ------------------------
(* Proofs that WorldStateLog's invariants hold for any number of states    *)
(* and any size of the list.                                               *)
EXTENDS WorldStateLog, SequenceTheorems, TLAPS

-----------------------------------------------------------------------------
(* The inductive invariant. Its parts are about a calm user.               *)

Loggers == [dir : Dir, temp : Dir, write : Dir \cup {"none"},
            read : Dir \cup {"none"}, inited : BOOLEAN, registered : BOOLEAN]
Savers == [at : {"idle", "close", "restore", "zip"}, asked : Seq(Nat),
           split : BOOLEAN]
Archives == [recs : Seq(Nat), of : Seq(Nat), split : BOOLEAN]

\* What an entry of the list can be.
Entries == Nat \cup {Null}

LogTypes ==
  /\ log \in Seq(Entries) /\ dropped \in Nat /\ changePos \in Nat \cup {-1}
  /\ preStat \in Int /\ prePos \in Int
  /\ logger \in Loggers
  /\ files \in [Dir -> Seq(Nat)]
  /\ menus \in BOOLEAN
  /\ sim \in {"off", "on", "put"} /\ made \in Nat
  /\ saver \in Savers /\ archive \in Archives
  /\ trace \in Seq(Nat)

\* Nothing is saved while a simulation records, and a simulation has registered its
\* bodies. The menus are there when the files are, and then something is in the log.
Undisturbed ==
  /\ sim # "off" =>
        /\ saver.at = "idle" /\ logger.registered
        /\ logger.inited = menus
  /\ menus /\ sim # "put" => logger.registered /\ Len(log) > 0
  /\ ~menus => sim # "put"

\* What is saved is the log as it was asked for.
SavesLog ==
  /\ saver.at = "close" => env.useDisk
  /\ saver.at = "restore" => ~env.useDisk
  /\ saver.at # "idle" => menus /\ dropped = 0 /\ saver.asked = trace
  /\ saver.at = "zip" /\ ~saver.split => files[logger.dir] = trace
  /\ archive.split \/ archive.recs = archive.of

\* Every entry has its place in the list or was dropped, unless a load was broken off.
Counted == ~env.low \/ changePos < 0 => Len(trace) = dropped + Len(log)

\* On disk the file is the log, and one record ahead of it in the middle of addValue().
OnDisk ==
  env.useDisk =>
    /\ changePos = -1 /\ logger.dir = "base" /\ logger.temp = "base"
    /\ menus => /\ preStat # Null /\ logger.read = "base"
                /\ files["base"] = IF sim = "put" THEN Append(trace, made) ELSE trace
    /\ ~menus => trace = <<>> /\ prePos = -1
    /\ sim # "off" /\ menus => logger.write = "base"
    /\ prePos # -1 => prePos \in 0..(Len(trace) - 1) /\ preStat = trace[prePos + 1]

\* In the heap the list is the end of the log, and files are only written by a save.
InHeap ==
  ~env.useDisk /\ changePos < 0 =>
    /\ sim # "put"
    /\ \A i \in 1..Len(log) : log[i] = trace[dropped + i]
    /\ sim # "off" => ~logger.inited /\ prePos = -1
    /\ sim = "off" /\ logger.inited => files[logger.dir] = trace

\* From changePos_ on, the entries of the list have no state.
Spilled ==
  ~env.useDisk /\ changePos >= 0 =>
    /\ sim # "off" => menus /\ logger.write = "over"
    /\ menus /\ dropped = 0 =>
          /\ changePos <= Len(log) /\ (sim # "put" => changePos < Len(log))
          /\ \A i \in 1..Len(log) : log[i] # Null <=> i <= changePos

\* The states before changePos_ are in the list, the others in the files, which again
\* may be one record ahead.
SpilledReads ==
  ~env.useDisk /\ changePos >= 0 /\ ~env.low /\ dropped = 0 =>
    /\ menus /\ logger.read = "over" /\ preStat # Null
    /\ \A i \in 1..changePos : log[i] = trace[i]
    /\ Len(files["over"]) = Len(trace) - changePos + (IF sim = "put" THEN 1 ELSE 0)
    /\ sim = "put" => files["over"][Len(trace) - changePos + 1] = made
    /\ \A i \in (changePos + 1)..Len(trace) : files["over"][i - changePos] = trace[i]
    /\ prePos # -1 => /\ prePos \in 1..(Len(trace) - changePos - 1)
                      /\ preStat = trace[changePos + prePos + 1]

CalmInv ==
  /\ LogTypes /\ Undisturbed /\ SavesLog /\ Counted
  /\ OnDisk /\ InHeap /\ Spilled /\ SpilledReads

LogInv == env \in Settings /\ (env.calm => CalmInv)

-----------------------------------------------------------------------------
(* Lemmas. *)

\* The fields of a setting.
LEMMA SettingsTyped ==
  ASSUME env \in Settings
  PROVE  env.useDisk \in BOOLEAN /\ env.calm \in BOOLEAN /\ env.low \in BOOLEAN
  BY LogAssumption

\* At the start everything has its type, and nothing is in the log.
LEMMA InitTyped == Init => LogTypes
<1> SUFFICES ASSUME Init PROVE LogTypes
  OBVIOUS
<1> USE DEF Init, Null, Unopened, Idle, Dir
<1>1. <<>> \in Seq(Nat) /\ <<>> \in Seq(Entries)
  OBVIOUS
<1>2. logger \in Loggers
  BY DEF Loggers
<1>3. saver \in Savers /\ archive \in Archives
  BY <1>1 DEF Savers, Archives
<1>4. files \in [Dir -> Seq(Nat)]
  BY <1>1
<1>5. dropped \in Nat /\ changePos \in Nat \cup {-1} /\ preStat \in Int /\ prePos \in Int /\ made \in Nat
  OBVIOUS
<1>6. menus \in BOOLEAN /\ sim \in {"off", "on", "put"}
  OBVIOUS
<1>7. log \in Seq(Entries) /\ trace \in Seq(Nat)
  BY <1>1
<1> HIDE DEF Init
<1> QED BY <1>2, <1>3, <1>4, <1>5, <1>6, <1>7 DEF LogTypes

LEMMA InitOK == Init => LogInv
<1> SUFFICES ASSUME Init PROVE LogInv
  OBVIOUS
<1>1. LogTypes
  BY InitTyped
<1> USE DEF Init, Null, Unopened, Idle, Dir
<1>2. Undisturbed /\ SavesLog /\ Counted
  BY DEF Undisturbed, SavesLog, Counted
<1>3. OnDisk /\ InHeap /\ Spilled /\ SpilledReads
  BY DEF OnDisk, InHeap, Spilled, SpilledReads
<1> QED BY <1>1, <1>2, <1>3 DEF LogInv, CalmInv

-----------------------------------------------------------------------------
(* What a position reads. *)

\* Positions are those of the list, counted from 0.
LEMMA PositionsOf ==
  ASSUME LogTypes, NEW p \in Positions
  PROVE  p \in Nat /\ p < Len(log) /\ Len(log) \in Nat /\ p + 1 \in 1..Len(log)
  BY DEF LogTypes, Positions

\* On disk every position reads the state that was recorded for it.
LEMMA DiskReads ==
  ASSUME env \in Settings, CalmInv, env.useDisk, NEW p \in Positions
  PROVE  /\ FileBacked(p) /\ FileIndex(p) = p /\ Readable /\ menus
         /\ p + 1 \in 1..Len(trace)
         /\ getValue(p) = trace[p + 1]
<1> USE DEF CalmInv
<1>1. p \in Nat /\ p < Len(log) /\ Len(log) \in Nat
  BY PositionsOf
<1>2. trace \in Seq(Nat) /\ Len(trace) \in Nat /\ dropped \in Nat /\ made \in Nat
  BY DEF LogTypes
<1>3. Len(trace) = dropped + Len(log)
  BY DEF Counted, OnDisk
<1>4. p + 1 \in 1..Len(trace) /\ p < Len(trace)
  BY <1>1, <1>2, <1>3
<1>5. menus
  <2> SUFFICES ASSUME ~menus PROVE FALSE
    OBVIOUS
  <2>1. trace = <<>>
    BY DEF OnDisk
  <2> QED BY <2>1, <1>4
<1>6. FileBacked(p) /\ FileIndex(p) = p
  BY DEF FileBacked, FileIndex
<1>7. Readable
  BY <1>5 DEF Readable, OnDisk
<1>8. Record(p) = trace[p + 1]
  <2>1. logger.read = "base"
    BY <1>5 DEF OnDisk
  <2>2. CASE sim = "put"
    <3>1. files["base"] = Append(trace, made)
      BY <1>5, <2>2 DEF OnDisk
    <3>2. Len(Append(trace, made)) = Len(trace) + 1 /\ Append(trace, made)[p + 1] = trace[p + 1]
      BY <1>2, <1>4, AppendProperties
    <3> QED BY <2>1, <3>1, <3>2, <1>1, <1>2, <1>4 DEF Record
  <2>3. CASE sim # "put"
    <3>1. files["base"] = trace
      BY <1>5, <2>3 DEF OnDisk
    <3> QED BY <2>1, <3>1, <1>4 DEF Record
  <2> QED BY <2>2, <2>3
<1>9. p = prePos => preStat = trace[p + 1]
  BY <1>1 DEF OnDisk
<1> QED BY <1>4, <1>5, <1>6, <1>7, <1>8, <1>9 DEF getValue

\* So does every position behind changePos_, if nothing was dropped.
LEMMA SpilledPositionReads ==
  ASSUME env \in Settings, CalmInv, ~env.useDisk, ~env.low, changePos >= 0, dropped = 0,
         NEW p \in Positions, p > changePos
  PROVE  /\ FileBacked(p) /\ FileIndex(p) = p - changePos /\ Readable
         /\ p + 1 \in 1..Len(trace)
         /\ getValue(p) = trace[p + 1]
<1> USE DEF CalmInv
<1>1. p \in Nat /\ p < Len(log) /\ Len(log) \in Nat
  BY PositionsOf
<1>2. trace \in Seq(Nat) /\ Len(trace) \in Nat /\ changePos \in Nat /\ files["over"] \in Seq(Nat)
  BY DEF LogTypes, Dir
<1>3. Len(trace) = Len(log)
  BY <1>1 DEF Counted
<1>4. p + 1 \in 1..Len(trace) /\ p - changePos \in Nat /\ p + 1 \in (changePos + 1)..Len(trace)
  BY <1>1, <1>2, <1>3
<1>5. FileBacked(p) /\ FileIndex(p) = p - changePos /\ Readable
  BY DEF FileBacked, FileIndex, Readable, SpilledReads
<1>6. Record(p - changePos) = trace[p + 1]
  <2>1. Len(files["over"]) >= Len(trace) - changePos
    BY <1>2 DEF SpilledReads
  <2>2. p - changePos < Len(files["over"])
    BY <2>1, <1>1, <1>2, <1>3
  <2>3. files["over"][(p + 1) - changePos] = trace[p + 1]
    BY <1>4 DEF SpilledReads
  <2>4. (p + 1) - changePos = (p - changePos) + 1
    BY <1>1, <1>2
  <2>5. logger.read = "over"
    BY DEF SpilledReads
  <2> QED BY <2>2, <2>3, <2>4, <2>5 DEF Record
<1>7. p - changePos = prePos => preStat = trace[p + 1]
  <2> SUFFICES ASSUME p - changePos = prePos PROVE preStat = trace[p + 1]
    OBVIOUS
  <2>0. prePos \in Nat
    BY <1>4
  <2>1. changePos + prePos + 1 = p + 1 /\ prePos # -1
    BY <1>1, <1>2, <2>0
  <2>2. preStat = trace[changePos + prePos + 1]
    BY <2>1 DEF SpilledReads
  <2> QED BY <2>1, <2>2
<1> QED BY <1>4, <1>5, <1>6, <1>7 DEF getValue

\* Reading gives a state, or null, in any case.
LEMMA ReadTyped ==
  ASSUME LogTypes, Readable, NEW p \in Positions, FileBacked(p)
  PROVE  getValue(p) \in Int /\ FileIndex(p) \in Int
<1>1. p \in Nat /\ FileIndex(p) \in Int
  BY PositionsOf DEF FileIndex, LogTypes
<1>2. Record(FileIndex(p)) \in Int
  <2>1. files[logger.read] \in Seq(Nat) /\ FileIndex(p) >= 0
    BY <1>1 DEF LogTypes, Loggers, Readable, FileIndex, FileBacked
  <2> QED BY <1>1, <2>1 DEF Record, Blank
<1> QED BY <1>1, <1>2 DEF getValue, LogTypes


-----------------------------------------------------------------------------
(* Showing a position. *)

\* A state and the position it was read for are as the invariant wants them.
CacheOK(stat, pos) ==
  /\ stat \in Int /\ pos \in Int
  /\ env.useDisk => /\ menus => stat # Null
                    /\ ~menus => pos = -1
                    /\ pos # -1 => pos \in 0..(Len(trace) - 1) /\ stat = trace[pos + 1]
  /\ ~env.useDisk /\ changePos < 0 => pos = prePos
  /\ ~env.useDisk /\ changePos >= 0 /\ ~env.low /\ dropped = 0 =>
        /\ stat # Null
        /\ pos # -1 => /\ pos \in 1..(Len(trace) - changePos - 1)
                       /\ stat = trace[changePos + pos + 1]

\* They are after a view has read a position.
LEMMA ShowsRight ==
  ASSUME env \in Settings, CalmInv, NEW p, ShowAt(p)
  PROVE  CacheOK(preStat', prePos')
<1>1. CASE ~(p \in Positions /\ FileBacked(p) /\ Readable)
  <2>1. preStat' = preStat /\ prePos' = prePos
    BY <1>1 DEF ShowAt
  <2>2. CacheOK(preStat, prePos)
    BY DEF CalmInv, LogTypes, OnDisk, SpilledReads, CacheOK
  <2> QED BY <2>1, <2>2
<1>2. CASE p \in Positions /\ FileBacked(p) /\ Readable
  <2> DEFINE v == getValue(p)
             n == FileIndex(p)
  <2>1. preStat' = v /\ prePos' = n
    BY <1>2 DEF ShowAt
  <2>2. v \in Int /\ n \in Int
    BY <1>2, ReadTyped DEF CalmInv
  <2>3. trace \in Seq(Nat) /\ Len(trace) \in Nat /\ \A i \in 1..Len(trace) : trace[i] # Null
    BY DEF CalmInv, LogTypes, Null
  <2>4. CASE env.useDisk
    <3>1. n = p /\ v = trace[p + 1] /\ menus /\ p + 1 \in 1..Len(trace)
      BY <1>2, <2>4, DiskReads
    <3>2. p \in Nat
      BY <1>2, PositionsOf DEF CalmInv
    <3>3. v # Null /\ n \in 0..(Len(trace) - 1) /\ v = trace[n + 1]
      BY <3>1, <3>2, <2>3
    <3> HIDE DEF v, n
    <3> QED BY <2>1, <2>2, <2>4, <3>1, <3>3 DEF CacheOK
  <2>5. CASE ~env.useDisk
    <3>1. changePos >= 0 /\ p > changePos /\ n = p - changePos
      BY <1>2, <2>5 DEF FileBacked, FileIndex
    <3>2. p \in Nat /\ changePos \in Int
      BY <1>2, PositionsOf DEF CalmInv, LogTypes
    <3>3. ASSUME ~env.low, dropped = 0
          PROVE  /\ v # Null /\ n \in 1..(Len(trace) - changePos - 1)
                 /\ v = trace[changePos + n + 1]
      <4>1. v = trace[p + 1] /\ p + 1 \in 1..Len(trace)
        BY <1>2, <2>5, <3>1, <3>3, SpilledPositionReads
      <4>2. changePos + n + 1 = p + 1 /\ n \in 1..(Len(trace) - changePos - 1)
        BY <3>1, <3>2, <4>1, <2>3
      <4> QED BY <4>1, <4>2, <2>3
    <3> HIDE DEF v, n
    <3>4. ~(changePos < 0)
      BY <3>1, <3>2
    <3> QED BY <2>1, <2>2, <2>5, <3>3, <3>4 DEF CacheOK
  <2> QED BY <2>4, <2>5
<1> QED BY <1>1, <1>2

\* A view shows a position.
LEMMA SetPositionStep ==
  ASSUME env \in Settings, CalmInv, setPosition
  PROVE  CalmInv'
<1>1. CacheOK(preStat', prePos')
  <2>1. PICK p \in Positions : ShowAt(p)
    BY DEF setPosition
  <2> QED BY <2>1, ShowsRight
<1> USE DEF setPosition
<1>2. LogTypes'
  BY <1>1 DEF CalmInv, LogTypes, CacheOK
<1>3. Undisturbed' /\ SavesLog' /\ Counted' /\ Spilled'
  BY DEF CalmInv, Undisturbed, SavesLog, Counted, Spilled
<1>4. OnDisk'
  BY <1>1 DEF CalmInv, OnDisk, CacheOK
<1>5. InHeap'
  BY <1>1 DEF CalmInv, InHeap, CacheOK
<1>6. SpilledReads'
  BY <1>1 DEF CalmInv, SpilledReads, CacheOK
<1> QED BY <1>2, <1>3, <1>4, <1>5, <1>6 DEF CalmInv

\* The simulation ends, and the view goes to the beginning.
LEMMA EndSimulationStep ==
  ASSUME env \in Settings, CalmInv, EndSimulation
  PROVE  CalmInv'
<1>1. CacheOK(preStat', prePos')
  BY ShowsRight DEF EndSimulation
<1>2. /\ logger' \in Loggers
      /\ \A f \in {"dir", "temp", "read", "inited", "registered"} : logger'[f] = logger[f]
  BY SettingsTyped DEF CalmInv, LogTypes, Loggers, EndSimulation
<1>3. /\ sim = "on" /\ sim' = "off"
      /\ UNCHANGED <<env, log, dropped, changePos, menus, files, made, saver, archive, trace>>
  BY DEF EndSimulation
<1>4. LogTypes'
  BY <1>1, <1>2, <1>3 DEF CalmInv, LogTypes, CacheOK
<1>5. Undisturbed' /\ SavesLog' /\ Counted' /\ Spilled'
  BY <1>2, <1>3 DEF CalmInv, Undisturbed, SavesLog, Counted, Spilled
<1>6. OnDisk'
  BY <1>1, <1>2, <1>3 DEF CalmInv, OnDisk, CacheOK
<1>7. InHeap'
  BY <1>1, <1>2, <1>3 DEF CalmInv, InHeap, CacheOK
<1>8. SpilledReads'
  BY <1>1, <1>2, <1>3 DEF CalmInv, SpilledReads, CacheOK
<1> QED BY <1>4, <1>5, <1>6, <1>7, <1>8 DEF CalmInv


-----------------------------------------------------------------------------
(* Clearing and recording. *)

\* An empty list has no entries.
LEMMA EmptyList ==
  /\ <<>> \in Seq(Entries) /\ <<>> \in Seq(Nat) /\ Len(<<>>) = 0
  /\ \A i : i \notin 1..0
  OBVIOUS

\* After ClearItem nothing has to be right but what the clearing has set.
LEMMA Clears ==
  ASSUME env \in Settings, CalmInv, ClearItem, UNCHANGED <<env, files, made, saver, archive>>,
         saver.at = "idle", logger' \in Loggers,
         logger'.dir = logger.dir, logger'.temp = logger.temp, ~logger'.inited,
         sim' \in {"off", "on"}, sim' = "on" => logger'.registered
  PROVE  CalmInv'
<1> USE EmptyList DEF ClearItem, CalmInv, Null
<1>1. LogTypes'
  <2>1. log' \in Seq(Entries) /\ trace' \in Seq(Nat) /\ menus' \in BOOLEAN
    OBVIOUS
  <2>2. dropped' \in Nat /\ changePos' \in Nat \cup {-1} /\ preStat' \in Int /\ prePos' \in Int
    OBVIOUS
  <2> HIDE DEF ClearItem
  <2> QED BY <2>1, <2>2 DEF LogTypes
<1>2. menus' = FALSE
  OBVIOUS
<1>3. Undisturbed'
  BY <1>2 DEF Undisturbed, LogTypes, Loggers
<1>4. SavesLog' /\ Counted'
  BY DEF SavesLog, Counted
<1>5. OnDisk'
  BY DEF OnDisk
<1>6. InHeap'
  BY DEF InHeap
<1>7. Spilled' /\ SpilledReads'
  BY DEF Spilled, SpilledReads
<1> QED BY <1>1, <1>3, <1>4, <1>5, <1>6, <1>7

\* The user clears the log.
LEMMA ClearLogStep ==
  ASSUME env \in Settings, env.calm, CalmInv, clearLog
  PROVE  CalmInv'
<1>1. logger \in Loggers /\ sim \in {"off", "on", "put"}
  BY DEF CalmInv, LogTypes
<1>2. /\ logger' \in Loggers /\ logger'.dir = logger.dir /\ logger'.temp = logger.temp
      /\ ~logger'.inited
  BY <1>1 DEF clearLog, Cleared, Loggers
<1>3. sim' = "off" /\ saver.at = "idle"
  BY DEF clearLog, Calm
<1> QED BY <1>2, <1>3, Clears DEF clearLog

\* A simulation starts.
LEMMA StartSimulationStep ==
  ASSUME env \in Settings, env.calm, CalmInv, StartSimulation
  PROVE  CalmInv'
<1>1. logger \in Loggers
  BY DEF CalmInv, LogTypes
<1>2. /\ logger' \in Loggers /\ logger'.dir = logger.dir /\ logger'.temp = logger.temp
      /\ ~logger'.inited /\ logger'.registered
  BY <1>1 DEF StartSimulation, Cleared, Loggers
<1>3. sim' = "on" /\ saver.at = "idle"
  BY DEF StartSimulation, Calm
<1> QED BY <1>2, <1>3, Clears DEF StartSimulation

\* addValue() of the list: one more entry, and perhaps the first one dropped.
LEMMA ListedOK ==
  ASSUME LogTypes, NEW v \in Entries, Listed(v)
  PROVE  /\ log' \in Seq(Entries) /\ dropped' \in Nat /\ Len(log') > 0
         /\ dropped' + Len(log') = dropped + Len(log) + 1
         /\ dropped' = dropped \/ dropped' = dropped + 1
         /\ dropped' = dropped => log' = Append(log, v)
         /\ \A i \in 1..Len(log') :
               log'[i] = IF dropped' + i = dropped + Len(log) + 1 THEN v
                         ELSE log[dropped' - dropped + i]
<1> DEFINE l == Append(log, v)
           n == Len(log)
<1>1. log \in Seq(Entries) /\ n \in Nat /\ dropped \in Nat /\ MaxLog \in Nat \ {0}
  BY LogAssumption DEF LogTypes
<1>2. /\ l \in Seq(Entries) /\ Len(l) = n + 1 /\ l # <<>>
      /\ \A i \in 1..n : l[i] = log[i]
      /\ l[n + 1] = v
  BY <1>1, AppendProperties
<1>3. IF Len(l) > MaxLog THEN log' = Tail(l) /\ dropped' = dropped + 1
      ELSE log' = l /\ dropped' = dropped
  BY DEF Listed
<1>4. CASE Len(l) > MaxLog
  <2>1. log' = Tail(l) /\ dropped' = dropped + 1
    BY <1>3, <1>4
  <2>2. /\ Tail(l) \in Seq(Entries) /\ Len(Tail(l)) = n
        /\ \A i \in 1..n : Tail(l)[i] = l[i + 1]
    BY <1>1, <1>2, HeadTailProperties
  <2>3. n > 0
    BY <1>1, <1>2, <1>4
  <2>4. ASSUME NEW i \in 1..n
        PROVE  Tail(l)[i] = IF dropped + 1 + i = dropped + n + 1 THEN v
                            ELSE log[(dropped + 1) - dropped + i]
    <3> HIDE DEF l, n
    <3>1. CASE i = n
      BY <3>1, <2>2, <1>2, <1>1
    <3>2. CASE i # n
      <4>1. i + 1 \in 1..n /\ (dropped + 1) - dropped + i = i + 1 /\ dropped + 1 + i # dropped + n + 1
        BY <3>2, <1>1
      <4> QED BY <4>1, <2>2, <1>2
    <3> QED BY <3>1, <3>2
  <2> HIDE DEF l
  <2>5. Len(log') = n /\ log' \in Seq(Entries)
    BY <2>1, <2>2
  <2>6. dropped' \in Nat /\ dropped' # dropped /\ dropped' + n = dropped + n + 1
    BY <2>1, <1>1
  <2>7. \A i \in 1..Len(log') :
           log'[i] = IF dropped' + i = dropped + n + 1 THEN v
                     ELSE log[dropped' - dropped + i]
    <3> TAKE i \in 1..Len(log')
    <3>1. i \in 1..n
      BY <2>5
    <3>2. log'[i] = Tail(l)[i] /\ dropped' = dropped + 1
      BY <2>1
    <3> QED BY <3>1, <3>2, <2>4
  <2>8. Len(log') > 0 /\ dropped' + Len(log') = dropped + n + 1
    BY <2>3, <2>5, <2>6
  <2> QED BY <2>1, <2>5, <2>6, <2>7, <2>8
<1>5. CASE ~(Len(l) > MaxLog)
  <2>1. log' = l /\ dropped' = dropped
    BY <1>3, <1>5
  <2>2. ASSUME NEW i \in 1..(n + 1)
        PROVE  l[i] = IF dropped + i = dropped + n + 1 THEN v
                      ELSE log[dropped - dropped + i]
    <3> HIDE DEF l, n
    <3>1. CASE i = n + 1
      BY <3>1, <1>2, <1>1
    <3>2. CASE i # n + 1
      <4>1. i \in 1..n /\ dropped - dropped + i = i /\ dropped + i # dropped + n + 1
        BY <3>2, <1>1
      <4> QED BY <4>1, <1>2
    <3> QED BY <3>1, <3>2
  <2>3. Len(log') = n + 1 /\ log' \in Seq(Entries) /\ log' = Append(log, v)
    BY <2>1, <1>2
  <2> HIDE DEF l
  <2>4. dropped' + (n + 1) = dropped + n + 1 /\ n + 1 > 0
    BY <2>1, <1>1
  <2>5. \A i \in 1..Len(log') :
           log'[i] = IF dropped' + i = dropped + n + 1 THEN v
                     ELSE log[dropped' - dropped + i]
    BY <2>1, <2>2, <2>3
  <2>6. /\ log' \in Seq(Entries) /\ dropped' \in Nat /\ Len(log') > 0
        /\ dropped' + Len(log') = dropped + n + 1
    BY <2>1, <2>3, <2>4, <1>1
  <2> QED BY <2>1, <2>3, <2>5, <2>6
<1> QED BY <1>4, <1>5


\* Where an entry that is not the last was before d dropped entries became e.
LEMMA Shifted ==
  ASSUME NEW d \in Nat, NEW e \in Nat, NEW n \in Nat, NEW m \in Nat, NEW i \in 1..m,
         e = d \/ e = d + 1, e + m = d + n + 1, e + i # d + n + 1
  PROVE  e - d + i \in 1..n /\ d + (e - d + i) = e + i /\ e + i \in 1..(d + n)
  OBVIOUS

\* A state is recorded in the heap.
LEMMA AddToMemoryStep ==
  ASSUME env \in Settings, CalmInv, AddToMemory
  PROVE  CalmInv'
<1> DEFINE n == Len(log)
<1>1. /\ LogTypes /\ n \in Nat /\ dropped \in Nat /\ trace \in Seq(Nat) /\ made + 1 \in Nat
      /\ changePos \in Int /\ made + 1 \in Entries
  BY DEF CalmInv, LogTypes, Entries
<1>2. /\ ~env.useDisk /\ changePos < 0 /\ sim = "on" /\ Listed(made + 1)
      /\ made' = made + 1 /\ trace' = Append(trace, made + 1)
      /\ UNCHANGED <<env, changePos, preStat, prePos, menus, logger, files, sim, saver, archive>>
  BY <1>1 DEF AddToMemory, Spills
<1>3. /\ log' \in Seq(Entries) /\ dropped' \in Nat /\ Len(log') > 0
      /\ dropped' + Len(log') = dropped + n + 1
      /\ \A i \in 1..Len(log') :
            log'[i] = IF dropped' + i = dropped + n + 1 THEN made + 1
                      ELSE log[dropped' - dropped + i]
  BY <1>1, <1>2, ListedOK
<1>4. Len(trace) = dropped + n /\ \A i \in 1..n : log[i] = trace[dropped + i]
  BY <1>2 DEF CalmInv, Counted, InHeap
<1>5. /\ trace' \in Seq(Nat) /\ Len(trace') = Len(trace) + 1
      /\ \A i \in 1..Len(trace) : trace'[i] = trace[i]
      /\ trace'[Len(trace) + 1] = made + 1
  BY <1>1, <1>2, AppendProperties
<1>6. ASSUME NEW i \in 1..Len(log')
      PROVE  log'[i] = trace'[dropped' + i]
  <2>1. Len(log') \in Nat /\ i \in Nat /\ 1 <= i /\ i <= Len(log')
    BY <1>3
  <2>2. CASE dropped' + i = dropped + n + 1
    BY <2>2, <1>3, <1>4, <1>5
  <2>3. CASE dropped' + i # dropped + n + 1
    <3> DEFINE j == dropped' - dropped + i
    <3>1. dropped' \in Nat /\ (dropped' = dropped \/ dropped' = dropped + 1)
      BY <1>1, <1>2, ListedOK
    <3>2. j \in 1..n /\ dropped + j = dropped' + i /\ dropped' + i \in 1..Len(trace)
      <4>1. dropped' + Len(log') = dropped + n + 1 /\ n \in Nat /\ dropped \in Nat
        BY <1>1, <1>3
      <4> HIDE DEF n
      <4>2. j \in 1..n /\ dropped + j = dropped' + i /\ dropped' + i \in 1..(dropped + n)
        BY <2>1, <2>3, <3>1, <4>1, Shifted
      <4> QED BY <4>2, <1>4
    <3>3. log'[i] = log[j]
      BY <2>3, <1>3
    <3> QED BY <3>2, <3>3, <1>4, <1>5
  <2> QED BY <2>2, <2>3
<1>7. LogTypes'
  BY <1>1, <1>2, <1>3, <1>5 DEF LogTypes
<1>8. ~menus /\ logger.inited = menus /\ sim' = "on"
  BY <1>2 DEF CalmInv, InHeap, Undisturbed
<1>9. Undisturbed' /\ SavesLog'
  BY <1>2, <1>8 DEF CalmInv, Undisturbed, SavesLog
<1>10. Counted'
  <2>1. Len(trace') = dropped' + Len(log')
    BY <1>1, <1>3, <1>4, <1>5
  <2> QED BY <2>1 DEF Counted
<1>11. OnDisk' /\ Spilled' /\ SpilledReads'
  BY <1>1, <1>2 DEF OnDisk, Spilled, SpilledReads
<1>12. InHeap'
  BY <1>2, <1>6 DEF CalmInv, InHeap
<1> QED BY <1>7, <1>9, <1>10, <1>11, <1>12 DEF CalmInv

\* The entry of a recorded state is put in the list.
LEMMA ListRecordStep ==
  ASSUME env \in Settings, CalmInv, ListRecord
  PROVE  CalmInv'
<1> DEFINE n == Len(log)
<1>1. /\ LogTypes /\ n \in Nat /\ dropped \in Nat /\ trace \in Seq(Nat) /\ made \in Nat
      /\ changePos \in Int /\ Null \in Entries /\ Len(trace) \in Nat /\ log \in Seq(Entries)
      /\ prePos \in Int
  BY DEF CalmInv, LogTypes, Entries
<1>2. /\ sim = "put" /\ sim' = "on" /\ Listed(Null) /\ trace' = Append(trace, made)
      /\ UNCHANGED <<env, changePos, preStat, prePos, menus, logger, files, made, saver, archive>>
  BY DEF ListRecord
<1>3. /\ log' \in Seq(Entries) /\ dropped' \in Nat /\ Len(log') > 0
      /\ dropped' + Len(log') = dropped + n + 1
      /\ dropped' = dropped \/ dropped' = dropped + 1
      /\ dropped' = dropped => log' = Append(log, Null)
  BY <1>1, <1>2, ListedOK
<1>4. /\ trace' \in Seq(Nat) /\ Len(trace') = Len(trace) + 1
      /\ \A i \in 1..Len(trace) : trace'[i] = trace[i]
      /\ trace'[Len(trace) + 1] = made
  BY <1>1, <1>2, AppendProperties
<1>5. menus /\ logger.registered
  BY <1>2 DEF CalmInv, Undisturbed
<1>6. LogTypes'
  BY <1>1, <1>2, <1>3, <1>4 DEF LogTypes
<1>7. Undisturbed' /\ SavesLog'
  BY <1>2, <1>3, <1>5 DEF CalmInv, Undisturbed, SavesLog
<1>8. Counted'
  BY <1>1, <1>2, <1>3, <1>4 DEF CalmInv, Counted
<1>9. OnDisk'
  <2> SUFFICES ASSUME env.useDisk PROVE OnDisk'
    BY <1>2 DEF OnDisk
  <2>1. files["base"] = trace' /\ logger.write = "base" /\ logger.read = "base" /\ preStat # Null
    BY <1>2, <1>5 DEF CalmInv, OnDisk
  <2>2. ASSUME prePos # -1
        PROVE  prePos \in 0..(Len(trace') - 1) /\ preStat = trace'[prePos + 1]
    <3>1. prePos \in 0..(Len(trace) - 1) /\ preStat = trace[prePos + 1]
      BY <2>2 DEF CalmInv, OnDisk
    <3> QED BY <3>1, <1>1, <1>4
  <2> QED BY <1>2, <1>5, <2>1, <2>2 DEF CalmInv, OnDisk
<1>10. InHeap'
  BY <1>2 DEF CalmInv, InHeap
<1>11. ASSUME dropped' = 0
       PROVE  /\ dropped = 0 /\ Len(log') = n + 1
              /\ \A i \in 1..n : log'[i] = log[i]
              /\ log'[n + 1] = Null
  <2>1. dropped = 0 /\ log' = Append(log, Null)
    BY <1>1, <1>3, <1>11
  <2> QED BY <2>1, <1>1, AppendProperties
<1>12. Spilled'
  <2> SUFFICES ASSUME ~env.useDisk, changePos >= 0, dropped' = 0
               PROVE  /\ changePos < Len(log')
                      /\ \A i \in 1..Len(log') : log'[i] # Null <=> i <= changePos
    BY <1>2, <1>1, <1>3, <1>5 DEF CalmInv, Spilled
  <2>1. changePos <= n /\ \A i \in 1..n : log[i] # Null <=> i <= changePos
    BY <1>5, <1>11 DEF CalmInv, Spilled
  <2>2. ASSUME NEW i \in 1..(n + 1) PROVE log'[i] # Null <=> i <= changePos
    <3>1. CASE i = n + 1
      BY <3>1, <2>1, <1>1, <1>11
    <3>2. CASE i # n + 1
      <4>1. i \in 1..n
        BY <3>2, <1>1
      <4> QED BY <4>1, <2>1, <1>11
    <3> QED BY <3>1, <3>2
  <2> QED BY <2>1, <2>2, <1>1, <1>11
<1>13. SpilledReads'
  <2> SUFFICES ASSUME ~env.useDisk, changePos >= 0, ~env.low, dropped' = 0
               PROVE  /\ logger.read = "over" /\ preStat # Null
                      /\ \A i \in 1..changePos : log'[i] = trace'[i]
                      /\ Len(files["over"]) = Len(trace') - changePos
                      /\ \A i \in (changePos + 1)..Len(trace') :
                            files["over"][i - changePos] = trace'[i]
                      /\ prePos # -1 => /\ prePos \in 1..(Len(trace') - changePos - 1)
                                        /\ preStat = trace'[changePos + prePos + 1]
    <3>1. Len(trace') - changePos' + (IF sim' = "put" THEN 1 ELSE 0) = Len(trace') - changePos
      BY <1>1, <1>2, <1>4
    <3>2. menus'
      BY <1>2, <1>5
    <3>3. sim' # "put" /\ UNCHANGED <<env, changePos, preStat, prePos, logger, files>>
      BY <1>2
    <3> QED BY <3>1, <3>2, <3>3 DEF SpilledReads
  <2>1. dropped = 0 /\ Len(trace) = n /\ changePos <= n
    BY <1>1, <1>5, <1>11 DEF CalmInv, Counted, Spilled
  <2>2. logger.read = "over" /\ preStat # Null
    BY <2>1 DEF CalmInv, SpilledReads
  <2>3. ASSUME NEW i \in 1..changePos PROVE log'[i] = trace'[i]
    <3>1. i \in 1..n /\ i \in 1..Len(trace)
      BY <2>1, <1>1
    <3>2. log[i] = trace[i]
      BY <2>1 DEF CalmInv, SpilledReads
    <3> QED BY <3>1, <3>2, <1>4, <1>11
  <2>4. /\ Len(files["over"]) = Len(trace) - changePos + 1
        /\ files["over"][Len(trace) - changePos + 1] = made
    BY <1>2, <2>1 DEF CalmInv, SpilledReads
  <2>5. ASSUME NEW i \in (changePos + 1)..Len(trace')
        PROVE  files["over"][i - changePos] = trace'[i]
    <3>1. CASE i = Len(trace) + 1
      <4>1. i - changePos = Len(trace) - changePos + 1
        BY <3>1, <1>1
      <4> QED BY <3>1, <4>1, <2>4, <1>4
    <3>2. CASE i # Len(trace) + 1
      <4>1. i \in (changePos + 1)..Len(trace) /\ i \in 1..Len(trace)
        BY <3>2, <1>1, <1>4
      <4>2. files["over"][i - changePos] = trace[i]
        BY <4>1, <2>1 DEF CalmInv, SpilledReads
      <4> QED BY <4>1, <4>2, <1>4
    <3> QED BY <3>1, <3>2
  <2>6. ASSUME prePos # -1
        PROVE  /\ prePos \in 1..(Len(trace') - changePos - 1)
               /\ preStat = trace'[changePos + prePos + 1]
    <3>1. prePos \in 1..(Len(trace) - changePos - 1) /\ preStat = trace[changePos + prePos + 1]
      BY <2>1, <2>6 DEF CalmInv, SpilledReads
    <3>2. changePos + prePos + 1 \in 1..Len(trace)
      BY <3>1, <1>1
    <3> QED BY <3>1, <3>2, <1>1, <1>4
  <2>7. Len(files["over"]) = Len(trace') - changePos
    BY <2>4, <1>1, <1>4
  <2> QED BY <2>2, <2>3, <2>5, <2>6, <2>7
<1> QED BY <1>6, <1>7, <1>8, <1>9, <1>10, <1>12, <1>13 DEF CalmInv


\* A record is written to the files, which the first one opens.
LEMMA PutRecordStep ==
  ASSUME env \in Settings, CalmInv, PutRecord
  PROVE  CalmInv'
<1> DEFINE m == made + 1
<1>1. /\ LogTypes /\ Len(log) \in Nat /\ dropped \in Nat /\ trace \in Seq(Nat) /\ m \in Nat
      /\ changePos \in Nat \cup {-1} /\ Len(trace) \in Nat /\ logger \in Loggers
      /\ files \in [Dir -> Seq(Nat)] /\ env.useDisk \in BOOLEAN
  BY SettingsTyped DEF CalmInv, LogTypes
<1>2. /\ sim = "on" /\ sim' = "put" /\ made' = m /\ changePos' = SpillPos
      /\ UNCHANGED <<env, log, dropped, prePos, saver, archive, trace>>
  BY DEF PutRecord
<1>3. saver.at = "idle" /\ logger.registered /\ logger.inited = menus /\ menus \in BOOLEAN
  BY <1>1, <1>2 DEF CalmInv, Undisturbed, LogTypes
<1>4. CASE menus
  <2>1. /\ files' = PutFiles(m) /\ logger' = [logger EXCEPT !.temp = SpillDir]
        /\ preStat' = preStat /\ menus' = menus
    BY <1>2, <1>3, <1>4 DEF PutRecord
  <2>2. ~env.useDisk => changePos >= 0
    BY <1>1, <1>2, <1>3, <1>4 DEF CalmInv, InHeap
  <2>3. changePos' = changePos /\ SpillDir = logger.temp
    BY <1>2, <2>2 DEF SpillPos, SpillDir, Spills
  <2>4. logger' = logger
    BY <2>1, <2>3, <1>1 DEF Loggers
  <2>5. logger.write = IF env.useDisk THEN "base" ELSE "over"
    BY <1>2, <1>4, <2>2 DEF CalmInv, OnDisk, Spilled
  <2>6. /\ files' \in [Dir -> Seq(Nat)]
        /\ files'[logger.write] = Append(files[logger.write], m)
        /\ \A d \in Dir : d # logger.write => files'[d] = files[d]
    <3>1. logger.write \in Dir /\ logger.write # "none"
      BY <2>5, <1>1 DEF Dir
    <3>2. files' = [files EXCEPT ![logger.write] = Append(files[logger.write], m)]
      BY <2>1, <3>1 DEF PutFiles
    <3>3. Append(files[logger.write], m) \in Seq(Nat)
      BY <3>1, <1>1, AppendProperties
    <3> QED BY <3>1, <3>2, <3>3, <1>1
  <2>7. LogTypes'
    BY <1>1, <1>2, <2>1, <2>3, <2>4, <2>6 DEF LogTypes
  <2>8. Undisturbed' /\ SavesLog' /\ Counted'
    BY <1>2, <1>3, <1>4, <2>1, <2>3, <2>4 DEF CalmInv, Undisturbed, SavesLog, Counted
  <2>9. OnDisk'
    <3> SUFFICES ASSUME env.useDisk PROVE OnDisk'
      BY <1>2 DEF OnDisk
    <3>1. files'["base"] = Append(trace, m)
      BY <1>2, <1>4, <2>5, <2>6 DEF CalmInv, OnDisk
    <3> QED BY <1>2, <1>4, <2>1, <2>3, <2>4, <3>1 DEF CalmInv, OnDisk
  <2>10. InHeap'
    BY <1>1, <1>2, <2>2, <2>3 DEF InHeap
  <2>11. Spilled'
    BY <1>2, <1>4, <2>1, <2>3, <2>4 DEF CalmInv, Spilled
  <2>12. SpilledReads'
    <3> SUFFICES ASSUME ~env.useDisk, changePos >= 0, ~env.low, dropped = 0
                 PROVE  SpilledReads'
      BY <1>2, <2>3 DEF SpilledReads
    <3> DEFINE over == files["over"]
               k == Len(trace) - changePos
    <3>1. /\ over \in Seq(Nat) /\ Len(over) = k /\ k \in Int
          /\ \A i \in (changePos + 1)..Len(trace) : over[i - changePos] = trace[i]
          /\ logger.read = "over" /\ preStat # Null
          /\ \A i \in 1..changePos : log[i] = trace[i]
          /\ prePos # -1 => /\ prePos \in 1..(Len(trace) - changePos - 1)
                            /\ preStat = trace[changePos + prePos + 1]
      BY <1>1, <1>2 DEF CalmInv, SpilledReads, Dir
    <3>2. files'["over"] = Append(over, m)
      BY <2>5, <2>6
    <3>3. /\ Len(files'["over"]) = k + 1 /\ files'["over"][k + 1] = m
          /\ \A i \in 1..Len(over) : files'["over"][i] = over[i]
      BY <1>1, <3>1, <3>2, AppendProperties
    <3>4. ASSUME NEW i \in (changePos + 1)..Len(trace)
          PROVE  files'["over"][i - changePos] = trace[i]
      <4>1. i - changePos \in 1..Len(over)
        BY <1>1, <3>1
      <4> QED BY <4>1, <3>1, <3>3
    <3> HIDE DEF over, m
    <3>5. Len(files'["over"]) = Len(trace) - changePos + 1 /\ files'["over"][Len(trace) - changePos + 1] = m
      BY <3>3
    <3>6. menus'
      BY <1>4, <2>1
    <3> QED BY <1>2, <2>1, <2>3, <2>4, <3>1, <3>4, <3>5, <3>6 DEF SpilledReads
  <2> QED BY <2>7, <2>8, <2>9, <2>10, <2>11, <2>12 DEF CalmInv
<1>5. CASE ~menus
  <2> DEFINE dir == SpillDir
  <2>1. /\ files' = [files EXCEPT ![dir] = <<m>>] /\ preStat' = m
        /\ logger' = Opened(dir) /\ menus' = TRUE
    BY <1>2, <1>3, <1>5 DEF PutRecord
  <2>2. ~env.useDisk => changePos < 0
    BY <1>1, <1>2, <1>5 DEF CalmInv, Spilled
  <2>3. /\ env.useDisk => changePos' = -1 /\ dir = "base"
        /\ ~env.useDisk => changePos' = Len(log) /\ dir = "over"
    BY <1>1, <1>2, <2>2 DEF SpillPos, SpillDir, Spills, CalmInv, OnDisk
  <2>4. dir \in Dir /\ changePos' \in Nat \cup {-1}
    BY <2>3, <1>1 DEF Dir
  <2>5. /\ logger' \in Loggers /\ logger'.dir = dir /\ logger'.temp = dir
        /\ logger'.write = dir /\ logger'.read = dir
        /\ logger'.inited /\ logger'.registered
    BY <1>1, <1>3, <2>1, <2>4 DEF Opened, Loggers
  <2>6. /\ <<m>> \in Seq(Nat) /\ Len(<<m>>) = 1 /\ <<m>>[1] = m
    BY <1>1
  <2>7. files' \in [Dir -> Seq(Nat)] /\ files'[dir] = <<m>>
    BY <1>1, <2>1, <2>4, <2>6
  <2>8. menus' \in BOOLEAN /\ m # Null /\ preStat' # Null /\ preStat' \in Int
    BY <1>1, <2>1 DEF Null
  <2>9. LogTypes'
    BY <1>1, <1>2, <2>4, <2>5, <2>7, <2>8 DEF LogTypes
  <2>10. Undisturbed' /\ SavesLog'
    BY <1>2, <1>3, <2>1, <2>5 DEF CalmInv, Undisturbed, SavesLog
  <2>11. Counted'
    <3>1. Len(trace) = dropped + Len(log)
      BY <1>1, <2>2, <2>3 DEF CalmInv, Counted, OnDisk
    <3> QED BY <1>2, <3>1 DEF Counted
  <2>12. OnDisk'
    <3> SUFFICES ASSUME env.useDisk PROVE OnDisk'
      BY <1>2 DEF OnDisk
    <3>1. trace = <<>> /\ prePos = -1
      BY <1>5 DEF CalmInv, OnDisk
    <3>2. files'["base"] = Append(trace, m)
      BY <2>3, <2>7, <3>1
    <3> QED BY <1>2, <2>1, <2>3, <2>5, <2>8, <3>1, <3>2 DEF OnDisk
  <2>13. InHeap'
    BY <1>1, <1>2, <2>3 DEF InHeap
  <2>14. ASSUME ~env.useDisk
         PROVE  /\ prePos = -1 /\ Len(trace) = dropped + Len(log)
                /\ \A i \in 1..Len(log) : log[i] = trace[dropped + i]
                /\ \A i \in 1..Len(trace) : trace[i] # Null
    <3>1. \A i \in 1..Len(trace) : trace[i] # Null
      BY <1>1 DEF Null
    <3> QED BY <1>2, <2>2, <2>14, <3>1 DEF CalmInv, InHeap, Counted
  <2>15. Spilled'
    <3> SUFFICES ASSUME ~env.useDisk PROVE Spilled'
      BY <1>2 DEF Spilled
    <3>1. ASSUME dropped = 0, NEW i \in 1..Len(log) PROVE log[i] # Null /\ i <= Len(log)
      <4>1. log[i] = trace[dropped + i] /\ dropped + i \in 1..Len(trace)
        BY <2>14, <3>1, <1>1
      <4> QED BY <4>1, <2>14
    <3> QED BY <1>1, <1>2, <2>1, <2>3, <2>5, <3>1 DEF Spilled
  <2>16. SpilledReads'
    <3> SUFFICES ASSUME ~env.useDisk, dropped = 0 PROVE SpilledReads'
      BY <1>2 DEF SpilledReads
    <3>1. changePos' = Len(log) /\ Len(trace) = Len(log) /\ dir = "over"
      BY <1>1, <2>3, <2>14
    <3>2. \A i \in 1..Len(log) : log[i] = trace[i]
      BY <2>14, <1>1
    <3>3. Len(files'["over"]) = 1 /\ files'["over"][1] = m
      BY <2>6, <2>7, <3>1
    <3>4. /\ Len(trace) - Len(log) + 1 = 1
          /\ \A i \in (Len(log) + 1)..Len(trace) : FALSE
      BY <1>1, <3>1
    <3> HIDE DEF m, dir
    <3>5. menus'
      BY <2>1
    <3> QED BY <1>2, <2>5, <2>8, <2>14, <3>1, <3>2, <3>3, <3>4, <3>5 DEF SpilledReads
  <2> QED BY <2>9, <2>10, <2>11, <2>12, <2>13, <2>15, <2>16 DEF CalmInv
<1> QED BY <1>3, <1>4, <1>5

\* A simulation that registered its bodies does not raise here.
LEMMA PutRaisesStep ==
  ASSUME CalmInv, PutRaises
  PROVE  FALSE
  BY DEF CalmInv, Undisturbed, PutRaises


-----------------------------------------------------------------------------
(* Saving. *)

\* Who saves does so between simulations.
LEMMA SavesBetween ==
  ASSUME CalmInv, saver.at # "idle"
  PROVE  /\ sim = "off" /\ menus /\ dropped = 0 /\ saver.asked = trace
         /\ logger.registered /\ Len(log) > 0
  BY DEF CalmInv, Undisturbed, SavesLog

\* A list without dropped entries, all of them in the heap, is the log.
LEMMA HeapIsLog ==
  ASSUME CalmInv, ~env.useDisk, changePos < 0, dropped = 0
  PROVE  log = trace /\ InMemory = trace
<1>1. log \in Seq(Entries) /\ trace \in Seq(Nat) /\ Len(trace) \in Nat /\ Len(log) \in Nat
  BY DEF CalmInv, LogTypes
<1>2. Len(log) = Len(trace) /\ \A i \in 1..Len(log) : log[i] = trace[i]
  BY <1>1 DEF CalmInv, Counted, InHeap
<1>3. log = trace
  <2>1. trace \in Seq(Entries)
    BY <1>1, SeqMonotonic DEF Entries
  <2> QED BY <1>1, <1>2, <2>1, SeqEqual
<1>4. Null \notin Range(log)
  <2>1. \A i \in DOMAIN trace : trace[i] # Null
    BY <1>1 DEF Null
  <2> QED BY <1>3, <2>1 DEF Range
<1> QED BY <1>3, <1>4 DEF InMemory

\* The user asks for the log to be saved.
LEMMA SaveLogStep ==
  ASSUME env \in Settings, env.calm, CalmInv, saveLog
  PROVE  CalmInv'
<1>1. /\ menus /\ dropped = 0 /\ saver.at = "idle" /\ sim = "off"
      /\ UNCHANGED <<env, log, dropped, changePos, preStat, prePos, menus, logger,
                     files, sim, made, archive, trace>>
  BY DEF saveLog, Calm, Idle, itemVars
<1>2. /\ saver' \in Savers /\ saver'.asked = trace
      /\ saver'.at = IF env.useDisk THEN "close" ELSE "restore"
  BY DEF saveLog, Savers, CalmInv, LogTypes
<1>3. LogTypes'
  BY <1>1, <1>2 DEF CalmInv, LogTypes
<1>4. Undisturbed' /\ Counted' /\ Spilled'
  BY <1>1 DEF CalmInv, Undisturbed, Counted, Spilled
<1>5. SavesLog'
  BY <1>1, <1>2 DEF CalmInv, SavesLog
<1>6. OnDisk' /\ InHeap' /\ SpilledReads'
  BY <1>1 DEF CalmInv, OnDisk, InHeap, SpilledReads
<1> QED BY <1>3, <1>4, <1>5, <1>6 DEF CalmInv

\* The files of a log on disk are closed.
LEMMA SaveClosesStep ==
  ASSUME env \in Settings, CalmInv, SaveCloses
  PROVE  CalmInv'
<1>1. /\ saver.at = "close"
      /\ UNCHANGED <<env, log, dropped, changePos, preStat, prePos, menus, files, sim,
                     made, archive, trace>>
  BY DEF SaveCloses, itemVars
<1>2. sim = "off" /\ menus /\ dropped = 0 /\ saver.asked = trace /\ env.useDisk
  BY <1>1, SavesBetween DEF CalmInv, SavesLog
<1>3. /\ saver' \in Savers /\ saver'.at = "zip" /\ saver'.asked = trace
  BY <1>2 DEF SaveCloses, Savers, CalmInv, LogTypes
<1>4. /\ logger' \in Loggers
      /\ \A f \in {"dir", "temp", "read", "inited", "registered"} : logger'[f] = logger[f]
  BY DEF SaveCloses, Loggers, CalmInv, LogTypes
<1>5. files[logger.dir] = trace
  BY <1>2 DEF CalmInv, OnDisk
<1>6. LogTypes'
  BY <1>1, <1>3, <1>4 DEF CalmInv, LogTypes
<1>7. Undisturbed' /\ Counted' /\ Spilled'
  BY <1>1, <1>2, <1>4 DEF CalmInv, Undisturbed, Counted, Spilled
<1>8. SavesLog'
  BY <1>1, <1>2, <1>3, <1>4, <1>5 DEF CalmInv, SavesLog
<1>9. OnDisk' /\ InHeap' /\ SpilledReads'
  BY <1>1, <1>2, <1>4 DEF CalmInv, OnDisk, InHeap, SpilledReads
<1> QED BY <1>6, <1>7, <1>8, <1>9 DEF CalmInv

\* A log in the heap is written to the files.
LEMMA RestoreMemoryStep ==
  ASSUME env \in Settings, CalmInv, RestoreMemory
  PROVE  CalmInv'
<1>1. /\ saver.at = "restore" /\ changePos < 0
      /\ UNCHANGED <<env, log, dropped, changePos, prePos, sim, made, archive, trace>>
  BY DEF RestoreMemory
<1>2. /\ sim = "off" /\ menus /\ dropped = 0 /\ saver.asked = trace /\ ~env.useDisk
      /\ logger.registered /\ Len(log) > 0
  BY <1>1, SavesBetween DEF CalmInv, SavesLog
<1>3. InMemory = trace /\ log = trace
  BY <1>1, <1>2, HeapIsLog
<1>4. trace \in Seq(Nat) /\ trace # <<>> /\ Head(trace) \in Int /\ logger \in Loggers
  BY <1>2, <1>3 DEF CalmInv, LogTypes
<1>5. saver' \in Savers /\ saver'.at = "zip" /\ saver'.asked = trace
  BY <1>2 DEF RestoreMemory, Savers, CalmInv, LogTypes
<1>6. /\ logger' \in Loggers /\ logger'.registered
      /\ files' \in [Dir -> Seq(Nat)] /\ files'[logger'.dir] = trace
      /\ preStat' \in Int /\ menus' = TRUE
  <2>1. CASE logger.inited
    <3>1. logger' = [logger EXCEPT !.write = "none"] /\ UNCHANGED <<files, preStat, menus>>
      BY <2>1 DEF RestoreMemory
    <3>2. files[logger.dir] = trace
      BY <1>1, <1>2, <2>1 DEF CalmInv, InHeap
    <3>3. logger' \in Loggers /\ logger'.registered /\ logger'.dir = logger.dir
      BY <3>1, <1>2, <1>4 DEF Loggers
    <3>4. menus' = TRUE
      BY <3>1, <1>2 DEF CalmInv, LogTypes
    <3> QED BY <3>1, <3>2, <3>3, <3>4 DEF CalmInv, LogTypes
  <2>2. CASE ~logger.inited
    <3>1. /\ logger' = [Opened(logger.temp) EXCEPT !.write = "none"]
          /\ files' = [files EXCEPT ![logger.temp] = trace]
          /\ preStat' = Head(trace) /\ menus' = TRUE
      BY <2>2, <1>2, <1>3, <1>4 DEF RestoreMemory
    <3>2. logger' \in Loggers /\ logger'.registered /\ logger'.dir = logger.temp
      BY <3>1, <1>2, <1>4 DEF Loggers, Opened
    <3>3. logger.temp \in Dir /\ files \in [Dir -> Seq(Nat)]
      BY <1>4 DEF Loggers, CalmInv, LogTypes
    <3>4. files' \in [Dir -> Seq(Nat)] /\ files'[logger.temp] = trace
      BY <3>1, <3>3, <1>4
    <3> QED BY <3>1, <3>2, <3>4, <1>4
  <2> QED BY <2>1, <2>2
<1>7. LogTypes'
  BY <1>1, <1>5, <1>6 DEF CalmInv, LogTypes
<1>8. Undisturbed' /\ Counted'
  BY <1>1, <1>2, <1>6 DEF CalmInv, Undisturbed, Counted
<1>9. SavesLog'
  BY <1>1, <1>2, <1>5, <1>6 DEF CalmInv, SavesLog
<1>10. OnDisk' /\ Spilled' /\ SpilledReads'
  BY <1>1, <1>2 DEF CalmInv, LogTypes, OnDisk, Spilled, SpilledReads
<1>11. InHeap'
  BY <1>1, <1>2, <1>6 DEF CalmInv, InHeap
<1> QED BY <1>7, <1>8, <1>9, <1>10, <1>11 DEF CalmInv

\* A log that is partly in files is written to the other directory.
LEMMA RestoreSplitStep ==
  ASSUME env \in Settings, CalmInv, RestoreSplit
  PROVE  CalmInv'
<1>1. /\ saver.at = "restore" /\ changePos >= 0
      /\ UNCHANGED <<env, log, dropped, changePos, preStat, prePos, menus, sim, made,
                     archive, trace>>
  BY DEF RestoreSplit, itemVars
<1>2. /\ sim = "off" /\ menus /\ dropped = 0 /\ saver.asked = trace /\ ~env.useDisk
      /\ logger.registered /\ Len(log) > 0
  BY <1>1, SavesBetween DEF CalmInv, SavesLog
<1>3. /\ logger' \in Loggers
      /\ \A f \in {"dir", "temp", "read", "inited", "registered"} : logger'[f] = logger[f]
  BY DEF RestoreSplit, Loggers, CalmInv, LogTypes
<1>4. Joined(HeapPart) \in Seq(Nat)
  <2> DEFINE Is(k) == /\ \A i \in 1..k : log[i] # Null
                      /\ k = Len(log) \/ log[k + 1] = Null
  <2>1. log \in Seq(Entries) /\ Len(log) \in Nat /\ changePos \in Nat
    BY <1>1 DEF CalmInv, LogTypes
  <2>2. changePos \in 0..Len(log) /\ Is(changePos)
    <3>1. changePos < Len(log) /\ \A i \in 1..Len(log) : log[i] # Null <=> i <= changePos
      BY <1>1, <1>2 DEF CalmInv, Spilled
    <3> QED BY <2>1, <3>1
  <2>3. PICK k \in 0..Len(log) : Is(k) /\ HeapPart = SubSeq(log, 1, k)
    BY <2>2 DEF HeapPart
  <2>4. \A i \in 1..Len(log) : log[i] = Null \/ log[i] \in Nat
    BY <2>1 DEF Entries
  <2>5. SubSeq(log, 1, k) \in Seq(Nat)
    <3>1. \A i \in 1..k : log[i] \in Nat
      BY <2>1, <2>3, <2>4
    <3> QED BY <2>1, <3>1, SubSeqProperties
  <2> QED BY <2>3, <2>5, ConcatProperties DEF Joined
<1>5. files' \in [Dir -> Seq(Nat)] /\ files'["over"] = files["over"]
  <2>1. files \in [Dir -> Seq(Nat)] /\ "base" \in Dir
    BY DEF CalmInv, LogTypes, Dir
  <2> QED BY <2>1, <1>4 DEF RestoreSplit, Dir
<1>6. saver' \in Savers /\ (saver'.at = "idle" \/ (saver'.at = "zip" /\ saver'.split))
         /\ (saver'.at # "idle" => saver'.asked = trace)
  <2>1. CASE preStat = Null
    <3>1. saver' = Idle
      BY <2>1 DEF RestoreSplit
    <3> QED BY <3>1, EmptyList DEF Idle, Savers
  <2>2. CASE preStat # Null
    <3>1. saver' = [saver EXCEPT !.at = "zip", !.split = TRUE]
      BY <2>2 DEF RestoreSplit
    <3>2. saver \in Savers
      BY DEF CalmInv, LogTypes
    <3> QED BY <1>2, <3>1, <3>2 DEF Savers
  <2> QED BY <2>1, <2>2
<1>7. LogTypes'
  BY <1>1, <1>3, <1>5, <1>6 DEF CalmInv, LogTypes
<1>8. Undisturbed' /\ Counted'
  BY <1>1, <1>2, <1>3 DEF CalmInv, Undisturbed, Counted
<1>9. SavesLog'
  BY <1>1, <1>2, <1>3, <1>6 DEF CalmInv, SavesLog
<1>10. OnDisk' /\ InHeap'
  BY <1>1, <1>2 DEF CalmInv, LogTypes, OnDisk, InHeap
<1>11. Spilled' /\ SpilledReads'
  BY <1>1, <1>2, <1>3, <1>5 DEF CalmInv, Spilled, SpilledReads
<1> QED BY <1>7, <1>8, <1>9, <1>10, <1>11 DEF CalmInv

\* The files are put in the archive.
LEMMA SaveZipsStep ==
  ASSUME env \in Settings, CalmInv, SaveZips
  PROVE  CalmInv'
<1>1. /\ saver.at = "zip" /\ saver' = Idle
      /\ UNCHANGED <<env, log, dropped, changePos, preStat, prePos, menus, logger, files,
                     sim, made, trace>>
  BY DEF SaveZips, itemVars
<1>2. logger.registered /\ saver.asked = trace
  BY <1>1, SavesBetween
<1>3. archive' = [recs |-> files[ZippedDir], of |-> trace, split |-> saver.split]
  BY <1>2 DEF SaveZips
<1>4. files[ZippedDir] \in Seq(Nat) /\ saver.split \in BOOLEAN /\ trace \in Seq(Nat)
  BY DEF CalmInv, LogTypes, Loggers, Savers, ZippedDir, Dir
<1>5. archive' \in Archives /\ (archive'.split \/ archive'.recs = archive'.of)
  <2>1. ~saver.split => files[ZippedDir] = trace
    BY <1>1 DEF CalmInv, SavesLog, ZippedDir
  <2> QED BY <1>3, <1>4, <2>1 DEF Archives
<1>6. saver' \in Savers /\ saver'.at = "idle"
  BY <1>1 DEF Idle, Savers
<1>7. LogTypes'
  BY <1>1, <1>5, <1>6 DEF CalmInv, LogTypes
<1>8. Undisturbed' /\ Counted' /\ Spilled'
  BY <1>1, <1>6 DEF CalmInv, Undisturbed, Counted, Spilled
<1>9. SavesLog'
  BY <1>5, <1>6 DEF SavesLog
<1>10. OnDisk' /\ InHeap' /\ SpilledReads'
  BY <1>1 DEF CalmInv, OnDisk, InHeap, SpilledReads
<1> QED BY <1>7, <1>8, <1>9, <1>10 DEF CalmInv


-----------------------------------------------------------------------------
(* Loading. *)

\* The logger after a load reads from "base" and has registered its bodies.
LEMMA ReadBaseTyped ==
  ASSUME LogTypes
  PROVE  /\ ReadBase \in Loggers /\ ReadBase.dir = "base" /\ ReadBase.temp = "base"
         /\ ReadBase.read = "base" /\ ~ReadBase.inited /\ ReadBase.registered
  BY DEF ReadBase, Unopened, Loggers, LogTypes, Dir

\* What is loaded is a log that was saved.
LEMMA ExtractedOK ==
  ASSUME env \in Settings, env.calm, CalmInv, Extracted
  PROVE  /\ sim = "off" /\ saver.at = "idle" /\ trace' = archive.recs
         /\ archive.recs \in Seq(Nat) /\ Len(archive.recs) \in Nat \ {0}
         /\ UNCHANGED <<env, sim, made, saver, archive>>
<1>1. archive.recs \in Seq(Nat) /\ archive.recs # <<>>
  BY DEF Extracted, CalmInv, LogTypes, Archives
<1>2. Len(archive.recs) \in Nat \ {0}
  BY <1>1, EmptySeq
<1> QED BY <1>1, <1>2 DEF Extracted, Calm

\* A log is loaded.
LEMMA LoadLogStep ==
  ASSUME env \in Settings, env.calm, CalmInv, loadLog
  PROVE  CalmInv'
<1> DEFINE recs == archive.recs
           n == Len(recs)
           entries == IF env.useDisk THEN [i \in DOMAIN recs |-> Null] ELSE recs
           over == IF n > MaxLog THEN n - MaxLog ELSE 0
<1>1. /\ sim = "off" /\ saver.at = "idle" /\ trace' = recs
      /\ recs \in Seq(Nat) /\ n \in Nat \ {0}
      /\ UNCHANGED <<env, sim, made, saver, archive>>
  BY ExtractedOK DEF loadLog
<1>2. /\ log' = SubSeq(entries, over + 1, n) /\ dropped' = over
      /\ preStat' = IF env.useDisk THEN Head(recs) ELSE Last(recs)
      /\ prePos' = IF env.useDisk THEN 0 ELSE n - 1
      /\ files' = [files EXCEPT !["base"] = recs]
      /\ changePos' = -1 /\ menus' = TRUE /\ logger' = ReadBase
  BY DEF loadLog
<1>3. /\ ReadBase \in Loggers /\ ReadBase.dir = "base" /\ ReadBase.temp = "base"
      /\ ReadBase.read = "base" /\ ~ReadBase.inited /\ ReadBase.registered
  BY ReadBaseTyped DEF CalmInv
<1>4. over \in Nat /\ over < n
  BY <1>1, LogAssumption
<1>5. DOMAIN recs = 1..n /\ \A i \in 1..n : recs[i] \in Nat
  BY <1>1
<1>6. \A i \in (over + 1)..n : entries[i] \in Entries
  BY <1>1, <1>4, <1>5 DEF Entries
<1>7. /\ log' \in Seq(Entries) /\ Len(log') = n - over
      /\ \A i \in 1..(n - over) : log'[i] = entries[over + i]
  <2>1. over + 1 \in Int /\ n \in Int /\ n - (over + 1) + 1 = n - over /\ over + 1 <= n
    <3> HIDE DEF over, n
    <3> QED BY <1>1, <1>4
  <2> HIDE DEF over, n, entries
  <2>2. /\ SubSeq(entries, over + 1, n) \in Seq(Entries)
        /\ Len(SubSeq(entries, over + 1, n)) = n - (over + 1) + 1
        /\ \A i \in 1..(n - (over + 1) + 1) :
              SubSeq(entries, over + 1, n)[i] = entries[(over + 1) + i - 1]
    BY <1>6, <2>1, SubSeqProperties
  <2>3. ASSUME NEW i \in 1..(n - over) PROVE log'[i] = entries[over + i]
    <3>1. (over + 1) + i - 1 = over + i
      BY <1>4
    <3> QED BY <1>2, <2>1, <2>2, <3>1
  <2> QED BY <1>2, <2>1, <2>2, <2>3
<1>8. Head(recs) = recs[1] /\ Last(recs) = recs[n]
  BY <1>1 DEF Last
<1>9. preStat' \in Int /\ preStat' # Null /\ (env.useDisk => preStat' = recs[1]) /\ prePos' \in Int
  <2>1. recs[1] \in Nat /\ recs[n] \in Nat
    BY <1>1, <1>5
  <2> QED BY <1>1, <1>2, <1>8, <2>1 DEF Null
<1>10. files' \in [Dir -> Seq(Nat)] /\ files'["base"] = recs
  <2>1. files \in [Dir -> Seq(Nat)] /\ "base" \in Dir
    BY DEF CalmInv, LogTypes, Dir
  <2> QED BY <1>1, <1>2, <2>1
<1> HIDE DEF over, n, entries, recs
<1>11. LogTypes'
  <2>1. menus' \in BOOLEAN
    BY <1>2
  <2>2. dropped' \in Nat /\ changePos' \in Nat \cup {-1} /\ trace' \in Seq(Nat)
    BY <1>1, <1>2, <1>4
  <2>3. logger' \in Loggers
    BY <1>2, <1>3
  <2> QED BY <1>1, <1>7, <1>9, <1>10, <2>1, <2>2, <2>3 DEF CalmInv, LogTypes
<1>12. Len(log') > 0 /\ Len(trace') = dropped' + Len(log') /\ Len(trace') = n
  BY <1>1, <1>2, <1>4, <1>7 DEF n
<1>13. Undisturbed'
  BY <1>1, <1>2, <1>3, <1>12 DEF Undisturbed
<1>14. SavesLog'
  BY <1>1 DEF CalmInv, SavesLog
<1>15. Counted'
  BY <1>12 DEF Counted
<1>16. OnDisk'
  <2> SUFFICES ASSUME env.useDisk PROVE OnDisk'
    BY <1>1 DEF OnDisk
  <2>1. prePos' = 0 /\ preStat' = trace'[1] /\ 0 \in 0..(Len(trace') - 1)
    <3>1. 0 \in 0..(n - 1)
      BY <1>1
    <3> QED BY <1>1, <1>2, <1>9, <1>12, <3>1
  <2>2. menus'
    BY <1>2
  <2> QED BY <1>1, <1>2, <1>3, <1>9, <1>10, <2>1, <2>2 DEF OnDisk
<1>17. InHeap'
  <2> SUFFICES ASSUME ~env.useDisk PROVE InHeap'
    BY <1>1 DEF InHeap
  <2>1. \A i \in 1..Len(log') : log'[i] = trace'[dropped' + i]
    BY <1>1, <1>2, <1>7 DEF entries
  <2> QED BY <1>1, <1>2, <1>3, <2>1 DEF InHeap
<1>18. Spilled' /\ SpilledReads'
  BY <1>2 DEF Spilled, SpilledReads
<1> QED BY <1>11, <1>13, <1>14, <1>15, <1>16, <1>17, <1>18 DEF CalmInv

\* The heap runs low while a log is loaded.
LEMMA LoadLogLowStep ==
  ASSUME env \in Settings, env.calm, CalmInv, loadLogLow
  PROVE  CalmInv'
<1> DEFINE recs == archive.recs
           n == Len(recs)
<1>1. /\ sim = "off" /\ saver.at = "idle" /\ trace' = recs
      /\ recs \in Seq(Nat) /\ n \in Nat \ {0}
      /\ UNCHANGED <<env, sim, made, saver, archive>>
  BY ExtractedOK DEF loadLogLow
<1>2. PICK i \in 0..(n - 1) :
         /\ log' = IF i = 0 THEN [k \in DOMAIN recs |-> Null] ELSE SubSeq(recs, 1, i)
         /\ changePos' = i /\ preStat' = recs[i + 1] /\ prePos' = i
         /\ menus' = (i = 0)
         /\ logger' = IF i = 0 THEN [ReadBase EXCEPT !.dir = "over", !.read = "over"]
                      ELSE ReadBase
  BY DEF loadLogLow
<1>3. /\ ~env.useDisk /\ env.low /\ dropped' = 0
      /\ files' = [files EXCEPT !["base"] = recs, !["over"] = <<>>]
  BY DEF loadLogLow
<1>4. DOMAIN recs = 1..n /\ \A j \in 1..n : recs[j] \in Nat
  BY <1>1
<1>5. i \in Nat /\ i + 1 \in 1..n
  BY <1>1
<1>6. log' \in Seq(Entries) /\ (i = 0 => Len(log') = n /\ \A j \in 1..n : log'[j] = Null)
  <2>1. CASE i = 0
    <3>1. log' = [k \in 1..n |-> Null]
      BY <1>2, <1>4, <2>1
    <3>2. log' \in Seq(Entries)
      BY <3>1, <1>1 DEF Entries
    <3>3. Len(log') = n
      BY <3>1, <1>1
    <3> QED BY <2>1, <3>1, <3>2, <3>3
  <2>2. CASE i # 0
    <3>1. \A j \in 1..i : recs[j] \in Entries
      BY <1>4, <1>5, <1>1 DEF Entries
    <3>2. SubSeq(recs, 1, i) \in Seq(Entries)
      BY <3>1, <1>5, SubSeqProperties
    <3> QED BY <1>2, <2>2, <3>2
  <2> QED BY <2>1, <2>2
<1>7. logger' \in Loggers /\ logger'.registered
  <2>1. ReadBase \in Loggers /\ ReadBase.registered
    BY ReadBaseTyped DEF CalmInv
  <2> QED BY <1>2, <2>1 DEF Loggers, Dir
<1>8. files' \in [Dir -> Seq(Nat)]
  <2>1. files \in [Dir -> Seq(Nat)]
    BY DEF CalmInv, LogTypes
  <2> QED BY <1>1, <1>3, <2>1, EmptyList DEF Dir
<1> HIDE DEF recs, n
<1>9. LogTypes'
  <2>1. menus' \in BOOLEAN
    BY <1>2
  <2>2. preStat' \in Int /\ prePos' \in Int /\ changePos' \in Nat \cup {-1} /\ dropped' \in Nat
    BY <1>2, <1>3, <1>4, <1>5
  <2> QED BY <1>1, <1>6, <1>7, <1>8, <2>1, <2>2 DEF CalmInv, LogTypes
<1>10. Undisturbed'
  BY <1>1, <1>2, <1>6, <1>7 DEF Undisturbed
<1>11. SavesLog'
  BY <1>1 DEF CalmInv, SavesLog
<1>12. Counted' /\ OnDisk' /\ InHeap' /\ SpilledReads'
  BY <1>1, <1>2, <1>3, <1>5 DEF Counted, OnDisk, InHeap, SpilledReads
<1>13. Spilled'
  <2>1. CASE i = 0
    BY <1>1, <1>2, <1>6, <2>1 DEF Spilled
  <2>2. CASE i # 0
    <3>1. ~menus' /\ sim' = "off"
      BY <1>1, <1>2, <2>2
    <3> QED BY <3>1 DEF Spilled
  <2> QED BY <2>1, <2>2
<1> QED BY <1>9, <1>10, <1>11, <1>12, <1>13 DEF CalmInv

-----------------------------------------------------------------------------
(* The theorems. *)

\* LogInv is inductive.
LEMMA LogInvHolds == Spec => []LogInv
<1>1. ASSUME LogInv, [Next]_vars PROVE LogInv'
  <2>1. env' = env
    BY <1>1 DEF Next, vars, setPosition, clearLog, StartSimulation, AddToMemory, PutRecord,
       ListRecord, PutRaises, EndSimulation, saveLog, SaveCloses, RestoreMemory,
       RestoreSplit, SaveZips, loadLog, loadLogLow, Extracted
  <2> SUFFICES ASSUME env.calm PROVE CalmInv'
    BY <1>1, <2>1 DEF LogInv
  <2>2. env \in Settings /\ CalmInv
    BY <1>1 DEF LogInv
  <2>3. CASE UNCHANGED vars
    <3>1. LogTypes' /\ Undisturbed' /\ SavesLog' /\ Counted'
      BY <2>2, <2>3 DEF CalmInv, vars, itemVars, LogTypes, Undisturbed, SavesLog, Counted
    <3>2. OnDisk' /\ InHeap' /\ Spilled' /\ SpilledReads'
      BY <2>2, <2>3 DEF CalmInv, vars, itemVars, OnDisk, InHeap, Spilled, SpilledReads
    <3> QED BY <3>1, <3>2 DEF CalmInv
  <2>4. CASE setPosition \/ clearLog \/ StartSimulation \/ EndSimulation
    BY <2>2, <2>4, SetPositionStep, ClearLogStep, StartSimulationStep, EndSimulationStep
  <2>5. CASE AddToMemory \/ PutRecord \/ ListRecord \/ PutRaises
    BY <2>2, <2>5, AddToMemoryStep, PutRecordStep, ListRecordStep, PutRaisesStep
  <2>6. CASE saveLog \/ SaveCloses \/ RestoreMemory \/ RestoreSplit \/ SaveZips
    BY <2>2, <2>6, SaveLogStep, SaveClosesStep, RestoreMemoryStep, RestoreSplitStep,
       SaveZipsStep
  <2>7. CASE loadLog \/ loadLogLow
    BY <2>2, <2>7, LoadLogStep, LoadLogLowStep
  <2> QED BY <1>1, <2>3, <2>4, <2>5, <2>6, <2>7 DEF Next
<1> QED BY <1>1, InitOK, PTL DEF Spec

\* With a calm user and enough memory to load, GrxWorldStateItem.getValue(int) gives
\* back what was recorded or loaded for the position, for any number of states and any
\* size of the list.
THEOREM RecordsReadBack == Spec => []ReadsBack
<1>1. ASSUME LogInv PROVE ReadsBack
  <2> SUFFICES ASSUME env.calm, ~env.low PROVE ReadsBack
    BY DEF ReadsBack
  <2>1. env \in Settings /\ CalmInv
    BY <1>1 DEF LogInv
  <2>2. dropped + Len(log) = Len(trace) /\ dropped \in Nat /\ Len(log) \in Nat /\ changePos \in Int
    BY <2>1 DEF CalmInv, Counted, LogTypes
  <2>3. ASSUME dropped = 0 \/ (~env.useDisk /\ changePos < 0),
               NEW p \in Positions \ {changePos}
        PROVE  getValue(p) = trace[dropped + p + 1]
    <3>1. p \in Nat /\ p + 1 \in 1..Len(log) /\ p \in Positions /\ p # changePos
      BY <2>1, PositionsOf DEF CalmInv
    <3>2. CASE env.useDisk
      <4>1. dropped = 0 /\ dropped + p + 1 = p + 1
        BY <2>3, <3>1, <3>2
      <4> QED BY <2>1, <3>1, <3>2, <4>1, DiskReads
    <3>3. CASE ~env.useDisk /\ changePos < 0
      <4>1. getValue(p) = log[p + 1]
        BY <2>2, <3>3 DEF getValue, FileBacked
      <4>2. log[p + 1] = trace[dropped + (p + 1)]
        BY <2>1, <3>1, <3>3 DEF CalmInv, InHeap
      <4>3. dropped + (p + 1) = dropped + p + 1
        BY <2>2, <3>1
      <4> QED BY <4>1, <4>2, <4>3
    <3>4. CASE ~env.useDisk /\ changePos >= 0
      <4>1. dropped = 0 /\ dropped + p + 1 = p + 1
        BY <2>2, <2>3, <3>1, <3>4
      <4>2. CASE p > changePos
        BY <2>1, <3>1, <3>4, <4>1, <4>2, SpilledPositionReads
      <4>3. CASE p < changePos
        <5>1. getValue(p) = log[p + 1]
          BY <2>2, <3>1, <3>4, <4>3 DEF getValue, FileBacked
        <5>2. p + 1 \in 1..changePos
          BY <2>2, <3>1, <4>3
        <5>3. log[p + 1] = trace[p + 1]
          BY <2>1, <3>4, <4>1, <5>2 DEF CalmInv, SpilledReads
        <5> QED BY <4>1, <5>1, <5>3
      <4> QED BY <2>2, <3>1, <4>2, <4>3
    <3> QED BY <2>1, <2>2, <3>2, <3>3, <3>4, SettingsTyped
  <2> QED BY <2>2, <2>3 DEF ReadsBack
<1> QED BY <1>1, LogInvHolds, PTL

\* With a calm user, a saved file holds the log as it was when the user asked, wholly on
\* disk or wholly in the heap, whatever was recorded, loaded and saved before.
THEOREM LogIsSaved == Spec => []SavedIsLog
<1>1. LogInv => SavedIsLog
  BY DEF LogInv, CalmInv, SavesLog, SavedIsLog
<1> QED BY <1>1, LogInvHolds, PTL

-----------------------------------------------------------------------------
(* What a position reads stays: the invariant behind it, which on disk holds *)
(* for a busy user too.                                                      *)

\* In the middle of addValue() the files are one record ahead of the list.
Ahead == IF sim = "put" THEN 1 ELSE 0

\* On disk.  What was read last is what its record says; a stream that is still
\* written to is the one read from, and has a record for every entry of the list.
DiskKeeps ==
  /\ LogTypes
  /\ changePos = -1 /\ logger.temp = "base" /\ logger.read # "over"
  /\ saver.at # "restore"
  /\ prePos # -1 => prePos \in Positions /\ Readable /\ preStat = Record(prePos)
  /\ logger.read # "none" => logger.inited \/ logger.registered
  /\ sim # "off" /\ ~logger.inited /\ logger.registered => sim = "on" /\ log = <<>>
  /\ sim # "off" /\ logger.inited /\ logger.write # "none" =>
        /\ logger.write = "base" /\ logger.read = "base"
        /\ Len(log) + Ahead <= Len(files["base"])

\* In the heap, for a log that went on in files, also after entries were dropped or
\* a load was broken off.
SpillKeeps ==
  changePos >= 0 =>
    /\ menus => logger.read # "base"
    /\ prePos > 0 => logger.read # "none" /\ preStat = Record(prePos)
    /\ sim # "off" =>
          /\ logger.read = "over" /\ prePos < Len(files["over"])
          /\ Len(log) - changePos + Ahead <= Len(files["over"])

KeepInv ==
  /\ LogInv
  /\ env.useDisk => DiskKeeps
  /\ ~env.useDisk /\ env.calm => SpillKeeps

\* What a record holds is no null.
LEMMA RecordTyped ==
  ASSUME LogTypes, logger.read # "none", NEW k \in Nat
  PROVE  Record(k) \in Nat
<1>1. files[logger.read] \in Seq(Nat)
  BY DEF LogTypes, Loggers
<1> QED BY <1>1 DEF Record, Blank

RecordsAreStates == \A k \in Nat : logger.read # "none" => Record(k) \in Nat

\* For every record at once.
LEMMA RecordsTyped == LogTypes => RecordsAreStates
  BY RecordTyped DEF RecordsAreStates

\* The cached state cannot be told from its record: positions read their records.
DiskReading == \A p \in Positions : getValue(p) = IF Readable THEN Record(p) ELSE Null

\* On disk the state cached at prePos_ is what its record says.
LEMMA DiskReadings == env.useDisk /\ DiskKeeps => DiskReading
<1> SUFFICES ASSUME env.useDisk, DiskKeeps, NEW p \in Positions
             PROVE  getValue(p) = IF Readable THEN Record(p) ELSE Null
  BY DEF DiskReading
<1>1. FileBacked(p) /\ FileIndex(p) = p
  BY DEF FileBacked, FileIndex
<1>2. p \in Nat
  BY PositionsOf DEF DiskKeeps
<1>3. CASE p = prePos
  <2>1. Readable /\ preStat = Record(p)
    BY <1>2, <1>3 DEF DiskKeeps
  <2> QED BY <1>1, <1>3, <2>1 DEF getValue
<1>4. CASE p # prePos
  BY <1>1, <1>4 DEF getValue
<1> QED BY <1>3, <1>4

SpillReading ==
  \A p \in Positions : p > changePos =>
      getValue(p) = IF Readable THEN Record(p - changePos) ELSE Null

\* The same behind changePos_, by the number in the files.
LEMMA SpillReadings ==
  LogTypes /\ changePos >= 0 /\ ~env.useDisk /\ SpillKeeps
    /\ (prePos > 0 => preStat # Null) => SpillReading
<1> SUFFICES ASSUME LogTypes, changePos >= 0, ~env.useDisk, SpillKeeps, prePos > 0 => preStat # Null,
                    NEW p \in Positions, p > changePos
             PROVE  getValue(p) = IF Readable THEN Record(p - changePos) ELSE Null
  BY DEF SpillReading
<1>1. FileBacked(p) /\ FileIndex(p) = p - changePos
  BY DEF FileBacked, FileIndex
<1>2. p \in Nat /\ changePos \in Nat /\ p - changePos > 0
  BY PositionsOf DEF LogTypes
<1>3. CASE p - changePos = prePos
  <2>1. prePos > 0
    BY <1>2, <1>3
  <2>2. Readable /\ preStat = Record(prePos)
    BY <2>1 DEF SpillKeeps, Readable
  <2> QED BY <1>1, <1>3, <2>2 DEF getValue
<1>4. CASE p - changePos # prePos
  BY <1>1, <1>4 DEF getValue
<1> QED BY <1>3, <1>4

\* A view shows a position: what is cached afterwards is what the record says.
LEMMA ShowKeepsDisk ==
  ASSUME env \in Settings, env.useDisk, DiskKeeps, NEW p, ShowAt(p)
  PROVE  /\ preStat' \in Int /\ prePos' \in Int
         /\ prePos' # -1 => prePos' \in Positions /\ Readable /\ preStat' # Null /\ preStat' = Record(prePos')
         /\ (preStat' # Null /\ logger.read # "none") = Readable
<1>1. preStat \in Int /\ prePos \in Int
  BY DEF DiskKeeps, LogTypes
<1>2. CASE ~(p \in Positions /\ FileBacked(p) /\ Readable)
  <2>1. preStat' = preStat /\ prePos' = prePos
    BY <1>2 DEF ShowAt
  <2> QED BY <1>1, <2>1 DEF DiskKeeps, Readable
<1>3. CASE p \in Positions /\ FileBacked(p) /\ Readable
  <2>1. preStat' = getValue(p) /\ prePos' = p
    BY <1>3 DEF ShowAt, FileIndex
  <2>2. getValue(p) = Record(p)
    BY <1>3, DiskReadings DEF DiskReading
  <2>3. p \in Nat /\ Record(p) \in Nat
    BY <1>3, PositionsOf, RecordTyped DEF DiskKeeps, Readable
  <2> QED BY <1>3, <2>1, <2>2, <2>3 DEF Readable, Null
<1> QED BY <1>2, <1>3

\* A view shows a position.
LEMMA SetPositionKeeps ==
  ASSUME env \in Settings, env.useDisk, DiskKeeps, setPosition
  PROVE  DiskKeeps'
<1>1. UNCHANGED <<env, log, dropped, changePos, menus, logger, files, sim, made, saver, archive, trace>>
  BY DEF setPosition
<1>2. /\ preStat' \in Int /\ prePos' \in Int
      /\ prePos' # -1 => prePos' \in Positions /\ Readable /\ preStat' # Null /\ preStat' = Record(prePos')
  BY ShowKeepsDisk DEF setPosition
<1>3. LogTypes'
  BY <1>1, <1>2 DEF DiskKeeps, LogTypes
<1>4. prePos' # -1 => prePos' \in Positions' /\ Readable' /\ preStat' = Record(prePos)'
  BY <1>1, <1>2 DEF Positions, Readable, Record
<1> QED BY <1>1, <1>3, <1>4 DEF DiskKeeps, Ahead

\* The simulation ends: its files are closed, and the view goes to the beginning.
LEMMA EndSimulationKeeps ==
  ASSUME env \in Settings, env.useDisk, DiskKeeps, EndSimulation
  PROVE  DiskKeeps'
<1>1. /\ sim' = "off" /\ logger' = [logger EXCEPT !.write = "none"]
      /\ UNCHANGED <<env, log, dropped, changePos, menus, files, made, saver, archive, trace>>
  BY DEF EndSimulation
<1>2. /\ preStat' \in Int /\ prePos' \in Int
      /\ prePos' # -1 => prePos' \in Positions /\ Readable /\ preStat' # Null /\ preStat' = Record(prePos')
  BY ShowKeepsDisk DEF EndSimulation
<1>3. logger \in Loggers
  BY DEF DiskKeeps, LogTypes
<1>4. /\ logger' \in Loggers /\ logger'.temp = logger.temp /\ logger'.read = logger.read
      /\ logger'.inited = logger.inited /\ logger'.registered = logger.registered
  BY <1>1, <1>3 DEF Loggers
<1>5. LogTypes'
  BY <1>1, <1>2, <1>4 DEF DiskKeeps, LogTypes
<1>6. prePos' # -1 => prePos' \in Positions' /\ Readable' /\ preStat' = Record(prePos)'
  BY <1>1, <1>2, <1>4 DEF Positions, Readable, Record
<1> QED BY <1>1, <1>4, <1>5, <1>6 DEF DiskKeeps

\* clearLog(), alone or before a simulation, leaves nothing to be read.
LEMMA ClearKeeps ==
  ASSUME env \in Settings, env.useDisk, DiskKeeps, ClearItem,
         UNCHANGED <<env, files, made, saver, archive>>,
         \/ logger' = Cleared /\ sim' = sim
         \/ logger' = [Cleared EXCEPT !.registered = TRUE] /\ sim' = "on"
  PROVE  DiskKeeps'
<1>1. /\ log' = <<>> /\ dropped' = 0 /\ changePos' = -1 /\ preStat' = -1 /\ prePos' = -1
      /\ menus' = FALSE /\ trace' = <<>>
  BY DEF ClearItem, Null
<1>2. logger \in Loggers
  BY DEF DiskKeeps, LogTypes
<1>3. /\ Cleared \in Loggers /\ Cleared.temp = logger.temp /\ Cleared.read = "none"
      /\ ~Cleared.inited /\ ~Cleared.registered
  BY <1>2 DEF Loggers, Cleared
<1>4. /\ logger' \in Loggers /\ logger'.temp = logger.temp /\ logger'.read = "none"
      /\ ~logger'.inited /\ (logger'.registered => sim' = "on")
  BY <1>3 DEF Loggers
<1>5. LogTypes'
  <2>1. log' \in Seq(Entries) /\ trace' \in Seq(Nat)
    BY <1>1, EmptyList
  <2>2. sim' \in {"off", "on", "put"}
    BY DEF DiskKeeps, LogTypes
  <2>3. menus' \in BOOLEAN
    BY <1>1
  <2>4. dropped' \in Nat /\ changePos' \in Nat \cup {-1} /\ preStat' \in Int /\ prePos' \in Int
    BY <1>1
  <2>5. LogTypes
    BY DEF DiskKeeps
  <2> QED BY <1>4, <2>1, <2>2, <2>3, <2>4, <2>5 DEF LogTypes
<1> QED BY <1>1, <1>4, <1>5 DEF DiskKeeps

\* A record goes to the files, which are opened for the first one.
LEMMA PutRecordKeeps ==
  ASSUME env \in Settings, env.useDisk, DiskKeeps, PutRecord
  PROVE  DiskKeeps'
<1> DEFINE m == made + 1
<1>1. /\ sim = "on" /\ sim' = "put" /\ made' = m
      /\ logger.inited \/ logger.registered
      /\ UNCHANGED <<env, log, dropped, prePos, saver, archive, trace>>
  BY DEF PutRecord
<1>2. /\ LogTypes /\ changePos = -1 /\ logger.temp = "base" /\ logger.read # "over"
      /\ logger \in Loggers /\ m \in Nat /\ files \in [Dir -> Seq(Nat)] /\ Len(log) \in Nat
  BY DEF DiskKeeps, LogTypes
<1>3. changePos' = -1 /\ SpillDir = "base"
  BY <1>2 DEF PutRecord, SpillPos, SpillDir
<1>4. CASE logger.inited
  <2>1. /\ files' = PutFiles(m) /\ logger' = [logger EXCEPT !.temp = "base"]
        /\ preStat' = preStat /\ menus' = menus
    BY <1>1, <1>3, <1>4 DEF PutRecord
  <2>2. logger' = logger
    BY <1>2, <2>1 DEF Loggers
  <2>3. CASE logger.write = "none"
    <3>1. files' = files
      BY <2>1, <2>3 DEF PutFiles
    <3>2. LogTypes'
      BY <1>1, <1>2, <1>3, <2>1, <2>2, <3>1 DEF LogTypes
    <3>3. prePos' # -1 => prePos' \in Positions' /\ Readable' /\ preStat' = Record(prePos)'
      BY <1>1, <2>1, <2>2, <3>1 DEF DiskKeeps, Positions, Readable, Record
    <3> QED BY <1>1, <1>2, <1>3, <1>4, <2>2, <2>3, <3>2, <3>3 DEF DiskKeeps
  <2>4. CASE logger.write # "none"
    <3>1. /\ logger.write = "base" /\ logger.read = "base" /\ Len(log) <= Len(files["base"])
      BY <1>1, <1>2, <1>4, <2>4 DEF DiskKeeps, Ahead
    <3>2. files["base"] \in Seq(Nat) /\ Len(files["base"]) \in Nat
      BY <1>2 DEF Dir
    <3>3. files' = [files EXCEPT !["base"] = Append(files["base"], m)]
      BY <2>1, <3>1 DEF PutFiles
    <3>4. /\ Append(files["base"], m) \in Seq(Nat)
          /\ Len(Append(files["base"], m)) = Len(files["base"]) + 1
          /\ \A i \in 1..Len(files["base"]) : Append(files["base"], m)[i] = files["base"][i]
      BY <3>2, <1>2, AppendProperties
    <3>5. /\ files' \in [Dir -> Seq(Nat)] /\ Len(files'["base"]) = Len(files["base"]) + 1
          /\ \A i \in 1..Len(files["base"]) : files'["base"][i] = files["base"][i]
      BY <1>2, <3>3, <3>4 DEF Dir
    <3>6. LogTypes'
      BY <1>1, <1>2, <1>3, <2>1, <2>2, <3>5 DEF LogTypes
    <3>7. prePos' # -1 => prePos' \in Positions' /\ Readable' /\ preStat' = Record(prePos)'
      <4> SUFFICES ASSUME prePos # -1
                   PROVE  prePos \in Positions /\ Readable' /\ preStat = Record(prePos)'
        BY <1>1, <2>1 DEF Positions
      <4>1. prePos \in Positions /\ Readable /\ preStat = Record(prePos)
        BY DEF DiskKeeps
      <4>2. prePos \in Nat /\ prePos < Len(log) /\ prePos + 1 \in 1..Len(files["base"])
        BY <4>1, <1>2, <3>1, <3>2, PositionsOf
      <4>3. Record(prePos) = files["base"][prePos + 1]
        BY <3>1, <3>2, <4>2 DEF Record
      <4>4. Record(prePos)' = files'["base"][prePos + 1]
        BY <1>1, <2>2, <3>1, <3>2, <3>5, <4>2 DEF Record
      <4>5. Readable'
        BY <2>1, <2>2, <4>1 DEF Readable
      <4> QED BY <4>1, <4>2, <4>3, <4>4, <4>5, <3>5
    <3>8. Len(log') + Ahead' <= Len(files'["base"])
      BY <1>1, <1>2, <3>1, <3>2, <3>5 DEF Ahead
    <3> QED BY <1>1, <1>2, <1>3, <1>4, <2>2, <3>1, <3>6, <3>7, <3>8 DEF DiskKeeps
  <2> QED BY <2>3, <2>4
<1>5. CASE ~logger.inited
  <2>1. /\ files' = [files EXCEPT !["base"] = <<m>>]
        /\ preStat' = m /\ logger' = Opened("base") /\ menus' = TRUE
    BY <1>1, <1>3, <1>5 DEF PutRecord
  <2>2. /\ logger' \in Loggers /\ logger'.temp = "base" /\ logger'.read = "base"
        /\ logger'.write = "base" /\ logger'.inited
    BY <1>2, <2>1 DEF Opened, Loggers, Dir
  <2>3. log = <<>>
    BY <1>1, <1>5 DEF DiskKeeps
  <2>4. prePos = -1
    BY <2>3 DEF DiskKeeps, Positions
  <2>5. files' \in [Dir -> Seq(Nat)] /\ Len(files'["base"]) = 1
    BY <1>2, <2>1 DEF Dir
  <2>6. LogTypes'
    <3>1. preStat' \in Int /\ menus' \in BOOLEAN /\ made' \in Nat
      BY <1>1, <1>2, <2>1
    <3> QED BY <1>1, <1>2, <1>3, <2>2, <2>5, <3>1 DEF LogTypes
  <2>7. Len(log') + Ahead' <= Len(files'["base"])
    BY <1>1, <2>3, <2>5 DEF Ahead
  <2> QED BY <1>1, <1>2, <1>3, <2>2, <2>4, <2>6, <2>7 DEF DiskKeeps
<1> QED BY <1>4, <1>5

\* The record gets its entry: the files are as long as the list again.
LEMMA ListRecordKeeps ==
  ASSUME env \in Settings, env.useDisk, DiskKeeps, ListRecord
  PROVE  DiskKeeps'
<1>1. /\ sim = "put" /\ sim' = "on" /\ Listed(Null) /\ trace' = Append(trace, made)
      /\ UNCHANGED <<env, changePos, preStat, prePos, menus, logger, files, made, saver, archive>>
  BY DEF ListRecord
<1>2. LogTypes /\ Null \in Entries /\ log \in Seq(Entries) /\ Len(log) \in Nat /\ dropped \in Nat
  BY DEF DiskKeeps, LogTypes, Entries
<1>3. /\ log' \in Seq(Entries) /\ dropped' \in Nat
      /\ dropped' + Len(log') = dropped + Len(log) + 1
      /\ dropped' = dropped \/ dropped' = dropped + 1
  BY <1>1, <1>2, ListedOK
<1>4. Len(log') \in Len(log)..(Len(log) + 1)
  BY <1>2, <1>3
<1>5. LogTypes'
  <2>1. trace' \in Seq(Nat)
    BY <1>1, <1>2, AppendProperties DEF LogTypes
  <2> QED BY <1>1, <1>2, <1>3, <2>1 DEF LogTypes
<1>6. prePos' # -1 => prePos' \in Positions' /\ Readable' /\ preStat' = Record(prePos)'
  <2>1. prePos # -1 => prePos \in Positions /\ Readable /\ preStat = Record(prePos)
    BY DEF DiskKeeps
  <2>2. Positions \subseteq Positions'
    BY <1>2, <1>4 DEF Positions
  <2> QED BY <1>1, <2>1, <2>2 DEF Readable, Record
<1>7. ~(~logger.inited /\ logger.registered)
  BY <1>1 DEF DiskKeeps
<1>8. logger.inited /\ logger.write # "none" =>
        /\ logger.write = "base" /\ logger.read = "base"
        /\ Len(log') <= Len(files["base"])
  <2> SUFFICES ASSUME logger.inited, logger.write # "none"
               PROVE  /\ logger.write = "base" /\ logger.read = "base"
                      /\ Len(log') <= Len(files["base"])
    OBVIOUS
  <2>1. /\ logger.write = "base" /\ logger.read = "base"
        /\ Len(log) + 1 <= Len(files["base"])
    BY <1>1 DEF DiskKeeps, Ahead
  <2>2. Len(files["base"]) \in Nat
    BY <1>2 DEF LogTypes, Dir
  <2> QED BY <1>2, <1>4, <2>1, <2>2
<1>9. Len(log') + Ahead' = Len(log')
  BY <1>1, <1>3 DEF Ahead
<1> QED BY <1>1, <1>5, <1>6, <1>7, <1>8, <1>9 DEF DiskKeeps

\* Nobody reads what a raising record leaves behind.
LEMMA PutRaisesKeeps ==
  ASSUME env \in Settings, env.useDisk, DiskKeeps, PutRaises
  PROVE  DiskKeeps'
<1>1. /\ sim' = "off" /\ made' = made + 1 /\ preStat' = made' /\ menus' = TRUE
      /\ ~logger.inited /\ ~logger.registered
      /\ UNCHANGED <<env, log, dropped, prePos, files, saver, archive, trace>>
  BY DEF PutRaises
<1>2. /\ LogTypes /\ changePos = -1 /\ logger.temp = "base" /\ logger.read = "none"
      /\ logger \in Loggers /\ made \in Nat
  BY <1>1 DEF DiskKeeps, LogTypes
<1>3. changePos' = -1 /\ SpillDir = "base"
  BY <1>2 DEF PutRaises, SpillPos, SpillDir
<1>4. logger' = [Opened("base") EXCEPT !.write = "none", !.read = "none"]
  BY <1>3 DEF PutRaises
<1>5. logger' \in Loggers /\ logger'.temp = "base" /\ logger'.read = "none"
  BY <1>2, <1>4 DEF Opened, Loggers, Dir
<1>6. prePos = -1
  BY <1>2 DEF DiskKeeps, Readable
<1>7. LogTypes'
  BY <1>1, <1>2, <1>3, <1>5 DEF LogTypes
<1> QED BY <1>1, <1>2, <1>3, <1>5, <1>6, <1>7 DEF DiskKeeps

\* Saving closes the files and changes nothing in them.
LEMMA SavingKeeps ==
  ASSUME env \in Settings, env.useDisk, DiskKeeps, saveLog \/ SaveCloses \/ SaveZips
  PROVE  DiskKeeps'
<1>1. UNCHANGED <<env, itemVars, files, sim, made, trace>>
  BY DEF saveLog, SaveCloses, SaveZips
<1>2. LogTypes /\ logger \in Loggers /\ saver \in Savers /\ trace \in Seq(Nat) /\ files \in [Dir -> Seq(Nat)]
      /\ archive \in Archives
  BY DEF DiskKeeps, LogTypes
<1>3. /\ logger' \in Loggers /\ logger'.temp = logger.temp /\ logger'.read = logger.read
      /\ logger'.inited = logger.inited /\ logger'.registered = logger.registered
      /\ logger'.write \in {logger.write, "none"}
  BY <1>2 DEF saveLog, SaveCloses, SaveZips, Loggers
<1>4. saver' \in Savers /\ saver'.at # "restore"
  <2>1. CASE saveLog
    BY <1>2, <2>1 DEF saveLog, Savers
  <2>2. CASE SaveCloses
    BY <1>2, <2>2 DEF SaveCloses, Savers
  <2>3. CASE SaveZips
    BY <2>3, EmptyList DEF SaveZips, Savers, Idle
  <2> QED BY <2>1, <2>2, <2>3
<1>5. archive' \in Archives
  <2>1. CASE SaveZips
    <3>1. ZippedDir \in Dir /\ <<>> \in Seq(Nat)
      BY <1>2, EmptyList DEF ZippedDir, Loggers, Dir
    <3> QED BY <1>2, <2>1, <3>1 DEF SaveZips, Archives, Savers
  <2>2. CASE saveLog \/ SaveCloses
    BY <1>2, <2>2 DEF saveLog, SaveCloses
  <2> QED BY <2>1, <2>2
<1>6. LogTypes'
  BY <1>1, <1>2, <1>3, <1>4, <1>5 DEF LogTypes, itemVars
<1>7. prePos' # -1 => prePos' \in Positions' /\ Readable' /\ preStat' = Record(prePos)'
  BY <1>1, <1>3 DEF DiskKeeps, Positions, Readable, Record, itemVars
<1> QED BY <1>1, <1>3, <1>4, <1>6, <1>7 DEF DiskKeeps, itemVars, Ahead

\* A load replaces the files and shows their first record.
LEMMA LoadLogKeeps ==
  ASSUME env \in Settings, env.useDisk, DiskKeeps, loadLog
  PROVE  DiskKeeps'
<1> DEFINE recs == archive.recs
           k == Len(recs)
           over == IF k > MaxLog THEN k - MaxLog ELSE 0
           entries == [i \in DOMAIN recs |-> Null]
<1>1. /\ sim = "off" /\ trace' = recs /\ recs # <<>>
      /\ UNCHANGED <<env, sim, made, saver, archive>>
      /\ log' = SubSeq(entries, over + 1, k) /\ dropped' = over
      /\ preStat' = Head(recs) /\ prePos' = 0
      /\ files' = [files EXCEPT !["base"] = recs]
      /\ changePos' = -1 /\ menus' = TRUE /\ logger' = ReadBase
  BY DEF loadLog, Extracted
<1>2. LogTypes /\ recs \in Seq(Nat) /\ files \in [Dir -> Seq(Nat)]
  BY DEF DiskKeeps, LogTypes, Archives
<1>3. k \in Nat \ {0} /\ MaxLog \in Nat \ {0} /\ DOMAIN recs = 1..k /\ recs[1] \in Nat
  BY <1>1, <1>2, EmptySeq, LogAssumption
<1>4. Head(recs) = recs[1]
  BY <1>1, <1>2
<1>5. over \in Nat /\ over < k
  BY <1>3
<1>6. \A i \in (over + 1)..k : entries[i] \in Entries
  BY <1>3, <1>5 DEF Entries
<1>7. files' \in [Dir -> Seq(Nat)] /\ files'["base"] = recs
  BY <1>1, <1>2 DEF Dir
<1>8. /\ logger' \in Loggers /\ logger'.temp = "base"
      /\ logger'.read = "base" /\ logger'.registered
  BY <1>1, <1>2, ReadBaseTyped
<1> HIDE DEF recs, k, over, entries
<1>9. log' \in Seq(Entries) /\ Len(log') = k - over
  <2>1. over + 1 \in Int /\ k \in Int /\ k - (over + 1) + 1 = k - over /\ over + 1 <= k
    BY <1>3, <1>5
  <2>2. /\ SubSeq(entries, over + 1, k) \in Seq(Entries)
        /\ Len(SubSeq(entries, over + 1, k)) = k - (over + 1) + 1
    BY <1>6, <2>1, SubSeqProperties
  <2> QED BY <1>1, <2>1, <2>2
<1>10. LogTypes'
  <2>1. preStat' \in Int /\ prePos' \in Int /\ dropped' \in Nat /\ menus' \in BOOLEAN
    BY <1>1, <1>3, <1>4, <1>5
  <2>2. changePos' \in Nat \cup {-1} /\ trace' \in Seq(Nat)
    BY <1>1, <1>2
  <2> QED BY <1>1, <1>2, <1>7, <1>8, <1>9, <2>1, <2>2 DEF LogTypes
<1>11. prePos' \in Positions' /\ Readable' /\ preStat' = Record(prePos)'
  <2>1. 0 < Len(log')
    BY <1>3, <1>5, <1>9
  <2>2. 0 \in 0..(Len(log') - 1)
    BY <1>3, <1>5, <1>9
  <2>3. preStat' # Null
    BY <1>1, <1>3, <1>4 DEF Null
  <2>4. Record(prePos)' = recs[1]
    BY <1>1, <1>3, <1>7, <1>8 DEF Record, k
  <2> QED BY <1>1, <1>4, <1>8, <2>2, <2>3, <2>4 DEF Positions, Readable
<1> QED BY <1>1, <1>8, <1>10, <1>11 DEF DiskKeeps

\* DiskKeeps is inductive, whatever the user does.
LEMMA DiskStep ==
  ASSUME env \in Settings, env.useDisk, DiskKeeps, [Next]_vars
  PROVE  DiskKeeps' /\ env' = env
<1>1. env' = env
  BY DEF Next, vars, setPosition, clearLog, StartSimulation, AddToMemory, PutRecord,
     ListRecord, PutRaises, EndSimulation, saveLog, SaveCloses, RestoreMemory,
     RestoreSplit, SaveZips, loadLog, loadLogLow, Extracted
<1>2. CASE UNCHANGED vars
  <2>1. LogTypes'
    BY <1>2 DEF DiskKeeps, LogTypes, vars, itemVars
  <2> QED BY <1>2, <2>1 DEF DiskKeeps, vars, itemVars, Ahead, Positions, Readable, Record
<1>3. CASE setPosition \/ EndSimulation
  BY <1>1, <1>3, SetPositionKeeps, EndSimulationKeeps
<1>4. CASE clearLog \/ StartSimulation
  <2>1. /\ ClearItem /\ UNCHANGED <<env, files, made, saver, archive>>
        /\ \/ logger' = Cleared /\ sim' = sim
           \/ logger' = [Cleared EXCEPT !.registered = TRUE] /\ sim' = "on"
    BY <1>4 DEF clearLog, StartSimulation
  <2> QED BY <1>1, <2>1, ClearKeeps
<1>5. CASE PutRecord \/ ListRecord \/ PutRaises
  BY <1>1, <1>5, PutRecordKeeps, ListRecordKeeps, PutRaisesKeeps
<1>6. CASE saveLog \/ SaveCloses \/ SaveZips
  BY <1>1, <1>6, SavingKeeps
<1>7. CASE loadLog
  BY <1>1, <1>7, LoadLogKeeps
<1>8. ~(AddToMemory \/ RestoreMemory \/ RestoreSplit \/ loadLogLow)
  BY DEF AddToMemory, RestoreMemory, RestoreSplit, loadLogLow, DiskKeeps
<1> QED BY <1>1, <1>2, <1>3, <1>4, <1>5, <1>6, <1>7, <1>8 DEF Next

\* On disk a position reads the same after the step.
LEMMA StableOnDisk ==
  ASSUME env \in Settings, env.useDisk, DiskKeeps, [Next]_vars,
         ~clearLog, ~StartSimulation, ~loadLog, NEW p \in Positions, dropped' = dropped
  PROVE  getValue(p)' = getValue(p)
<1>1. DiskKeeps' /\ env' = env
  BY DiskStep
<1>2. LogTypes /\ p \in Nat /\ p < Len(log) /\ Len(log) \in Nat
  BY PositionsOf DEF DiskKeeps
<1>3. /\ p \in Positions'
      /\ Readable' = Readable
      /\ Readable => Record(p)' = Record(p)
  <2>1. CASE UNCHANGED vars \/ saveLog \/ SaveCloses \/ SaveZips
    <3>1. UNCHANGED <<log, preStat, files>>
      BY <2>1 DEF vars, itemVars, saveLog, SaveCloses, SaveZips
    <3>2. logger'.read = logger.read
      BY <2>1, <1>2 DEF vars, saveLog, SaveCloses, SaveZips, LogTypes, Loggers
    <3> QED BY <3>1, <3>2 DEF Positions, Readable, Record
  <2>2. CASE setPosition \/ EndSimulation
    <3>1. UNCHANGED <<log, files>> /\ \E x : ShowAt(x)
      BY <2>2 DEF setPosition, EndSimulation
    <3>2. logger'.read = logger.read
      BY <2>2, <1>2 DEF setPosition, EndSimulation, LogTypes, Loggers
    <3>3. (preStat' # Null /\ logger.read # "none") = Readable
      BY <3>1, ShowKeepsDisk
    <3> QED BY <3>1, <3>2, <3>3 DEF Positions, Readable, Record
  <2>3. CASE PutRecord
    <3>1. logger.inited
      <4>1. sim = "on" /\ (logger.inited \/ logger.registered)
        BY <2>3 DEF PutRecord
      <4>2. log # <<>>
        BY <1>2
      <4> QED BY <4>1, <4>2 DEF DiskKeeps
    <3>2. /\ files' = PutFiles(made + 1) /\ logger'.read = logger.read
          /\ UNCHANGED <<log, preStat>> /\ sim = "on"
      BY <2>3, <3>1, <1>2 DEF PutRecord, LogTypes, Loggers
    <3>3. CASE logger.write = "none"
      BY <3>2, <3>3 DEF PutFiles, Positions, Readable, Record
    <3>4. CASE logger.write # "none"
      <4>1. /\ logger.write = "base" /\ logger.read = "base" /\ Len(log) <= Len(files["base"])
        BY <3>1, <3>2, <3>4, <1>2 DEF DiskKeeps, Ahead
      <4>2. /\ files["base"] \in Seq(Nat) /\ Len(files["base"]) \in Nat /\ made + 1 \in Nat
            /\ files \in [Dir -> Seq(Nat)] /\ "base" \in Dir
        BY <1>2 DEF Dir, LogTypes
      <4>3. files'["base"] = Append(files["base"], made + 1)
        BY <3>2, <4>1, <4>2 DEF PutFiles
      <4>4. /\ Len(files'["base"]) = Len(files["base"]) + 1
            /\ \A i \in 1..Len(files["base"]) : files'["base"][i] = files["base"][i]
        BY <4>2, <4>3, AppendProperties
      <4>5. p + 1 \in 1..Len(files["base"]) /\ p < Len(files["base"])
        BY <1>2, <4>1, <4>2
      <4>6. Record(p) = files["base"][p + 1]
        BY <4>1, <4>5 DEF Record
      <4>7. Record(p)' = files'["base"][p + 1]
        BY <1>2, <3>2, <4>1, <4>2, <4>4, <4>5 DEF Record
      <4>8. Record(p)' = Record(p)
        BY <4>4, <4>5, <4>6, <4>7
      <4> QED BY <3>2, <4>8 DEF Positions, Readable
    <3> QED BY <3>3, <3>4
  <2>4. CASE ListRecord
    <3>1. UNCHANGED <<preStat, logger, files>> /\ Listed(Null)
      BY <2>4 DEF ListRecord
    <3>2. dropped' + Len(log') = dropped + Len(log) + 1 /\ log' \in Seq(Entries) /\ dropped \in Nat
      BY <1>2, <3>1, ListedOK DEF Entries, LogTypes
    <3>3. p \in Positions'
      BY <1>2, <3>2 DEF Positions
    <3> QED BY <3>1, <3>3 DEF Readable, Record
  <2>5. CASE PutRaises
    <3>1. ~logger.inited /\ ~logger.registered /\ UNCHANGED log
      BY <2>5 DEF PutRaises
    <3>2. ~Readable
      BY <3>1 DEF DiskKeeps, Readable
    <3>3. logger'.read = "none"
      BY <2>5 DEF PutRaises, Opened, LogTypes, Loggers
    <3> QED BY <3>1, <3>2, <3>3 DEF Positions, Readable
  <2>6. ~(AddToMemory \/ RestoreMemory \/ RestoreSplit \/ loadLogLow)
    BY DEF AddToMemory, RestoreMemory, RestoreSplit, loadLogLow, DiskKeeps
  <2> QED BY <2>1, <2>2, <2>3, <2>4, <2>5, <2>6 DEF Next
<1>4. DiskReading /\ DiskReading'
  <2>1. DiskReading
    BY DiskReadings
  <2>2. (env.useDisk /\ DiskKeeps)' => DiskReading'
    BY DiskReadings, PTL
  <2> QED BY <1>1, <2>1, <2>2
<1>5. getValue(p) = IF Readable THEN Record(p) ELSE Null
  BY <1>4 DEF DiskReading
<1>6. getValue(p)' = IF Readable' THEN Record(p)' ELSE Null
  BY <1>3, <1>4 DEF DiskReading, Null
<1> QED BY <1>3, <1>5, <1>6

\* A calm user's log in the heap: what comes next in its files, and what does not change there.
LEMMA SpillStep ==
  ASSUME env \in Settings, env.calm, ~env.useDisk, CalmInv, CalmInv', SpillKeeps, [Next]_vars
  PROVE  SpillKeeps' /\ env' = env
<1>1. env' = env
  BY DEF Next, vars, setPosition, clearLog, StartSimulation, AddToMemory, PutRecord,
     ListRecord, PutRaises, EndSimulation, saveLog, SaveCloses, RestoreMemory,
     RestoreSplit, SaveZips, loadLog, loadLogLow, Extracted
<1>2. /\ LogTypes /\ logger \in Loggers /\ changePos \in Nat \cup {-1} /\ Len(log) \in Nat
      /\ log \in Seq(Entries) /\ files \in [Dir -> Seq(Nat)] /\ prePos \in Int
      /\ dropped \in Nat /\ Len(files["over"]) \in Nat /\ files["over"] \in Seq(Nat)
  BY DEF CalmInv, LogTypes, Dir
<1> SUFFICES ASSUME changePos' >= 0
             PROVE  SpillKeeps'
  BY <1>1 DEF SpillKeeps
<1>3. CASE UNCHANGED vars \/ saveLog \/ SaveZips
  <2>1. UNCHANGED <<log, changePos, preStat, prePos, menus, logger, files, sim>>
    BY <1>3 DEF vars, itemVars, saveLog, SaveZips
  <2> QED BY <2>1 DEF SpillKeeps, Record, Ahead
<1>4. CASE setPosition \/ EndSimulation
  <2>1. /\ UNCHANGED <<log, changePos, menus, files>> /\ \E x : ShowAt(x)
        /\ sim' \in {"off", sim}
    BY <1>4 DEF setPosition, EndSimulation
  <2>2. logger'.read = logger.read
    BY <1>2, <1>4 DEF setPosition, EndSimulation, Loggers
  <2>3. changePos >= 0
    BY <2>1
  <2>4. /\ prePos' > 0 => logger.read # "none" /\ preStat' = Record(prePos')
        /\ sim # "off" => prePos' < Len(files["over"])
    <3>1. PICK x : ShowAt(x)
      BY <2>1
    <3>2. CASE ~(x \in Positions /\ FileBacked(x) /\ Readable)
      BY <2>3, <3>1, <3>2 DEF ShowAt, SpillKeeps
    <3>3. CASE x \in Positions /\ FileBacked(x) /\ Readable
      <4>1. /\ preStat' = getValue(x) /\ prePos' = x - changePos /\ x > changePos
        BY <3>1, <3>3 DEF ShowAt, FileIndex, FileBacked
      <4>2. x \in Nat /\ x < Len(log) /\ changePos \in Nat
        BY <1>2, <2>3, <3>3, PositionsOf
      <4>3. getValue(x) = Record(x - changePos)
        BY <1>2, <2>3, <3>3, <4>1, SpillReadings DEF SpillReading, Readable
      <4>4. preStat' = Record(prePos')
        BY <4>1, <4>3
      <4>5. sim # "off" => prePos' < Len(files["over"])
        <5> SUFFICES ASSUME sim # "off" PROVE prePos' < Len(files["over"])
          OBVIOUS
        <5>1. Len(log) - changePos + Ahead <= Len(files["over"]) /\ Ahead \in Nat
          BY <2>3 DEF SpillKeeps, Ahead
        <5> QED BY <1>2, <4>1, <4>2, <5>1
      <4> QED BY <3>3, <4>4, <4>5 DEF Readable
    <3> QED BY <3>2, <3>3
  <2>5. prePos' > 0 => preStat' = Record(prePos)'
    BY <2>1, <2>2, <2>4 DEF Record
  <2>6. sim' # "off" => sim' = sim
    BY <2>1
  <2>7. sim' # "off" => Len(log') - changePos' + Ahead' <= Len(files'["over"])
    BY <2>1, <2>3, <2>6 DEF SpillKeeps, Ahead
  <2> QED BY <2>1, <2>2, <2>3, <2>4, <2>5, <2>6, <2>7 DEF SpillKeeps
<1>5. CASE PutRecord
  <2>1. /\ sim = "on" /\ sim' = "put" /\ changePos' = SpillPos
        /\ UNCHANGED <<env, log, dropped, prePos>>
    BY <1>5 DEF PutRecord
  <2>2. logger.inited = menus /\ menus \in BOOLEAN
    BY <1>2, <2>1 DEF CalmInv, Undisturbed, LogTypes
  <2>3. CASE changePos >= 0
    <3>1. menus /\ logger.write = "over"
      BY <2>1, <2>3 DEF CalmInv, Spilled
    <3>2. /\ changePos' = changePos /\ SpillDir = logger.temp
      BY <2>1, <2>3 DEF SpillPos, SpillDir, Spills
    <3>3. /\ files' = PutFiles(made + 1) /\ logger'.read = logger.read
          /\ UNCHANGED <<preStat, menus>>
      BY <1>2, <1>5, <2>2, <3>1 DEF PutRecord, Loggers
    <3>4. made + 1 \in Nat
      BY <1>2 DEF LogTypes
    <3>5. files'["over"] = Append(files["over"], made + 1)
      BY <1>2, <3>1, <3>3 DEF PutFiles, Dir
    <3>6. /\ Len(files'["over"]) = Len(files["over"]) + 1
          /\ \A i \in 1..Len(files["over"]) : files'["over"][i] = files["over"][i]
      BY <1>2, <3>4, <3>5, AppendProperties
    <3>7. /\ logger.read = "over" /\ prePos < Len(files["over"])
          /\ Len(log) - changePos <= Len(files["over"])
      BY <1>2, <2>1, <2>3 DEF SpillKeeps, Ahead
    <3>8. ASSUME prePos > 0 PROVE preStat' = Record(prePos)'
      <4>1. preStat = Record(prePos)
        BY <2>3, <3>8 DEF SpillKeeps
      <4>2. prePos + 1 \in 1..Len(files["over"])
        BY <1>2, <3>7, <3>8
      <4>3. Record(prePos) = files["over"][prePos + 1]
        BY <3>7 DEF Record
      <4>4. Record(prePos)' = files'["over"][prePos + 1]
        BY <1>2, <2>1, <3>3, <3>6, <3>7 DEF Record
      <4> QED BY <3>3, <3>6, <4>1, <4>2, <4>3, <4>4
    <3>9. Len(log') - changePos' + Ahead' <= Len(files'["over"]) /\ prePos' < Len(files'["over"])
      BY <1>2, <2>1, <3>2, <3>6, <3>7 DEF Ahead
    <3> QED BY <2>1, <3>2, <3>3, <3>7, <3>8, <3>9 DEF SpillKeeps
  <2>4. CASE changePos < 0
    <3>1. prePos = -1 /\ ~logger.inited
      BY <2>1, <2>4 DEF CalmInv, InHeap
    <3>2. SpillDir = "over" /\ changePos' = Len(log)
      BY <2>1, <2>4, <1>2 DEF SpillPos, SpillDir, Spills
    <3>3. files' = [files EXCEPT !["over"] = <<made'>>] /\ logger' = Opened("over")
      BY <1>5, <3>1, <3>2 DEF PutRecord
    <3>4. Len(files'["over"]) = 1
      BY <1>2, <3>3 DEF Dir
    <3>5. logger'.read = "over"
      BY <1>2, <3>3 DEF Opened, Loggers
    <3>6. Len(log') - changePos' + Ahead' <= Len(files'["over"]) /\ prePos' < Len(files'["over"])
      BY <1>2, <2>1, <3>1, <3>2, <3>4 DEF Ahead
    <3>7. ~(prePos' > 0)
      BY <2>1, <3>1
    <3> QED BY <3>5, <3>6, <3>7 DEF SpillKeeps
  <2> QED BY <1>2, <2>3, <2>4
<1>6. CASE ListRecord
  <2>1. /\ sim = "put" /\ sim' = "on" /\ Listed(Null)
        /\ UNCHANGED <<env, changePos, preStat, prePos, menus, logger, files>>
    BY <1>6 DEF ListRecord
  <2>2. /\ log' \in Seq(Entries) /\ dropped' \in Nat
        /\ dropped' + Len(log') = dropped + Len(log) + 1
        /\ dropped' = dropped \/ dropped' = dropped + 1
    BY <1>2, <2>1, ListedOK DEF Entries
  <2>3. Len(log') <= Len(log) + 1 /\ Len(log') \in Nat
    BY <1>2, <2>2
  <2>4. Len(log) - changePos + 1 <= Len(files["over"])
    BY <2>1 DEF SpillKeeps, Ahead
  <2>5. Len(log') - changePos' + Ahead' <= Len(files'["over"])
    BY <1>2, <2>1, <2>3, <2>4 DEF Ahead
  <2>6. prePos' > 0 => preStat' = Record(prePos)'
    BY <2>1 DEF SpillKeeps, Record
  <2> QED BY <2>1, <2>5, <2>6 DEF SpillKeeps
<1>7. CASE RestoreSplit
  <2>1. /\ saver.at = "restore" /\ changePos >= 0
        /\ UNCHANGED <<log, changePos, preStat, prePos, menus, sim>>
        /\ \A d \in Dir : d # "base" => files'[d] = files[d]
    BY <1>2, <1>7 DEF RestoreSplit, itemVars
  <2>2. sim = "off" /\ menus
    BY <2>1, SavesBetween
  <2>3. logger'.read = logger.read
    BY <1>2, <1>7 DEF RestoreSplit, Loggers
  <2>4. logger.read \in {"over", "none"}
    BY <1>2, <2>1, <2>2 DEF SpillKeeps, Loggers, Dir
  <2>5. prePos' > 0 => preStat' = Record(prePos)'
    BY <2>1, <2>3, <2>4 DEF SpillKeeps, Record, Dir
  <2> QED BY <2>1, <2>2, <2>3, <2>4, <2>5 DEF SpillKeeps
<1>8. CASE loadLogLow
  <2>1. archive.recs \in Seq(Nat) /\ Len(archive.recs) \in Nat /\ sim' = "off"
    BY <1>2, <1>8, ExtractedOK DEF loadLogLow
  <2>2. PICK i \in 0..(Len(archive.recs) - 1) :
           /\ changePos' = i /\ preStat' = archive.recs[i + 1] /\ prePos' = i
           /\ menus' = (i = 0)
           /\ logger' = IF i = 0 THEN [ReadBase EXCEPT !.dir = "over", !.read = "over"] ELSE ReadBase
    BY <1>8 DEF loadLogLow
  <2>3. ReadBase \in Loggers /\ ReadBase.read = "base"
    BY <1>2, ReadBaseTyped
  <2>4. files'["base"] = archive.recs
    BY <1>2, <1>8 DEF loadLogLow, Dir
  <2>5. CASE i = 0
    <3>1. logger'.read = "over" /\ ~(prePos' > 0)
      BY <2>2, <2>3, <2>5 DEF Loggers
    <3> QED BY <2>1, <3>1 DEF SpillKeeps
  <2>6. CASE i # 0
    <3>1. logger'.read = "base" /\ ~menus' /\ prePos' < Len(archive.recs)
      <4>1. logger' = ReadBase /\ ~menus' BY <2>2, <2>6
      <4>2. prePos' < Len(archive.recs) BY <2>1, <2>2
      <4> QED BY <2>3, <4>1, <4>2
    <3>2. Record(prePos)' = archive.recs[prePos' + 1]
      BY <2>4, <3>1 DEF Record
    <3> QED BY <2>1, <2>2, <3>1, <3>2 DEF SpillKeeps
  <2> QED BY <2>5, <2>6
<1>9. ~(clearLog \/ StartSimulation \/ loadLog \/ AddToMemory \/ RestoreMemory \/ SaveCloses \/ PutRaises)
  <2>1. ~(clearLog \/ StartSimulation)
    BY DEF clearLog, StartSimulation, ClearItem
  <2>2. ~(loadLog \/ AddToMemory \/ RestoreMemory)
    BY <1>2 DEF loadLog, AddToMemory, RestoreMemory, Spills
  <2>3. ~(SaveCloses \/ PutRaises)
    BY PutRaisesStep DEF SaveCloses, CalmInv, SavesLog
  <2> QED BY <2>1, <2>2, <2>3
<1> QED BY <1>3, <1>4, <1>5, <1>6, <1>7, <1>8, <1>9 DEF Next

\* So it does in the heap, before and behind changePos_.
LEMMA StableInHeap ==
  ASSUME env \in Settings, env.calm, ~env.useDisk, CalmInv, CalmInv', SpillKeeps, [Next]_vars,
         ~clearLog, ~StartSimulation, ~loadLog, ~loadLogLow,
         NEW p \in Positions, dropped' = dropped
  PROVE  getValue(p)' = getValue(p)
<1>1. SpillKeeps' /\ env' = env
  BY SpillStep
<1>2. /\ LogTypes /\ LogTypes' /\ logger \in Loggers /\ changePos \in Nat \cup {-1} /\ Len(log) \in Nat
      /\ log \in Seq(Entries) /\ files \in [Dir -> Seq(Nat)] /\ dropped \in Nat
      /\ Len(files["over"]) \in Nat /\ files["over"] \in Seq(Nat)
      /\ p \in Nat /\ p < Len(log) /\ changePos' \in Nat \cup {-1}
  BY PositionsOf DEF CalmInv, LogTypes, Dir
<1>3. /\ p \in Positions' /\ log'[p + 1] = log[p + 1]
      /\ changePos' = changePos \/ (changePos < 0 /\ changePos' >= p)
  <2>1. CASE UNCHANGED vars \/ setPosition \/ EndSimulation \/ saveLog \/ SaveCloses
               \/ RestoreMemory \/ RestoreSplit \/ SaveZips
    <3>1. log' = log /\ changePos' = changePos
      BY <2>1 DEF vars, itemVars, setPosition, EndSimulation, saveLog, SaveCloses,
         RestoreMemory, RestoreSplit, SaveZips
    <3> QED BY <1>2, <3>1 DEF Positions
  <2>2. CASE AddToMemory \/ ListRecord
    <3>1. PICK v \in Entries : Listed(v)
      BY <1>2, <2>2 DEF AddToMemory, ListRecord, Entries, LogTypes
    <3>2. log' = Append(log, v)
      BY <1>2, <3>1, ListedOK
    <3>3. Len(log') = Len(log) + 1 /\ log'[p + 1] = log[p + 1]
      BY <1>2, <3>2, AppendProperties
    <3>4. changePos' = changePos
      BY <2>2 DEF AddToMemory, ListRecord
    <3> QED BY <1>2, <3>3, <3>4 DEF Positions
  <2>3. CASE PutRecord
    <3>1. log' = log /\ changePos' = SpillPos
      BY <2>3 DEF PutRecord
    <3>2. SpillPos = changePos \/ (changePos < 0 /\ SpillPos = Len(log))
      BY <1>2 DEF SpillPos, Spills
    <3> QED BY <1>2, <3>1, <3>2 DEF Positions
  <2>4. ~PutRaises
    BY PutRaisesStep
  <2> QED BY <2>1, <2>2, <2>3, <2>4 DEF Next
<1>4. CASE ~(changePos >= 0 /\ p > changePos)
  <2>1. ~(changePos' >= 0 /\ p > changePos')
    BY <1>2, <1>3, <1>4
  <2>2. getValue(p) = log[p + 1]
    BY <1>4 DEF getValue, FileBacked
  <2>3. getValue(p)' = log'[p + 1]
    BY <1>1, <2>1 DEF getValue, FileBacked
  <2> QED BY <1>3, <2>2, <2>3
<1>5. CASE changePos >= 0 /\ p > changePos
  <2>1. changePos' = changePos /\ changePos \in Nat /\ p - changePos \in Nat
    BY <1>2, <1>3, <1>5
  <2> PICK k \in Nat : k = p - changePos BY <2>1
  <2>2. /\ Readable' = Readable
        /\ Readable => Record(k)' = Record(k)
    <3>1. CASE UNCHANGED vars \/ ListRecord \/ saveLog \/ SaveZips
      <4>1. UNCHANGED <<preStat, logger, files>>
        BY <3>1 DEF vars, itemVars, ListRecord, saveLog, SaveZips
      <4> QED BY <4>1 DEF Readable, Record
    <3>2. CASE setPosition \/ EndSimulation
      <4>1. UNCHANGED files /\ (\E x : ShowAt(x)) /\ logger'.read = logger.read
        BY <1>2, <3>2 DEF setPosition, EndSimulation, Loggers
      <4>2. PICK x : ShowAt(x)
        BY <4>1
      <4>3. CASE ~(x \in Positions /\ FileBacked(x) /\ Readable)
        <5>1. preStat' = preStat
          BY <4>2, <4>3 DEF ShowAt
        <5> QED BY <2>1, <4>1, <5>1 DEF Readable, Record
      <4>4. CASE x \in Positions /\ FileBacked(x) /\ Readable
        <5>1. preStat' = getValue(x) /\ x > changePos
          BY <4>2, <4>4 DEF ShowAt, FileBacked
        <5>2. getValue(x) = Record(x - changePos)
          BY <1>2, <1>5, <4>4, <5>1, SpillReadings DEF SpillReading, Readable
        <5>3. x - changePos \in Nat
          BY <2>1, <4>4, <5>1, <1>2, PositionsOf
        <5>4. preStat' \in Nat
          BY <1>2, <4>4, <5>1, <5>2, <5>3, RecordTyped DEF Readable
        <5> QED BY <2>1, <4>1, <4>4, <5>4 DEF Readable, Record, Null
      <4> QED BY <4>3, <4>4
    <3>3. CASE PutRecord
      <4>1. sim = "on" /\ menus /\ logger.write = "over" /\ logger.inited
        BY <1>5, <3>3 DEF PutRecord, CalmInv, Spilled, Undisturbed
      <4>2. /\ files' = PutFiles(made + 1) /\ logger'.read = logger.read /\ preStat' = preStat
        BY <1>2, <3>3, <4>1 DEF PutRecord, Loggers
      <4>3. made + 1 \in Nat
        BY <1>2 DEF LogTypes
      <4>4. files'["over"] = Append(files["over"], made + 1)
        BY <1>2, <4>1, <4>2 DEF PutFiles, Dir
      <4>5. /\ Len(files'["over"]) = Len(files["over"]) + 1
            /\ \A i \in 1..Len(files["over"]) : files'["over"][i] = files["over"][i]
        BY <1>2, <4>3, <4>4, AppendProperties
      <4>6. logger.read = "over" /\ Len(log) - changePos <= Len(files["over"])
        BY <1>2, <1>5, <4>1 DEF SpillKeeps, Ahead
      <4>7. k < Len(files["over"]) /\ k + 1 \in 1..Len(files["over"])
        BY <1>2, <2>1, <4>6
      <4>9. Record(k) = files["over"][k + 1]
        BY <4>6, <4>7 DEF Record
      <4>10. Record(k)' = files'["over"][k + 1]
        BY <1>2, <4>2, <4>5, <4>6, <4>7 DEF Record
      <4> QED BY <4>2, <4>5, <4>7, <4>9, <4>10 DEF Readable
    <3>4. CASE RestoreSplit
      <4>1. /\ saver.at = "restore" /\ UNCHANGED preStat
            /\ \A d \in Dir : d # "base" => files'[d] = files[d]
        BY <1>2, <3>4 DEF RestoreSplit, itemVars
      <4>2. menus
        BY <4>1, SavesBetween
      <4>3. logger'.read = logger.read
        BY <1>2, <3>4 DEF RestoreSplit, Loggers
      <4>4. logger.read \in {"over", "none"}
        BY <1>2, <1>5, <4>2 DEF SpillKeeps, Loggers, Dir
      <4> QED BY <2>1, <4>1, <4>3, <4>4 DEF Readable, Record, Dir
    <3>5. ~(AddToMemory \/ RestoreMemory \/ SaveCloses \/ PutRaises)
      <4>1. ~AddToMemory /\ ~RestoreMemory
        BY <1>2, <1>5 DEF AddToMemory, RestoreMemory, Spills
      <4>2. ~SaveCloses /\ ~PutRaises
        BY PutRaisesStep DEF SaveCloses, CalmInv, SavesLog
      <4> QED BY <4>1, <4>2
    <3> QED BY <3>1, <3>2, <3>3, <3>4, <3>5 DEF Next
  <2>3. SpillReading /\ SpillReading'
    <3>1. /\ prePos > 0 => preStat # Null
          /\ prePos' > 0 => preStat' # Null
      <4>1. RecordsAreStates
        BY <1>2, RecordsTyped
      <4>2. RecordsAreStates'
        <5>1. LogTypes' => RecordsAreStates'
          BY RecordsTyped, PTL
        <5> QED BY <1>2, <5>1
      <4>3. prePos > 0 => logger.read # "none" /\ preStat = Record(prePos)
        BY <1>5 DEF SpillKeeps
      <4>4. (prePos > 0 => logger.read # "none" /\ preStat = Record(prePos))'
        BY <1>1, <1>5, <2>1 DEF SpillKeeps
      <4> QED BY <1>2, <4>1, <4>2, <4>3, <4>4 DEF LogTypes, RecordsAreStates, Null
    <3>2. (LogTypes /\ changePos >= 0 /\ ~env.useDisk /\ SpillKeeps
             /\ (prePos > 0 => preStat # Null))' => SpillReading'
      BY SpillReadings, PTL
    <3>3. changePos >= 0 /\ changePos' >= 0
      BY <1>5, <2>1
    <3> QED BY <1>1, <1>2, <3>1, <3>2, <3>3, SpillReadings
  <2>4. getValue(p) = IF Readable THEN Record(k) ELSE Null
    BY <1>5, <2>3 DEF SpillReading
  <2>5. getValue(p)' = IF Readable' THEN Record(k)' ELSE Null
    BY <1>3, <1>5, <2>1, <2>3 DEF SpillReading, Null
  <2> QED BY <2>2, <2>4, <2>5
<1> QED BY <1>4, <1>5

\* KeepInv is inductive.
LEMMA KeepInvHolds == Spec => []KeepInv
<1>1. Init => KeepInv
  <2>1. ASSUME Init PROVE env.useDisk => DiskKeeps
    <3>1. env \in Settings /\ LogInv
      BY <2>1, InitOK DEF Init
    <3>2. LogTypes
      BY <2>1, InitTyped
    <3> QED BY <2>1, <3>2 DEF Init, DiskKeeps, Unopened, Idle
  <2>2. ASSUME Init PROVE SpillKeeps
    BY <2>2 DEF Init, SpillKeeps
  <2> QED BY <2>1, <2>2, InitOK DEF KeepInv
<1>2. KeepInv /\ LogInv' /\ [Next]_vars => KeepInv'
  <2> SUFFICES ASSUME KeepInv, LogInv', [Next]_vars PROVE KeepInv'
    OBVIOUS
  <2>1. env \in Settings /\ (env.calm => CalmInv)
    BY DEF KeepInv, LogInv
  <2>2. CASE env.useDisk
    <3>1. DiskKeeps' /\ env' = env
      BY <2>1, <2>2, DiskStep DEF KeepInv
    <3> QED BY <2>2, <3>1 DEF KeepInv
  <2>3. CASE ~env.useDisk
    <3>1. env' = env
      BY DEF Next, vars, setPosition, clearLog, StartSimulation, AddToMemory, PutRecord,
         ListRecord, PutRaises, EndSimulation, saveLog, SaveCloses, RestoreMemory,
         RestoreSplit, SaveZips, loadLog, loadLogLow, Extracted
    <3>2. ASSUME env.calm PROVE SpillKeeps'
      <4>1. CalmInv /\ CalmInv'
        BY <2>1, <3>1, <3>2 DEF LogInv
      <4> QED BY <2>1, <2>3, <3>2, <4>1, SpillStep DEF KeepInv
    <3> QED BY <2>3, <3>1, <3>2 DEF KeepInv
  <2> QED BY <2>2, <2>3
<1> QED BY <1>1, <1>2, LogInvHolds, PTL DEF Spec

\* A position that a view has shown keeps showing the same, whatever is recorded, shown or
\* saved next, until entries are dropped or the log is cleared or loaded: on disk for any
\* user, in the heap for a calm one.  This is GrxWorldStateItem's cache of one state,
\* preStat_ at prePos_, in front of files that are read and written at once.
THEOREM ReadingsStable == Spec => StableOnceRecorded
<1>1. KeepInv /\ KeepInv' /\ [Next]_vars =>
        [ \/ clearLog \/ StartSimulation \/ loadLog \/ loadLogLow
          \/ dropped' # dropped
          \/ ~env.calm /\ ~env.useDisk
          \/ \A p \in Positions : getValue(p)' = getValue(p) ]_vars
  <2> SUFFICES ASSUME KeepInv, KeepInv', [Next]_vars,
                      ~clearLog, ~StartSimulation, ~loadLog, ~loadLogLow,
                      dropped' = dropped, env.calm \/ env.useDisk, NEW p \in Positions
               PROVE  getValue(p)' = getValue(p)
    OBVIOUS
  <2>1. env \in Settings
    BY DEF KeepInv, LogInv
  <2>2. CASE env.useDisk
    BY <2>1, <2>2, StableOnDisk DEF KeepInv
  <2>3. CASE ~env.useDisk
    <3>1. env' = env
      BY DEF Next, vars, setPosition, clearLog, StartSimulation, AddToMemory, PutRecord,
         ListRecord, PutRaises, EndSimulation, saveLog, SaveCloses, RestoreMemory,
         RestoreSplit, SaveZips, loadLog, loadLogLow, Extracted
    <3>2. CalmInv /\ CalmInv' /\ SpillKeeps /\ env.calm
      BY <2>3, <3>1 DEF KeepInv, LogInv
    <3> QED BY <2>1, <2>3, <3>2, StableInHeap
  <2> QED BY <2>2, <2>3
<1> QED BY <1>1, KeepInvHolds, PTL DEF Spec, StableOnceRecorded

=============================================================================
