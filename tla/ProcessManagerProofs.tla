------------------------ MODULE ProcessManagerProofs ------------------------
(* Proofs that ProcessManager's safety properties hold for any number of   *)
(* servers and of processes started for them.                              *)
EXTENDS ProcessManager, SequenceTheorems, TLAPS

-----------------------------------------------------------------------------
(* The inductive invariant.                                                *)

Last(s) == Len(procs[s])

ManagerTypes ==
    /\ env \in Settings
    /\ registered \subseteq Server
    /\ procs \in [Server -> Seq(Process)]
    /\ current \in [Server -> Nat] /\ ends \in [Server -> Nat]
    /\ button \in [Server -> {"START", "STOP"}]
    /\ restartFlag \in [Server -> BOOLEAN]
    /\ updated \in BOOLEAN
    /\ ui \in {<<"boot">>, <<"idle">>, <<"quit">>} \cup ({"stop", "start"} \X Server)

\* The AProcess in the list refers to the process started last or to none; before
\* GrxUI is up nothing has been started.
RefersToLast(s) ==
    /\ current[s] = 0 \/ (current[s] = Last(s) /\ procs[s][current[s]].held
                             /\ ~procs[s][current[s]].destroyed)
    /\ ui = <<"boot">> => procs[s] = <<>> /\ ends[s] = 0 /\ ~restartFlag[s]

\* NoOrphan for one server.
Reachable(s) ==
    \A i \in 1..Last(s) :
        procs[s][i].alive /\ ~procs[s][i].destroyed =>
            s \in registered /\ current[s] = i

\* A watcher of a process that runs has not gone.
Watched(s) ==
    \A i \in 1..Last(s) :
        /\ procs[s][i].held /\ procs[s][i].alive => procs[s][i].watcher # "gone"
        /\ ~procs[s][i].held => procs[s][i].destroyed

\* The server is in the middle of a restart by the user.
InRestart(s) == ui \in {<<"stop", s>>, <<"start", s>>}

\* Given that the user waits for the notifications: a watcher always finds its
\* process, and only the processes started last and before that are not settled.
WatchersMeet(s) ==
    env.prompt /\ ui # <<"quit">> =>
        /\ \A i \in 1..Last(s) :
              procs[s][i].watcher = "new" => procs[s][i].held
        /\ \A i \in 1..Last(s) :
              i < (IF InRestart(s) THEN Last(s) ELSE Last(s) - 1)
                  => procs[s][i].watcher = "gone"

\* What is known in the middle of a restart.
RestartGoesOn(s) ==
    env.prompt =>
        /\ ui = <<"stop", s>> =>
              /\ isRunning(s) /\ procs[s][current[s]].watcher = "waiting"
              /\ button[s] = "STOP" /\ ends[s] = 0
        /\ ui = <<"start", s>> =>
              /\ ~isRunning(s) /\ button[s] = "STOP"
              /\ Owed(s)
        /\ InRestart(s) => ~restartFlag[s]

\* FlagIsOwed for one server.
Swallows(s) == env.prompt /\ restartFlag[s] => Owed(s)

\* The end of process i of s has not been posted yet.
Unposted(s, i) ==
    /\ i \in 1..Last(s) /\ procs[s][i].watcher # "gone"
    /\ procs[s][i].alive => procs[s][i].destroyed

One(b) == IF b THEN 1 ELSE 0

\* How many notifications the panel of s will still get.
Pending(s) == ends[s] + One(Unposted(s, Last(s))) + One(Unposted(s, Last(s) - 1))

\* A button that says START is right, and one that says STOP will be corrected by the
\* notifications that are on their way if it is not: the flag swallows one of them.
PanelOK(s) ==
    env.prompt /\ ~updated /\ ui # <<"quit">> =>
        /\ button[s] = "START" => ~isRunning(s) /\ ~restartFlag[s]
        /\ button[s] = "STOP" =>
              Pending(s) = One(restartFlag[s]) + One(~isRunning(s))

\* The invariant of one server: its processes, and its panel.
ProcessesOK(s) == RefersToLast(s) /\ Reachable(s) /\ Watched(s)

ServerInv(s) ==
    /\ ProcessesOK(s)
    /\ WatchersMeet(s)
    /\ RestartGoesOn(s)
    /\ Swallows(s)
    /\ PanelOK(s)

\* The inductive invariant.
ManagerInv == ManagerTypes /\ \A s \in Server : ServerInv(s)

-----------------------------------------------------------------------------
(* The states of the UI, and the processes after a call.                   *)

\* The states of the UI thread differ.
LEMMA UiDiffer ==
    /\ <<"boot">> # <<"idle">> /\ <<"boot">> # <<"quit">> /\ <<"idle">> # <<"quit">>
    /\ \A s : /\ <<"stop", s>> # <<"idle">> /\ <<"start", s>> # <<"idle">>
              /\ <<"stop", s>> # <<"quit">> /\ <<"start", s>> # <<"quit">>
              /\ <<"stop", s>> # <<"boot">> /\ <<"start", s>> # <<"boot">>
    /\ \A s, t : /\ <<"stop", s>> # <<"start", t>>
                 /\ <<"stop", s>> = <<"stop", t>> => s = t
                 /\ <<"start", s>> = <<"start", t>> => s = t
<1>1. \A s : Len(<<"stop", s>>) = 2 /\ Len(<<"start", s>>) = 2
  OBVIOUS
<1>2. Len(<<"boot">>) = 1 /\ Len(<<"idle">>) = 1 /\ Len(<<"quit">>) = 1
  OBVIOUS
<1>3. \A s : <<"stop", s>>[1] = "stop" /\ <<"start", s>>[1] = "start"
  OBVIOUS
<1>4. \A s : <<"stop", s>>[2] = s /\ <<"start", s>>[2] = s
  OBVIOUS
<1>5. <<"boot">>[1] = "boot" /\ <<"idle">>[1] = "idle" /\ <<"quit">>[1] = "quit"
  OBVIOUS
<1> QED BY <1>1, <1>2, <1>3, <1>4, <1>5

\* The processes of a server as a function.
LEMMA ProcsOf ==
    ASSUME ManagerTypes, NEW s \in Server
    PROVE  /\ Last(s) \in Nat /\ procs[s] \in [1..Last(s) -> Process]
           /\ DOMAIN procs[s] = 1..Last(s) /\ procs[s] \in Seq(Process)
           /\ current[s] \in Nat /\ ends[s] \in Nat
<1>1. procs[s] \in Seq(Process)
  BY DEF ManagerTypes
<1> QED BY <1>1, LenProperties DEF Last, ManagerTypes

\* One process of a sequence is replaced.
LEMMA ProcessReplaced ==
    ASSUME NEW P \in Seq(Process), NEW i \in 1..Len(P), NEW r \in Process
    PROVE  /\ [P EXCEPT ![i] = r] \in Seq(Process)
           /\ Len([P EXCEPT ![i] = r]) = Len(P)
           /\ [P EXCEPT ![i] = r][i] = r
           /\ \A j \in 1..Len(P) : j # i => [P EXCEPT ![i] = r][j] = P[j]
<1> DEFINE Q == [P EXCEPT ![i] = r]
<1>1. Len(P) \in Nat /\ P \in [1..Len(P) -> Process]
  BY LenProperties
<1>2. Q \in [1..Len(P) -> Process] /\ DOMAIN Q = 1..Len(P)
  BY <1>1
<1>3. Q \in Seq(Process)
  BY <1>1, <1>2, SeqDef
<1>4. Len(Q) = Len(P)
  BY <1>1, <1>2, <1>3, LenProperties
<1> QED BY <1>1, <1>3, <1>4

\* The processes of s after stop(), if it runs.
LEMMA AfterStopFacts ==
    ASSUME ManagerTypes, NEW s \in Server, RefersToLast(s)
    PROVE  /\ AfterStop(s) \in Seq(Process) /\ Len(AfterStop(s)) = Last(s)
           /\ ~isRunning(s) => AfterStop(s) = procs[s]
           /\ isRunning(s) =>
                /\ AfterStop(s) = Stopped(s)
                /\ current[s] = Last(s) /\ Last(s) \in 1..Last(s)
                /\ AfterStop(s)[Last(s)].destroyed = TRUE
                /\ AfterStop(s)[Last(s)].held = FALSE
                /\ AfterStop(s)[Last(s)].watcher = procs[s][Last(s)].watcher
                /\ \A i \in 1..Last(s) : i # Last(s) => AfterStop(s)[i] = procs[s][i]
<1>1. /\ Last(s) \in Nat /\ procs[s] \in [1..Last(s) -> Process]
      /\ procs[s] \in Seq(Process) /\ current[s] \in Nat
  BY ProcsOf
<1>2. CASE ~isRunning(s)
  BY <1>1, <1>2 DEF AfterStop, Last
<1>3. CASE isRunning(s)
  <2> DEFINE k == Last(s)
             r == [procs[s][k] EXCEPT !.destroyed = TRUE, !.held = FALSE,
                                      !.alive = s \in env.hasShutdown]
  <2>1. current[s] = k /\ k \in 1..k
    BY <1>1, <1>3 DEF isRunning, RefersToLast
  <2>2. r \in Process /\ r.destroyed = TRUE /\ r.held = FALSE
        /\ r.watcher = procs[s][k].watcher
    <3>1. procs[s][k] \in Process /\ (s \in env.hasShutdown) \in BOOLEAN
      BY <1>1, <2>1
    <3> QED BY <3>1 DEF Process
  <2>3. AfterStop(s) = [procs[s] EXCEPT ![k] = r] /\ AfterStop(s) = Stopped(s)
    BY <1>3, <2>1 DEF AfterStop, Stopped
  <2> HIDE DEF r
  <2> QED BY <1>1, <1>3, <2>1, <2>2, <2>3, ProcessReplaced DEF Last
<1> QED BY <1>2, <1>3

\* A process more.
LEMMA StartedFacts ==
    ASSUME NEW P \in Seq(Process)
    PROVE  LET Q == Append(P, NewProcess)
               n == Len(P) + 1
           IN  /\ Q \in Seq(Process) /\ Len(Q) = n /\ n \in 1..n
               /\ Q[n] = NewProcess /\ NewProcess.alive /\ ~NewProcess.destroyed
               /\ NewProcess.held /\ NewProcess.watcher = "new"
               /\ \A i \in 1..Len(P) : Q[i] = P[i]
<1>1. NewProcess \in Process
  BY DEF NewProcess, Process
<1>2. /\ NewProcess.alive /\ ~NewProcess.destroyed
      /\ NewProcess.held /\ NewProcess.watcher = "new"
  BY DEF NewProcess
<1>3. Len(P) \in Nat
  BY LenProperties
<1> HIDE DEF NewProcess
<1> QED BY <1>1, <1>2, <1>3, AppendProperties

\* The processes of s after start(), and stop() before it if it runs.
AfterStart(s) == Append(AfterStop(s), NewProcess)

-----------------------------------------------------------------------------
(* The processes of one server.                                            *)

\* A process that was not told to end is the last one, and isRunning() sees it.
LEMMA RunningIsLast ==
    ASSUME ManagerTypes, NEW s \in Server, ProcessesOK(s), NEW i \in 1..Last(s),
           procs[s][i].alive, ~procs[s][i].destroyed
    PROVE  isRunning(s) /\ i = Last(s) /\ current[s] = i /\ s \in registered
<1>1. Last(s) \in Nat /\ i # 0
  BY ProcsOf
<1>2. current[s] = i /\ s \in registered
  BY DEF ProcessesOK, Reachable
<1>3. i = Last(s)
  BY <1>1, <1>2 DEF ProcessesOK, RefersToLast
<1> QED BY <1>1, <1>2, <1>3 DEF isRunning

\* stop(), if it runs: nothing is left that was not told to end.
LEMMA StopKeeps ==
    ASSUME ManagerTypes, NEW s \in Server, ProcessesOK(s), procs'[s] = AfterStop(s),
           current'[s] = 0 \/ (current'[s] = current[s] /\ ~isRunning(s)),
           ui' # <<"boot">>
    PROVE  ProcessesOK(s)'
<1> USE DEF ProcessesOK
<1> DEFINE k == Last(s)
<1>1. /\ k \in Nat /\ procs[s] \in [1..k -> Process] /\ current[s] \in Nat
  BY ProcsOf
<1>2. Last(s)' = k
  BY AfterStopFacts DEF Last
<1>3. CASE ~isRunning(s)
  <2>1. procs'[s] = procs[s]
    BY <1>3, AfterStopFacts
  <2>2. RefersToLast(s)'
    BY <1>2, <2>1 DEF RefersToLast
  <2>a. \A i \in 1..k : ~(procs[s][i].alive /\ ~procs[s][i].destroyed)
    BY <1>3, RunningIsLast
  <2>3. Reachable(s)'
    BY <1>2, <2>1, <2>a DEF Reachable
  <2>4. Watched(s)'
    BY <1>2, <2>1 DEF Watched
  <2> QED BY <2>2, <2>3, <2>4
<1>4. CASE isRunning(s)
  <2>a. /\ current[s] = k /\ k \in 1..k
        /\ AfterStop(s)[k].destroyed = TRUE /\ AfterStop(s)[k].held = FALSE
        /\ \A i \in 1..k : i # k => AfterStop(s)[i] = procs[s][i]
    BY <1>4, AfterStopFacts
  <2>1. /\ current[s] = k /\ k \in 1..k /\ current'[s] = 0
        /\ procs'[s][k].destroyed = TRUE /\ procs'[s][k].held = FALSE
        /\ \A i \in 1..k : i # k => procs'[s][i] = procs[s][i]
    BY <1>4, <2>a
  <2>2. RefersToLast(s)'
    BY <2>1 DEF RefersToLast
  <2>3. Reachable(s)'
    BY <1>2, <2>1 DEF Reachable
  <2>4. Watched(s)'
    BY <1>2, <2>1 DEF Watched
  <2> QED BY <2>2, <2>3, <2>4
<1> QED BY <1>3, <1>4

\* start(), after stop() if it runs: the new process is the only one that was not
\* told to end.
LEMMA StartKeeps ==
    ASSUME ManagerTypes, NEW s \in Server, ProcessesOK(s),
           procs'[s] = AfterStart(s),
           current'[s] = Last(s) + 1, s \in registered', ui' # <<"boot">>
    PROVE  ProcessesOK(s)'
<1> USE DEF ProcessesOK
<1> DEFINE k == Last(s)
           P == AfterStop(s)
<1>1. /\ k \in Nat /\ procs[s] \in [1..k -> Process] /\ current[s] \in Nat
  BY ProcsOf
<1>2. P \in Seq(Process) /\ Len(P) = k
  BY AfterStopFacts
<1>3. /\ Last(s)' = k + 1 /\ k + 1 \in 1..(k + 1)
      /\ procs'[s][k + 1] = NewProcess
      /\ NewProcess.alive /\ ~NewProcess.destroyed
      /\ NewProcess.held /\ NewProcess.watcher = "new"
      /\ \A i \in 1..k : procs'[s][i] = P[i]
  BY <1>2, StartedFacts DEF Last, AfterStart
<1>4. \A i \in 1..k : /\ ~(P[i].alive /\ ~P[i].destroyed)
                      /\ P[i].held /\ P[i].alive => P[i].watcher # "gone"
                      /\ ~P[i].held => P[i].destroyed
  <2> SUFFICES ASSUME NEW i \in 1..k
               PROVE  /\ ~(P[i].alive /\ ~P[i].destroyed)
                      /\ P[i].held /\ P[i].alive => P[i].watcher # "gone"
                      /\ ~P[i].held => P[i].destroyed
    OBVIOUS
  <2>1. /\ isRunning(s) /\ i = k => P[i].destroyed = TRUE /\ P[i].held = FALSE
        /\ ~(isRunning(s) /\ i = k) => P[i] = procs[s][i]
    BY AfterStopFacts
  <2>2. ~(isRunning(s) /\ i = k) => ~(procs[s][i].alive /\ ~procs[s][i].destroyed)
    BY RunningIsLast
  <2>3. /\ procs[s][i].held /\ procs[s][i].alive => procs[s][i].watcher # "gone"
        /\ ~procs[s][i].held => procs[s][i].destroyed
    BY DEF Watched
  <2> HIDE DEF P, k
  <2> QED BY <2>1, <2>2, <2>3
<1>5. \A i \in 1..(k + 1) : i = k + 1 \/ i \in 1..k
  BY <1>1
<1> HIDE DEF k, P
<1>6. RefersToLast(s)'
  BY <1>3 DEF RefersToLast, k
<1>7. Reachable(s)'
  BY <1>3, <1>4, <1>5 DEF Reachable, k
<1>8. Watched(s)'
  BY <1>3, <1>4, <1>5 DEF Watched
<1> QED BY <1>6, <1>7, <1>8

\* A process ends, or its watcher goes on.
LEMMA ProcessGoesOn ==
    ASSUME ManagerTypes, NEW s \in Server, ProcessesOK(s), NEW i \in 1..Last(s),
           NEW r \in Process, procs'[s] = [procs[s] EXCEPT ![i] = r],
           r.held = procs[s][i].held, r.destroyed = procs[s][i].destroyed,
           r.alive => procs[s][i].alive,
           r.held /\ r.alive => r.watcher # "gone",
           UNCHANGED <<current, registered, ui>>
    PROVE  ProcessesOK(s)' /\ Last(s)' = Last(s) /\ procs'[s][i] = r
           /\ \A j \in 1..Last(s) : j # i => procs'[s][j] = procs[s][j]
<1> USE DEF ProcessesOK
<1>1. /\ Last(s) \in Nat /\ procs[s] \in [1..Last(s) -> Process] /\ current[s] \in Nat
      /\ procs[s] \in Seq(Process)
  BY ProcsOf
<1>2. /\ Last(s)' = Last(s) /\ procs'[s][i] = r
      /\ \A j \in 1..Last(s) : j # i => procs'[s][j] = procs[s][j]
  BY <1>1, ProcessReplaced DEF Last
<1>3. RefersToLast(s)'
  <2>1. procs[s] # <<>>
    BY <1>1 DEF Last
  <2>2. current[s] = 0 \/ current[s] \in 1..Last(s)
    BY <1>1 DEF RefersToLast
  <2> QED BY <1>2, <2>1, <2>2 DEF RefersToLast
<1>4. Reachable(s)'
  BY <1>2 DEF Reachable
<1>5. Watched(s)'
  BY <1>2 DEF Watched
<1> QED BY <1>2, <1>3, <1>4, <1>5

\* What is settled.
LEMMA SettledFacts ==
    ASSUME ManagerTypes, NEW s \in Server, ProcessesOK(s), Swallows(s), Settled(s)
    PROVE  /\ \A i \in 1..Last(s) : i < Last(s) => procs[s][i].watcher = "gone"
           /\ \A i \in 1..Last(s) : procs[s][i].watcher # "new"
           /\ isRunning(s) => procs[s][Last(s)].watcher = "waiting"
           /\ ends[s] = 0 /\ ~Owed(s) /\ Pending(s) = 0
           /\ env.prompt => ~restartFlag[s]
<1> USE DEF ProcessesOK
<1>1. /\ Last(s) \in Nat /\ procs[s] \in [1..Last(s) -> Process]
      /\ DOMAIN procs[s] = 1..Last(s) /\ current[s] \in Nat
  BY ProcsOf
<1>2. /\ ends[s] = 0
      /\ \A i \in 1..Last(s) : /\ procs[s][i].watcher # "new"
                               /\ procs[s][i].alive => ~procs[s][i].destroyed
                               /\ ~procs[s][i].alive => procs[s][i].watcher = "gone"
  BY <1>1 DEF Settled
<1>3. ASSUME NEW i \in 1..Last(s), i < Last(s) PROVE procs[s][i].watcher = "gone"
  <2>1. CASE procs[s][i].alive
    BY <1>1, <1>2, <1>3, <2>1 DEF Reachable, RefersToLast
  <2> QED BY <1>2, <2>1
<1>4. ASSUME isRunning(s) PROVE procs[s][Last(s)].watcher = "waiting"
  <2>1. Last(s) \in 1..Last(s) /\ current[s] = Last(s) /\ procs[s][Last(s)].alive
    BY <1>1, <1>4 DEF isRunning, RefersToLast
  <2>2. procs[s][Last(s)].held /\ procs[s][Last(s)] \in Process
    BY <1>1, <2>1 DEF RefersToLast
  <2> QED BY <1>2, <2>1, <2>2 DEF Watched, Process
<1>5. ~Owed(s)
  BY <1>1, <1>2 DEF Owed
<1>6. \A i : ~Unposted(s, i)
  BY <1>2 DEF Unposted
<1>7. Pending(s) = 0
  BY <1>2, <1>6 DEF Pending, One
<1> QED BY <1>2, <1>3, <1>4, <1>5, <1>7 DEF Swallows

-----------------------------------------------------------------------------
(* Servers that a step leaves alone.                                       *)

\* The panel of one server, and what is known of its notifications.
NoticesOK(s) == WatchersMeet(s) /\ RestartGoesOn(s) /\ Swallows(s) /\ PanelOK(s)

\* A step of another server; the UI thread may have been idle or be so now.
Untouched(t) ==
    /\ procs'[t] = procs[t] /\ current'[t] = current[t] /\ ends'[t] = ends[t]
    /\ button'[t] = button[t] /\ restartFlag'[t] = restartFlag[t]
    /\ t \in registered' <=> t \in registered
    /\ env' = env /\ (updated => updated')
    /\ \/ ui' = ui
       \/ ~InRestart(t) /\ ~InRestart(t)' /\ ui' # <<"boot">> /\ ui # <<"quit">>

\* Such a step keeps the invariant of the server.
LEMMA UntouchedKeeps ==
    ASSUME NEW t, ServerInv(t), Untouched(t)
    PROVE  ServerInv(t)'
<1> USE DEF Untouched
<1>1. Last(t)' = Last(t)
  BY DEF Last
<1>2. isRunning(t)' <=> isRunning(t)
  BY DEF isRunning
<1>3. Owed(t)' <=> Owed(t)
  BY DEF Owed
<1>4. \A i : Unposted(t, i)' <=> Unposted(t, i)
  BY <1>1 DEF Unposted
<1>5. Pending(t)' = Pending(t)
  BY <1>1, <1>4 DEF Pending, One
<1>6. InRestart(t)' <=> InRestart(t)
  BY DEF InRestart
<1>7. ProcessesOK(t)'
  BY <1>1 DEF ServerInv, ProcessesOK, RefersToLast, Reachable, Watched
<1>8. WatchersMeet(t)'
  BY <1>1, <1>6 DEF ServerInv, WatchersMeet
<1>9. RestartGoesOn(t)'
  BY <1>2, <1>3 DEF ServerInv, RestartGoesOn, InRestart
<1>10. Swallows(t)'
  BY <1>3 DEF ServerInv, Swallows
<1>11. PanelOK(t)'
  BY <1>2, <1>5 DEF ServerInv, PanelOK, One
<1> QED BY <1>7, <1>8, <1>9, <1>10, <1>11 DEF ServerInv

\* When the user does not wait, nothing is claimed of the notifications.
LEMMA HastyUser ==
    ASSUME NEW s, ~env.prompt, env' = env
    PROVE  NoticesOK(s)'
BY DEF NoticesOK, WatchersMeet, RestartGoesOn, Swallows, PanelOK

-----------------------------------------------------------------------------
(* Notifications and the panel of the server that a step is about.         *)

\* The last process after a call of stop(), and how it is seen.
LEMMA StoppedFacts ==
    ASSUME ManagerTypes, NEW s \in Server, ProcessesOK(s), procs'[s] = AfterStop(s)
    PROVE  /\ Last(s)' = Last(s) /\ DOMAIN procs'[s] = 1..Last(s)
           /\ \A i \in 1..Last(s) : procs'[s][i].watcher = procs[s][i].watcher
           /\ ~isRunning(s) => procs'[s] = procs[s]
           /\ \A i \in 1..Last(s) :
                 (procs[s][i].alive => procs[s][i].destroyed)
                    => (procs'[s][i].alive => procs'[s][i].destroyed)
<1> USE DEF ProcessesOK
<1> DEFINE k == Last(s)
<1>1. k \in Nat /\ AfterStop(s) \in Seq(Process) /\ Len(AfterStop(s)) = k
  BY ProcsOf, AfterStopFacts
<1>2. Last(s)' = k /\ DOMAIN procs'[s] = 1..k
  BY <1>1, LenProperties DEF Last
<1>3. ~isRunning(s) => procs'[s] = procs[s]
  BY AfterStopFacts
<1>4. isRunning(s) =>
        /\ procs'[s][k].destroyed = TRUE
        /\ procs'[s][k].watcher = procs[s][k].watcher
        /\ \A i \in 1..k : i # k => procs'[s][i] = procs[s][i]
  <2>1. isRunning(s) =>
          /\ AfterStop(s)[k].destroyed = TRUE
          /\ AfterStop(s)[k].watcher = procs[s][k].watcher
          /\ \A i \in 1..k : i # k => AfterStop(s)[i] = procs[s][i]
    BY AfterStopFacts
  <2> QED BY <2>1
<1> HIDE DEF k
<1>5. \A i \in 1..k : procs'[s][i].watcher = procs[s][i].watcher
  BY <1>3, <1>4
<1>6. \A i \in 1..k : (procs[s][i].alive => procs[s][i].destroyed)
                         => (procs'[s][i].alive => procs'[s][i].destroyed)
  BY <1>3, <1>4
<1> QED BY <1>2, <1>3, <1>5, <1>6 DEF k

\* stop() of a server whose ends are all announced.
LEMMA StopSettled ==
    ASSUME ManagerTypes, NEW s \in Server, ServerInv(s), env.prompt, env' = env,
           Settled(s), procs'[s] = AfterStop(s), current'[s] = 0,
           restartFlag'[s] = restartFlag[s],
           ui' = <<"idle">>, button'[s] = "START" \/ updated'
    PROVE  NoticesOK(s)'
<1>1. /\ \A i \in 1..Last(s) : i < Last(s) => procs[s][i].watcher = "gone"
      /\ \A i \in 1..Last(s) : procs[s][i].watcher # "new"
      /\ ~restartFlag[s]
  BY SettledFacts DEF ServerInv
<1>2. /\ Last(s)' = Last(s) /\ Last(s) \in Nat
      /\ \A i \in 1..Last(s) : procs'[s][i].watcher = procs[s][i].watcher
  BY StoppedFacts, ProcsOf DEF ServerInv
<1>3. ~InRestart(s)'
  BY UiDiffer DEF InRestart
<1>4. WatchersMeet(s)'
  BY <1>1, <1>2, <1>3 DEF WatchersMeet
<1>5. RestartGoesOn(s)'
  BY <1>3 DEF RestartGoesOn, InRestart
<1>6. Swallows(s)'
  BY <1>1 DEF Swallows
<1>7. PanelOK(s)'
  <2>1. ~isRunning(s)'
    BY DEF isRunning
  <2> QED BY <1>1, <2>1 DEF PanelOK
<1> QED BY <1>4, <1>5, <1>6, <1>7 DEF NoticesOK

\* start(), after stop() if the process runs.
LEMMA StartedNow ==
    ASSUME ManagerTypes, NEW s \in Server, ProcessesOK(s),
           procs'[s] = AfterStart(s), current'[s] = Last(s) + 1
    PROVE  /\ Last(s)' = Last(s) + 1 /\ DOMAIN procs'[s] = 1..(Last(s) + 1)
           /\ isRunning(s)' /\ (\A n : n = Last(s) + 1 => ~Unposted(s, n)')
           /\ procs'[s][Last(s) + 1].held
           /\ \A i \in 1..Last(s) : procs'[s][i].watcher = procs[s][i].watcher
           /\ ~isRunning(s) => \A i \in 1..Last(s) : procs'[s][i] = procs[s][i]
<1> DEFINE k == Last(s)
           P == AfterStop(s)
           n == k + 1
<1>a. RefersToLast(s)
  BY DEF ProcessesOK
<1>1. k \in Nat /\ P \in Seq(Process) /\ Len(P) = k
  BY <1>a, ProcsOf, AfterStopFacts
<1>2. /\ procs'[s] \in Seq(Process) /\ Len(procs'[s]) = n
      /\ procs'[s][n] = NewProcess /\ NewProcess.alive /\ ~NewProcess.destroyed
      /\ NewProcess.held
      /\ \A i \in 1..k : procs'[s][i] = P[i]
  BY <1>1, StartedFacts DEF AfterStart
<1>3. Last(s)' = n /\ DOMAIN procs'[s] = 1..n
  BY <1>2, LenProperties DEF Last
<1>4. isRunning(s)' /\ (\A m : m = n => ~Unposted(s, m)')
  BY <1>1, <1>2 DEF isRunning, Unposted
<1>5. ~isRunning(s) => P = procs[s]
  BY <1>a, AfterStopFacts
<1>6. \A i \in 1..k : P[i].watcher = procs[s][i].watcher
  <2>1. isRunning(s) => /\ P[k].watcher = procs[s][k].watcher
                        /\ \A i \in 1..k : i # k => P[i] = procs[s][i]
    BY <1>a, AfterStopFacts
  <2> HIDE DEF k, P
  <2> QED BY <1>5, <2>1
<1> HIDE DEF P
<1> QED BY <1>2, <1>3, <1>4, <1>5, <1>6

\* start() of a server whose ends are all announced.
LEMMA StartSettled ==
    ASSUME ManagerTypes, NEW s \in Server, ServerInv(s), env.prompt, env' = env,
           Settled(s), procs'[s] = AfterStart(s),
           current'[s] = Last(s) + 1, ends'[s] = ends[s],
           restartFlag'[s] = restartFlag[s],
           ui' = <<"idle">>, (button'[s] = "STOP" /\ ~isRunning(s)) \/ updated'
    PROVE  NoticesOK(s)'
<1>b. ProcessesOK(s) /\ Last(s) \in Nat
  BY ProcsOf DEF ServerInv
<1> PICK k \in Nat : k = Last(s)
  BY <1>b
<1>a. ProcessesOK(s) /\ k \in Nat
  BY <1>b
<1>1. /\ \A i \in 1..k : i < k => procs[s][i].watcher = "gone"
      /\ \A i \in 1..k : procs[s][i].watcher # "new"
      /\ ends[s] = 0 /\ ~restartFlag[s]
  BY SettledFacts DEF ServerInv
<1>2. /\ Last(s)' = k + 1 /\ isRunning(s)' /\ ~Unposted(s, k + 1)'
      /\ procs'[s][k + 1].held
      /\ \A i \in 1..k : procs'[s][i].watcher = procs[s][i].watcher
      /\ ~isRunning(s) => \A i \in 1..k : procs'[s][i] = procs[s][i]
  BY <1>a, StartedNow
<1>3. ~InRestart(s)'
  BY UiDiffer DEF InRestart
<1>4. WatchersMeet(s)'
  <2>1. \A i \in 1..(k + 1) : procs'[s][i].watcher = "new" => procs'[s][i].held
    BY <1>a, <1>1, <1>2
  <2>2. \A i \in 1..(k + 1) : i < k => procs'[s][i].watcher = "gone"
    BY <1>a, <1>1, <1>2
  <2> QED BY <1>a, <1>2, <1>3, <2>1, <2>2 DEF WatchersMeet
<1>5. RestartGoesOn(s)'
  BY <1>3 DEF RestartGoesOn, InRestart
<1>6. Swallows(s)'
  BY <1>1 DEF Swallows
<1>7. PanelOK(s)'
  <2> SUFFICES ASSUME button'[s] = "STOP", ~isRunning(s)
               PROVE  Pending(s)' = 0
    BY <1>1, <1>2 DEF PanelOK, One
  <2>1. ~Unposted(s, k)
    <3>1. Settled(s) /\ DOMAIN procs[s] = 1..k
      BY ProcsOf
    <3> QED BY <3>1 DEF Settled, Unposted
  <2>2. ~Unposted(s, k)'
    <3>1. k \in 1..(k + 1) /\ ~(k \in 1..k) => k = 0
      BY <1>a
    <3> QED BY <1>a, <1>2, <2>1, <3>1 DEF Unposted
  <2> QED BY <1>a, <1>1, <1>2, <2>2 DEF Pending, One
<1> QED BY <1>4, <1>5, <1>6, <1>7 DEF NoticesOK

\* A click on the restart button: the restart begins.
LEMMA RestartBegins ==
    ASSUME ManagerTypes, NEW s \in Server, ServerInv(s), env.prompt, Restart(s)
    PROVE  NoticesOK(s)'
<1> USE DEF Restart, panels
<1>1. Settled(s)
  BY DEF UserActs
<1>2. /\ \A i \in 1..Last(s) : i < Last(s) => procs[s][i].watcher = "gone"
      /\ \A i \in 1..Last(s) : procs[s][i].watcher # "new"
      /\ procs[s][Last(s)].watcher = "waiting"
      /\ ends[s] = 0 /\ ~restartFlag[s]
  BY <1>1, SettledFacts DEF ServerInv
<1>3. Last(s)' = Last(s) /\ Last(s) \in Nat /\ current[s] = Last(s)
  BY ProcsOf DEF Last, ServerInv, ProcessesOK, RefersToLast, isRunning
<1>4. WatchersMeet(s)'
  BY <1>2, <1>3 DEF WatchersMeet
<1>5. isRunning(s)' /\ Pending(s)' = Pending(s)
  BY DEF isRunning, Pending, One, Unposted, Last
<1>6. ui # <<"quit">>
  BY UiDiffer DEF UserActs
<1>7. RestartGoesOn(s)'
  BY <1>2, <1>3, <1>5, UiDiffer DEF RestartGoesOn
<1>8. Swallows(s)'
  BY <1>2 DEF Swallows
<1>9. PanelOK(s)'
  BY <1>5, <1>6 DEF PanelOK, One, ServerInv
<1> QED BY <1>4, <1>7, <1>8, <1>9 DEF NoticesOK

\* The restart stops the process: one notification is on its way.
LEMMA RestartStops ==
    ASSUME ManagerTypes, NEW s \in Server, ServerInv(s), env.prompt, env' = env,
           ui = <<"stop", s>>, ui' = <<"start", s>>, isRunning(s),
           procs'[s] = AfterStop(s), current'[s] = 0, ends'[s] = ends[s],
           restartFlag'[s] = restartFlag[s], button'[s] = button[s],
           updated' = updated
    PROVE  NoticesOK(s)'
<1>0. ProcessesOK(s) /\ RefersToLast(s) /\ Last(s) \in Nat
  BY ProcsOf DEF ServerInv, ProcessesOK
<1> PICK k \in Nat : k = Last(s)
  BY <1>0
<1>a. ProcessesOK(s) /\ RefersToLast(s) /\ k \in Nat
  BY <1>0
<1>b. InRestart(s) /\ InRestart(s)' /\ ui # <<"quit">>
  BY UiDiffer DEF InRestart
<1>1. /\ procs[s][k].watcher = "waiting" /\ current[s] = k /\ k \in 1..k
      /\ button[s] = "STOP" /\ ends[s] = 0 /\ ~restartFlag[s]
  BY <1>a, <1>b, AfterStopFacts DEF ServerInv, RestartGoesOn
<1>2. /\ Last(s)' = k /\ DOMAIN procs'[s] = 1..k
      /\ \A i \in 1..k : procs'[s][i].watcher = procs[s][i].watcher
  BY <1>a, StoppedFacts
<1>c. procs'[s][k].destroyed = TRUE
  <2>1. AfterStop(s)[k].destroyed = TRUE
    BY <1>a, AfterStopFacts
  <2> QED BY <2>1
<1>3. \A i \in 1..k : /\ procs[s][i].watcher = "new" => procs[s][i].held
                      /\ i < k => procs[s][i].watcher = "gone"
  BY <1>b DEF ServerInv, WatchersMeet
<1>4. WatchersMeet(s)'
  <2>1. \A i \in 1..k : procs[s][i].watcher # "new" \/ (i = k /\ FALSE)
    BY <1>1, <1>3, <1>a
  <2> QED BY <1>2, <1>3, <1>b, <2>1 DEF WatchersMeet
<1>5. ~isRunning(s)'
  BY DEF isRunning
<1>6. Owed(s)'
  BY <1>1, <1>2, <1>c DEF Owed
<1>7. RestartGoesOn(s)'
  BY <1>1, <1>5, <1>6, UiDiffer DEF RestartGoesOn
<1>8. Swallows(s)'
  BY <1>1 DEF Swallows
<1>9. PanelOK(s)'
  <2>1. Unposted(s, k)'
    BY <1>1, <1>2, <1>c DEF Unposted
  <2>2. ~Unposted(s, k - 1)'
    BY <1>a, <1>2, <1>3 DEF Unposted
  <2>3. Pending(s)' = 1
    BY <1>1, <1>2, <2>1, <2>2 DEF Pending, One
  <2> QED BY <1>1, <1>5, <2>3 DEF PanelOK, One
<1> QED BY <1>4, <1>7, <1>8, <1>9 DEF NoticesOK

\* The restart starts the process: the flag is set for the one notification.
LEMMA RestartStarts ==
    ASSUME ManagerTypes, NEW s \in Server, ServerInv(s), env.prompt, env' = env,
           ui = <<"start", s>>, ui' = <<"idle">>, ~isRunning(s),
           procs'[s] = AfterStart(s), current'[s] = Last(s) + 1, ends'[s] = ends[s],
           restartFlag'[s] = TRUE, button'[s] = "STOP", updated' = updated
    PROVE  NoticesOK(s)'
<1>0. ProcessesOK(s) /\ Last(s) \in Nat /\ DOMAIN procs[s] = 1..Last(s) /\ ends[s] \in Nat
  BY ProcsOf DEF ServerInv
<1> PICK k \in Nat : k = Last(s)
  BY <1>0
<1>b. InRestart(s) /\ ui # <<"quit">> /\ ~InRestart(s)'
  BY UiDiffer DEF InRestart
<1>1. button[s] = "STOP" /\ Owed(s) /\ ~restartFlag[s]
  BY <1>b DEF ServerInv, RestartGoesOn
<1>2. /\ Last(s)' = k + 1 /\ DOMAIN procs'[s] = 1..(k + 1)
      /\ isRunning(s)' /\ (\A n : n = k + 1 => ~Unposted(s, n)')
      /\ procs'[s][k + 1].held
      /\ \A i \in 1..k : procs'[s][i] = procs[s][i]
  BY <1>0, StartedNow
<1>3. \A i \in 1..k : /\ procs[s][i].watcher = "new" => procs[s][i].held
                      /\ i < k => procs[s][i].watcher = "gone"
  BY <1>b DEF ServerInv, WatchersMeet
<1>4. WatchersMeet(s)'
  <2>1. \A i \in 1..(k + 1) : i = k + 1 \/ i \in 1..k
    OBVIOUS
  <2>2. \A i \in 1..(k + 1) : procs'[s][i].watcher = "new" => procs'[s][i].held
    BY <1>2, <1>3, <2>1
  <2>3. \A i \in 1..(k + 1) : i < k => procs'[s][i].watcher = "gone"
    BY <1>2, <1>3, <2>1
  <2> QED BY <1>2, <1>b, <2>2, <2>3 DEF WatchersMeet
<1>5. RestartGoesOn(s)'
  BY <1>b DEF RestartGoesOn, InRestart
<1>6. Owed(s)'
  BY <1>0, <1>1, <1>2 DEF Owed
<1>7. Swallows(s)'
  BY <1>6 DEF Swallows
<1>8. PanelOK(s)'
  <2> SUFFICES ASSUME ~updated PROVE Pending(s)' = 1
    BY <1>2 DEF PanelOK, One
  <2>1. Pending(s) = 1
    BY <1>1, <1>b DEF ServerInv, PanelOK, One
  <2>2. ~Unposted(s, k - 1)
    <3>1. k - 1 \in 1..k => k - 1 < k
      OBVIOUS
    <3> QED BY <1>3, <3>1 DEF Unposted
  <2>3. Unposted(s, k)' <=> Unposted(s, k)
    <3>1. k \in 1..(k + 1) <=> k \in 1..k
      OBVIOUS
    <3> QED BY <1>2, <3>1 DEF Unposted
  <2>4. Pending(s) = ends[s] + One(Unposted(s, k)) + 0
    BY <2>2 DEF Pending, One
  <2>5. Pending(s)' = ends[s] + 0 + One(Unposted(s, k))
    BY <1>2, <2>3 DEF Pending, One
  <2> QED BY <1>0, <2>1, <2>4, <2>5 DEF One
<1> QED BY <1>4, <1>5, <1>7, <1>8 DEF NoticesOK

\* The restart cannot start the process: the panel offers START again.
LEMMA RestartFails ==
    ASSUME ManagerTypes, NEW s \in Server, ServerInv(s), env.prompt, env' = env,
           ui = <<"start", s>>, ui' = <<"idle">>,
           procs'[s] = procs[s], current'[s] = 0,
           restartFlag'[s] = restartFlag[s], button'[s] = "START"
    PROVE  NoticesOK(s)'
<1>b. InRestart(s) /\ ui # <<"quit">> /\ ~InRestart(s)'
  BY UiDiffer DEF InRestart
<1>1. ~restartFlag[s]
  BY <1>b DEF ServerInv, RestartGoesOn
<1>2. Last(s)' = Last(s) /\ Last(s) \in Nat
  BY ProcsOf DEF Last
<1>3. WatchersMeet(s)'
  BY <1>b, <1>2 DEF ServerInv, WatchersMeet
<1>4. RestartGoesOn(s)'
  BY <1>b DEF RestartGoesOn, InRestart
<1>5. Swallows(s)' /\ PanelOK(s)'
  BY <1>1 DEF Swallows, PanelOK, isRunning
<1> QED BY <1>3, <1>4, <1>5 DEF NoticesOK

\* A notification arrives: the flag swallows it or the panel shows START.
LEMMA EndArrives ==
    ASSUME ManagerTypes, NEW s \in Server, ServerInv(s), env.prompt, ProcessEnd(s)
    PROVE  NoticesOK(s)'
<1> USE DEF ProcessEnd
<1>1. /\ ends'[s] = ends[s] - 1 /\ ends[s] \in Nat /\ ends[s] > 0
      /\ restartFlag'[s] = FALSE
      /\ ~restartFlag[s] => button'[s] = "START"
      /\ restartFlag[s] => button'[s] = button[s]
      /\ button[s] \in {"START", "STOP"}
  BY ProcsOf DEF ManagerTypes, Shows, FlagAfterEnd
<1>2. Last(s)' = Last(s) /\ (\A i : Unposted(s, i)' <=> Unposted(s, i))
  BY DEF Last, Unposted
<1>3. (isRunning(s)' <=> isRunning(s)) /\ ui # <<"quit">>
  BY UiDiffer DEF isRunning
<1>b. ~InRestart(s) /\ ~InRestart(s)'
  BY UiDiffer DEF InRestart
<1>4. WatchersMeet(s)'
  BY <1>2, <1>b, <1>3 DEF ServerInv, WatchersMeet
<1>5. RestartGoesOn(s)'
  BY <1>b DEF RestartGoesOn, InRestart
<1>6. Swallows(s)'
  BY <1>1 DEF Swallows
<1>7. PanelOK(s)'
  <2> SUFFICES ASSUME ~updated PROVE PanelOK(s)'
    BY DEF PanelOK
  <2>0. PanelOK(s)
    BY DEF ServerInv
  <2>1. Pending(s)' = Pending(s) - 1 /\ Pending(s) > 0
    <3>1. Pending(s)' = ends[s] - 1 + One(Unposted(s, Last(s))) + One(Unposted(s, Last(s) - 1))
      BY <1>1, <1>2 DEF Pending, One
    <3> QED BY <1>1, <3>1 DEF Pending, One
  <2>2. CASE button[s] = "START"
    BY <1>1, <1>3, <2>0, <2>2 DEF PanelOK
  <2>3. CASE button[s] = "STOP"
    <3>1. Pending(s) = One(restartFlag[s]) + One(~isRunning(s))
      BY <1>3, <2>0, <2>3 DEF PanelOK
    <3>2. CASE restartFlag[s]
      BY <1>1, <1>3, <2>1, <2>3, <3>1, <3>2 DEF PanelOK, One
    <3>3. CASE ~restartFlag[s]
      <4>1. ~isRunning(s)
        BY <2>1, <3>1, <3>3 DEF One
      <4> QED BY <1>1, <1>3, <3>3, <4>1 DEF PanelOK
    <3> QED BY <3>2, <3>3
  <2> QED BY <1>1, <2>2, <2>3
<1> QED BY <1>4, <1>5, <1>6, <1>7 DEF NoticesOK

\* GrxUI ends: only what is owed to the panel matters.
LEMMA QuitKeeps ==
    ASSUME ManagerTypes, NEW s \in Server, ServerInv(s), env.prompt, env' = env,
           procs'[s] = AfterStop(s), ends'[s] = ends[s],
           restartFlag'[s] = restartFlag[s], ui' = <<"quit">>
    PROVE  NoticesOK(s)'
<1>1. WatchersMeet(s)' /\ PanelOK(s)'
  BY DEF WatchersMeet, PanelOK
<1>2. RestartGoesOn(s)'
  BY UiDiffer DEF RestartGoesOn, InRestart
<1>3. /\ DOMAIN procs'[s] = 1..Last(s) /\ DOMAIN procs[s] = 1..Last(s)
      /\ \A i \in 1..Last(s) : procs'[s][i].watcher = procs[s][i].watcher
      /\ \A i \in 1..Last(s) :
            (procs[s][i].alive => procs[s][i].destroyed)
               => (procs'[s][i].alive => procs'[s][i].destroyed)
  BY StoppedFacts, ProcsOf DEF ServerInv
<1>4. Owed(s) => Owed(s)'
  BY <1>3 DEF Owed
<1>5. Swallows(s)'
  BY <1>4 DEF Swallows, ServerInv
<1> QED BY <1>1, <1>2, <1>5 DEF NoticesOK

\* GrxUI has come up.
LEMMA BootKeeps ==
    ASSUME ManagerTypes, NEW s \in Server, ServerInv(s), env.prompt, env' = env,
           ui = <<"boot">>, ui' = <<"idle">>,
           ends'[s] = ends[s], restartFlag'[s] = restartFlag[s],
           \/ procs'[s] = AfterStart(s) /\ current'[s] = Last(s) + 1
                /\ button'[s] = "STOP"
           \/ procs'[s] = AfterStop(s) /\ current'[s] = 0 /\ button'[s] = "START"
    PROVE  NoticesOK(s)'
<1>1. /\ procs[s] = <<>> /\ ends[s] = 0 /\ ~restartFlag[s]
      /\ current[s] = 0 /\ ProcessesOK(s)
  BY DEF ServerInv, ProcessesOK, RefersToLast, Last
<1>2. Settled(s) /\ ~isRunning(s)
  BY <1>1 DEF Settled, isRunning
<1> QED BY <1>2, StartSettled, StopSettled

-----------------------------------------------------------------------------
(* A process ends, or its watcher goes on.                                 *)

\* What every such step leaves alone.
Spares(s) ==
    /\ UNCHANGED <<registered, current, button, restartFlag, ui, updated, env>>
    /\ \A t \in Server : t # s => procs'[t] = procs[t] /\ ends'[t] = ends[t]

\* The record of the process after Exit, Crash, WatcherBegins or WatcherPosts.
LEMMA RecordStep ==
    ASSUME ManagerTypes, NEW s \in Server, NEW i \in DOMAIN procs[s],
           Exit(s, i) \/ Crash(s, i) \/ WatcherBegins(s, i) \/ WatcherPosts(s, i)
    PROVE  LET r == procs'[s][i]
               p == procs[s][i]
           IN  /\ procs' = [procs EXCEPT ![s] = procs'[s]]
               /\ procs'[s] = [procs[s] EXCEPT ![i] = r] /\ r \in Process
               /\ r.held = p.held /\ r.destroyed = p.destroyed
               /\ Exit(s, i) \/ Crash(s, i) =>
                     r.watcher = p.watcher /\ ~r.alive /\ ends'[s] = ends[s]
               /\ WatcherBegins(s, i) =>
                     /\ r.alive = p.alive /\ ends'[s] = ends[s]
                     /\ r.watcher = (IF p.held THEN "waiting" ELSE "gone")
               /\ WatcherPosts(s, i) =>
                     r.alive = p.alive /\ r.watcher = "gone" /\ ends'[s] = ends[s] + 1
               /\ Spares(s)
<1> DEFINE p == procs[s][i]
           P == procs[s]
<1>1. /\ P \in Seq(Process) /\ procs \in [Server -> Seq(Process)]
      /\ ends \in [Server -> Nat] /\ p \in Process /\ DOMAIN P = 1..Len(P)
      /\ i \in 1..Len(P) /\ P \in [1..Len(P) -> Process]
  BY ProcsOf DEF ManagerTypes, Last
<1>2. CASE Exit(s, i) \/ Crash(s, i)
  <2> DEFINE r == [p EXCEPT !.alive = FALSE]
  <2>1. /\ r \in Process /\ r.held = p.held /\ r.destroyed = p.destroyed
        /\ r.watcher = p.watcher /\ ~r.alive
    BY <1>1 DEF Process
  <2>2. procs' = [procs EXCEPT ![s] = [P EXCEPT ![i] = r]]
    BY <1>2 DEF Exit, Crash
  <2>3. /\ UNCHANGED <<registered, current, ends, button, restartFlag, ui, updated, env>>
        /\ ~WatcherBegins(s, i) /\ ~WatcherPosts(s, i)
    <3>1. UNCHANGED <<registered, current, ends, button, restartFlag, ui, updated, env>>
      BY <1>2 DEF Exit, Crash, panels
    <3>2. p.alive /\ procs'[s][i] = r
      BY <1>1, <1>2, <2>2 DEF Exit, Crash
    <3>3. ~WatcherPosts(s, i)
      BY <3>2 DEF WatcherPosts
    <3>4. WatcherBegins(s, i) => procs'[s][i].alive
      BY <1>1, <3>2 DEF WatcherBegins, Process
    <3> QED BY <2>1, <3>1, <3>2, <3>3, <3>4
  <2>4. procs'[s] = [P EXCEPT ![i] = r] /\ procs'[s][i] = r
    BY <1>1, <2>2
  <2>5. Spares(s)
    BY <1>1, <2>2, <2>3 DEF Spares
  <2> HIDE DEF r
  <2> QED BY <2>1, <2>2, <2>3, <2>4, <2>5
<1>3. CASE WatcherBegins(s, i)
  <2> DEFINE w == IF p.held THEN "waiting" ELSE "gone"
             r == [p EXCEPT !.watcher = w]
  <2>1. /\ r \in Process /\ r.held = p.held /\ r.destroyed = p.destroyed
        /\ r.watcher = w /\ r.alive = p.alive /\ w # "new"
    BY <1>1 DEF Process
  <2>2. procs' = [procs EXCEPT ![s] = [P EXCEPT ![i] = r]]
    BY <1>3 DEF WatcherBegins
  <2>3. UNCHANGED <<registered, current, ends, button, restartFlag, ui, updated, env>>
    BY <1>3 DEF WatcherBegins, panels
  <2>4. procs'[s] = [P EXCEPT ![i] = r] /\ procs'[s][i] = r
    BY <1>1, <2>2
  <2>5. Spares(s)
    BY <1>1, <2>2, <2>3 DEF Spares
  <2>6. ~Exit(s, i) /\ ~Crash(s, i) /\ ~WatcherPosts(s, i)
    <3>1. p.watcher = "new"
      BY <1>3 DEF WatcherBegins
    <3>2. ~WatcherPosts(s, i)
      BY <3>1 DEF WatcherPosts
    <3>3. Exit(s, i) \/ Crash(s, i) => procs'[s][i].watcher = p.watcher
      BY <1>1 DEF Exit, Crash, Process
    <3> QED BY <2>1, <2>4, <3>1, <3>2, <3>3
  <2> HIDE DEF r
  <2> QED BY <2>1, <2>2, <2>3, <2>4, <2>5, <2>6
<1>4. CASE WatcherPosts(s, i)
  <2> DEFINE r == [p EXCEPT !.watcher = "gone"]
  <2>1. /\ r \in Process /\ r.held = p.held /\ r.destroyed = p.destroyed
        /\ r.watcher = "gone" /\ r.alive = p.alive
    BY <1>1 DEF Process
  <2>2. procs' = [procs EXCEPT ![s] = [P EXCEPT ![i] = r]]
    BY <1>4 DEF WatcherPosts
  <2>3. /\ UNCHANGED <<registered, current, button, restartFlag, ui, updated, env>>
        /\ ends' = [ends EXCEPT ![s] = ends[s] + 1]
    BY <1>4 DEF WatcherPosts, panels, Announced
  <2>4. procs'[s] = [P EXCEPT ![i] = r] /\ procs'[s][i] = r /\ ends'[s] = ends[s] + 1
    BY <1>1, <2>2, <2>3
  <2>5. Spares(s)
    BY <1>1, <2>2, <2>3 DEF Spares
  <2>6. ~Exit(s, i) /\ ~Crash(s, i) /\ ~WatcherBegins(s, i)
    BY <1>4 DEF WatcherPosts, Exit, Crash, WatcherBegins
  <2> HIDE DEF r
  <2> QED BY <2>1, <2>2, <2>3, <2>4, <2>5, <2>6
<1> QED BY <1>2, <1>3, <1>4

\* Such a step keeps what is known of the processes.
LEMMA RecordProcesses ==
    ASSUME ManagerTypes, NEW s \in Server, ProcessesOK(s), NEW i \in DOMAIN procs[s],
           Exit(s, i) \/ Crash(s, i) \/ WatcherBegins(s, i) \/ WatcherPosts(s, i)
    PROVE  ProcessesOK(s)' /\ Last(s)' = Last(s)
           /\ i \in 1..Last(s) /\ DOMAIN procs'[s] = 1..Last(s)
           /\ \A j \in 1..Last(s) : j # i => procs'[s][j] = procs[s][j]
<1> DEFINE r == procs'[s][i]
           p == procs[s][i]
<1>1. /\ i \in 1..Last(s) /\ procs[s] \in Seq(Process)
  BY ProcsOf
<1>2. /\ procs'[s] = [procs[s] EXCEPT ![i] = r] /\ r \in Process
      /\ r.held = p.held /\ r.destroyed = p.destroyed
      /\ UNCHANGED <<current, registered, ui>>
  BY RecordStep DEF Spares
<1>3. r.alive => p.alive
  <2>1. Exit(s, i) \/ Crash(s, i) => ~r.alive
    BY RecordStep
  <2>2. WatcherBegins(s, i) \/ WatcherPosts(s, i) => r.alive = p.alive
    BY RecordStep
  <2> HIDE DEF r, p
  <2> QED BY <2>1, <2>2
<1>4. r.held /\ r.alive => r.watcher # "gone"
  <2>1. CASE Exit(s, i) \/ Crash(s, i)
    BY <2>1, RecordStep
  <2>2. CASE WatcherBegins(s, i)
    BY <1>2, <2>2, RecordStep
  <2>3. CASE WatcherPosts(s, i)
    BY <2>3, RecordStep DEF WatcherPosts
  <2> QED BY <2>1, <2>2, <2>3
<1>5. procs'[s] \in Seq(Process)
  BY <1>1, <1>2, ProcessReplaced DEF Last
<1> HIDE DEF r
<1>6. /\ ProcessesOK(s)' /\ Last(s)' = Last(s)
      /\ \A j \in 1..Last(s) : j # i => procs'[s][j] = procs[s][j]
  BY <1>1, <1>2, <1>3, <1>4, ProcessGoesOn
<1>7. DOMAIN procs'[s] = 1..Last(s)
  BY <1>5, <1>6, LenProperties DEF Last
<1> QED BY <1>1, <1>6, <1>7

\* A process that was told to end does: the panel knew already.
LEMMA ExitNotices ==
    ASSUME ManagerTypes, NEW s \in Server, ServerInv(s), env.prompt,
           NEW i \in DOMAIN procs[s], Exit(s, i)
    PROVE  NoticesOK(s)'
<1>1. /\ Last(s)' = Last(s) /\ DOMAIN procs'[s] = 1..Last(s)
      /\ DOMAIN procs[s] = 1..Last(s) /\ i \in 1..Last(s)
      /\ \A j \in 1..Last(s) : j # i => procs'[s][j] = procs[s][j]
  BY RecordProcesses, ProcsOf DEF ServerInv
<1>2. /\ procs'[s][i].held = procs[s][i].held
      /\ procs'[s][i].watcher = procs[s][i].watcher
      /\ ~procs'[s][i].alive /\ procs[s][i].destroyed /\ procs[s][i].alive
      /\ ends'[s] = ends[s]
      /\ UNCHANGED <<registered, current, button, restartFlag, ui, updated, env>>
  BY ZenonT(40), RecordStep DEF Exit, Spares
<1>3. current[s] # i
  BY <1>1, <1>2 DEF ServerInv, ProcessesOK, RefersToLast
<1>4. current[s] = 0 \/ (current[s] \in 1..Last(s) /\ procs'[s][current[s]] = procs[s][current[s]])
  <2>1. current[s] \in Nat /\ Last(s) \in Nat /\ (current[s] = 0 \/ current[s] = Last(s))
    BY ProcsOf DEF ServerInv, ProcessesOK, RefersToLast
  <2> QED BY <1>1, <1>3, <2>1
<1>5. isRunning(s)' <=> isRunning(s)
  BY <1>2, <1>4 DEF isRunning
<1>6. Owed(s) => Owed(s)'
  BY <1>1, <1>2 DEF Owed
<1>7. \A j : Unposted(s, j)' <=> Unposted(s, j)
  BY <1>1, <1>2 DEF Unposted
<1>8. Pending(s)' = Pending(s)
  BY <1>1, <1>2, <1>7 DEF Pending, One
<1>9. \A j \in 1..Last(s) : /\ procs'[s][j].watcher = procs[s][j].watcher
                            /\ procs'[s][j].held = procs[s][j].held
  BY <1>1, <1>2
<1>10. WatchersMeet(s)'
  <2>1. InRestart(s)' <=> InRestart(s)
    BY <1>2 DEF InRestart
  <2> QED BY <1>1, <1>2, <1>9, <2>1 DEF ServerInv, WatchersMeet
<1>11. RestartGoesOn(s)'
  <2>1. ui = <<"stop", s>> => procs'[s][current[s]] = procs[s][current[s]]
    BY <1>4 DEF ServerInv, RestartGoesOn, isRunning
  <2> QED BY <1>2, <1>5, <1>6, <2>1 DEF ServerInv, RestartGoesOn, InRestart
<1>12. Swallows(s)'
  BY <1>2, <1>6 DEF ServerInv, Swallows
<1>13. PanelOK(s)'
  BY <1>2, <1>5, <1>8 DEF ServerInv, PanelOK, One
<1> QED BY <1>10, <1>11, <1>12, <1>13 DEF NoticesOK

\* A process ends by itself: its watcher will notify the panel.
LEMMA CrashNotices ==
    ASSUME ManagerTypes, NEW s \in Server, ServerInv(s), env.prompt,
           NEW i \in DOMAIN procs[s], Crash(s, i)
    PROVE  NoticesOK(s)'
<1>1. /\ Last(s)' = Last(s) /\ DOMAIN procs'[s] = 1..Last(s)
      /\ DOMAIN procs[s] = 1..Last(s) /\ i \in 1..Last(s)
      /\ \A j \in 1..Last(s) : j # i => procs'[s][j] = procs[s][j]
      /\ ProcessesOK(s) /\ Last(s) \in Nat /\ ends[s] \in Nat
  BY RecordProcesses, ProcsOf DEF ServerInv
<1>2. /\ procs'[s][i].held = procs[s][i].held
      /\ procs'[s][i].watcher = procs[s][i].watcher
      /\ ~procs'[s][i].alive /\ ends'[s] = ends[s]
      /\ UNCHANGED <<registered, current, button, restartFlag, ui, updated, env>>
  BY RecordStep DEF Spares
<1>3. /\ procs[s][i].alive /\ ~procs[s][i].destroyed /\ ui = <<"idle">>
  BY DEF Crash
<1>4. isRunning(s) /\ i = Last(s) /\ current[s] = i
  BY <1>1, <1>3, RunningIsLast
<1>5. procs[s][i].watcher # "gone"
  BY <1>1, <1>3 DEF ProcessesOK, Watched
<1>6. ~isRunning(s)'
  BY <1>2, <1>4 DEF isRunning
<1>7. Owed(s) => Owed(s)'
  BY <1>1, <1>2 DEF Owed
<1>8. \A j \in 1..Last(s) : /\ procs'[s][j].watcher = procs[s][j].watcher
                            /\ procs'[s][j].held = procs[s][j].held
  BY <1>1, <1>2
<1>9. WatchersMeet(s)'
  <2>1. InRestart(s)' <=> InRestart(s)
    BY <1>2 DEF InRestart
  <2> QED BY <1>1, <1>2, <1>8, <2>1 DEF ServerInv, WatchersMeet
<1>10. RestartGoesOn(s)'
  BY <1>2, <1>3, UiDiffer DEF RestartGoesOn, InRestart
<1>11. Swallows(s)'
  BY <1>2, <1>7 DEF ServerInv, Swallows
<1>12. PanelOK(s)'
  <2> SUFFICES ASSUME ~updated PROVE PanelOK(s)'
    BY <1>2 DEF PanelOK
  <2>1. /\ button[s] # "START"
        /\ button[s] = "STOP" => Pending(s) = One(restartFlag[s]) + 0
    BY <1>3, <1>4, UiDiffer DEF ServerInv, PanelOK, One
  <2>2. ~Unposted(s, i) /\ Unposted(s, i)'
    BY <1>1, <1>2, <1>3, <1>5 DEF Unposted
  <2>3. Unposted(s, i - 1)' <=> Unposted(s, i - 1)
    BY <1>1 DEF Unposted
  <2>4. Pending(s) = ends[s] + 0 + One(Unposted(s, i - 1))
    BY <1>4, <2>2 DEF Pending, One
  <2>5. Pending(s)' = ends[s] + 1 + One(Unposted(s, i - 1))
    BY <1>1, <1>2, <1>4, <2>2, <2>3 DEF Pending, One
  <2>6. Pending(s)' = Pending(s) + 1
    BY <1>1, <2>4, <2>5 DEF One
  <2> QED BY <1>2, <1>6, <2>1, <2>6 DEF PanelOK, One
<1> QED BY <1>9, <1>10, <1>11, <1>12 DEF NoticesOK

\* A watcher begins: while GrxUI is up, it finds its process.
LEMMA BeginNotices ==
    ASSUME ManagerTypes, NEW s \in Server, ServerInv(s), env.prompt,
           NEW i \in DOMAIN procs[s], WatcherBegins(s, i)
    PROVE  NoticesOK(s)'
<1>1. /\ Last(s)' = Last(s) /\ DOMAIN procs'[s] = 1..Last(s)
      /\ DOMAIN procs[s] = 1..Last(s) /\ i \in 1..Last(s)
      /\ \A j \in 1..Last(s) : j # i => procs'[s][j] = procs[s][j]
      /\ Last(s) \in Nat
  BY RecordProcesses, ProcsOf DEF ServerInv
<1>2. /\ procs'[s][i].held = procs[s][i].held
      /\ procs'[s][i].destroyed = procs[s][i].destroyed
      /\ procs'[s][i].alive = procs[s][i].alive /\ ends'[s] = ends[s]
      /\ procs'[s][i].watcher = (IF procs[s][i].held THEN "waiting" ELSE "gone")
      /\ UNCHANGED <<registered, current, button, restartFlag, ui, updated, env>>
  BY ZenonT(40), RecordStep DEF Spares
<1>3. procs[s][i].watcher = "new"
  BY DEF WatcherBegins
<1>4. current[s] = 0 \/ current[s] \in 1..Last(s)
  BY ProcsOf DEF ServerInv, ProcessesOK, RefersToLast
<1>5. isRunning(s)' <=> isRunning(s)
  <2>1. current[s] # 0 => procs'[s][current[s]].alive = procs[s][current[s]].alive
    BY <1>1, <1>2, <1>4
  <2> QED BY <1>2, <2>1 DEF isRunning
<1>6. Owed(s) => Owed(s)'
  BY <1>1, <1>2, <1>3 DEF Owed
<1>7. ui # <<"quit">> => procs'[s][i].watcher = "waiting"
  BY <1>1, <1>2, <1>3 DEF ServerInv, WatchersMeet
<1>8. WatchersMeet(s)'
  <2>1. InRestart(s)' <=> InRestart(s)
    BY <1>2 DEF InRestart
  <2>2. \A j \in 1..Last(s) :
          /\ procs[s][j].watcher = "gone" => procs'[s][j].watcher = "gone"
          /\ procs'[s][j].watcher = "new" => procs[s][j].watcher = "new"
          /\ procs'[s][j].held = procs[s][j].held
    BY <1>1, <1>2, <1>3
  <2> QED BY <1>1, <1>2, <2>1, <2>2 DEF ServerInv, WatchersMeet
<1>9. RestartGoesOn(s)'
  <2>1. ui = <<"stop", s>> => procs'[s][current[s]] = procs[s][current[s]]
    BY <1>1, <1>3, <1>4 DEF ServerInv, RestartGoesOn, isRunning
  <2> QED BY <1>2, <1>5, <1>6, <2>1 DEF ServerInv, RestartGoesOn, InRestart
<1>10. Swallows(s)'
  BY <1>2, <1>6 DEF ServerInv, Swallows
<1>11. PanelOK(s)'
  <2> SUFFICES ASSUME ui # <<"quit">> PROVE PanelOK(s)'
    BY <1>2 DEF PanelOK
  <2>1. \A j : Unposted(s, j)' <=> Unposted(s, j)
    BY <1>1, <1>2, <1>3, <1>7 DEF Unposted
  <2>2. Pending(s)' = Pending(s)
    BY <1>1, <1>2, <2>1 DEF Pending, One
  <2> QED BY <1>2, <1>5, <2>2 DEF ServerInv, PanelOK, One
<1> QED BY <1>8, <1>9, <1>10, <1>11 DEF NoticesOK

\* A watcher hands the end of its process to the UI thread.
LEMMA PostNotices ==
    ASSUME ManagerTypes, NEW s \in Server, ServerInv(s), env.prompt,
           NEW i \in DOMAIN procs[s], WatcherPosts(s, i)
    PROVE  NoticesOK(s)'
<1>1. /\ Last(s)' = Last(s) /\ DOMAIN procs'[s] = 1..Last(s)
      /\ DOMAIN procs[s] = 1..Last(s) /\ i \in 1..Last(s)
      /\ \A j \in 1..Last(s) : j # i => procs'[s][j] = procs[s][j]
      /\ Last(s) \in Nat /\ ends[s] \in Nat
  BY RecordProcesses, ProcsOf DEF ServerInv
<1>2. /\ procs'[s][i].held = procs[s][i].held
      /\ procs'[s][i].alive = procs[s][i].alive /\ ends'[s] = ends[s] + 1
      /\ procs'[s][i].watcher = "gone"
      /\ UNCHANGED <<registered, current, button, restartFlag, ui, updated, env>>
  BY RecordStep DEF Spares
<1>3. procs[s][i].watcher = "waiting" /\ ~procs[s][i].alive
  BY DEF WatcherPosts
<1>4. current[s] = 0 \/ (current[s] \in 1..Last(s) /\ current[s] = Last(s))
  BY ProcsOf DEF ServerInv, ProcessesOK, RefersToLast
<1>5. isRunning(s)' <=> isRunning(s)
  <2>1. current[s] # 0 => procs'[s][current[s]].alive = procs[s][current[s]].alive
    BY <1>1, <1>2, <1>4
  <2> QED BY <1>2, <2>1 DEF isRunning
<1>6. Owed(s)'
  BY <1>1, <1>2 DEF Owed
<1>7. WatchersMeet(s)'
  <2>1. InRestart(s)' <=> InRestart(s)
    BY <1>2 DEF InRestart
  <2>2. \A j \in 1..Last(s) :
          /\ procs[s][j].watcher = "gone" => procs'[s][j].watcher = "gone"
          /\ procs'[s][j].watcher = "new" => procs[s][j].watcher = "new"
          /\ procs'[s][j].held = procs[s][j].held
    BY <1>1, <1>2, <1>3
  <2> QED BY <1>1, <1>2, <2>1, <2>2 DEF ServerInv, WatchersMeet
<1>8. ui # <<"stop", s>>
  <2> SUFFICES ASSUME ui = <<"stop", s>> PROVE FALSE
    OBVIOUS
  <2>1. InRestart(s) /\ ui # <<"quit">> /\ isRunning(s)
    BY UiDiffer DEF InRestart, ServerInv, RestartGoesOn
  <2>2. ~(i < Last(s))
    BY <1>1, <1>3, <2>1 DEF ServerInv, WatchersMeet
  <2>3. i = Last(s)
    BY <1>1, <2>2
  <2> QED BY <1>3, <1>4, <2>1, <2>3 DEF isRunning
<1>9. RestartGoesOn(s)'
  BY <1>2, <1>5, <1>6, <1>8 DEF ServerInv, RestartGoesOn, InRestart
<1>10. Swallows(s)'
  BY <1>6 DEF Swallows
<1>11. PanelOK(s)'
  <2> SUFFICES ASSUME ui # <<"quit">> PROVE PanelOK(s)'
    BY <1>2 DEF PanelOK
  <2>1. i = Last(s) \/ i = Last(s) - 1
    <3>1. ~(i < Last(s) - 1)
      BY <1>1, <1>3 DEF ServerInv, WatchersMeet
    <3> QED BY <1>1, <3>1
  <2>2. Unposted(s, i) /\ ~Unposted(s, i)'
    BY <1>1, <1>2, <1>3 DEF Unposted
  <2>3. \A j : j # i => (Unposted(s, j)' <=> Unposted(s, j))
    BY <1>1 DEF Unposted
  <2>4. CASE i = Last(s)
    <3>1. Pending(s) = ends[s] + 1 + One(Unposted(s, i - 1))
      BY <2>2, <2>4 DEF Pending, One
    <3>2. Pending(s)' = ends[s] + 1 + 0 + One(Unposted(s, i - 1))
      <4>1. i - 1 # i
        BY <1>1
      <4> QED BY <1>1, <1>2, <2>2, <2>3, <2>4, <4>1 DEF Pending, One
    <3>3. Pending(s)' = Pending(s)
      BY <1>1, <3>1, <3>2 DEF One
    <3> QED BY <1>2, <1>5, <3>3 DEF ServerInv, PanelOK, One
  <2>5. CASE i = Last(s) - 1
    <3>0. i + 1 = Last(s) /\ i + 1 # i /\ (i + 1) - 1 = i
      BY <1>1, <2>5
    <3>1. Pending(s) = ends[s] + One(Unposted(s, i + 1)) + 1
      BY <2>2, <2>5, <3>0 DEF Pending, One
    <3>2. Pending(s)' = ends[s] + 1 + One(Unposted(s, i + 1)) + 0
      BY <1>1, <1>2, <2>2, <2>3, <2>5, <3>0 DEF Pending, One
    <3>3. Pending(s)' = Pending(s)
      BY <1>1, <3>1, <3>2 DEF One
    <3> QED BY <1>2, <1>5, <3>3 DEF ServerInv, PanelOK, One
  <2> QED BY <2>1, <2>4, <2>5
<1> QED BY <1>7, <1>9, <1>10, <1>11 DEF NoticesOK

-----------------------------------------------------------------------------
(* The steps of toggleProcess().                                           *)

\* The processes of the other servers stay as they are.
Apart(s) ==
    \A t \in Server : t # s => /\ procs'[t] = procs[t] /\ current'[t] = current[t]
                               /\ t \in registered' <=> t \in registered

\* The types of what toggleProcess() changes.
ProcessTypes ==
    /\ registered' \subseteq Server /\ procs' \in [Server -> Seq(Process)]
    /\ current' \in [Server -> Nat]

\* What each part of toggleProcess() does to its server.
LEMMA ToggleFacts ==
    ASSUME ManagerInv, NEW s \in Server
    PROVE  /\ ToggleStop(s) => /\ isRunning(s) /\ procs'[s] = AfterStop(s)
                               /\ current'[s] = 0
                               /\ ProcessTypes /\ Apart(s)
           /\ ToggleStart(s) => /\ ~isRunning(s) /\ procs'[s] = AfterStart(s)
                                /\ current'[s] = Last(s) + 1 /\ s \in registered'
                                /\ ProcessTypes /\ Apart(s)
           /\ ToggleStartFails(s) => /\ ~isRunning(s) /\ procs'[s] = AfterStop(s)
                                     /\ procs'[s] = procs[s] /\ current'[s] = 0
                                     /\ ProcessTypes /\ Apart(s)
<1>1. ManagerTypes /\ ProcessesOK(s) /\ RefersToLast(s)
  BY DEF ManagerInv, ServerInv, ProcessesOK
<1>2. /\ AfterStop(s) \in Seq(Process) /\ Len(AfterStop(s)) = Last(s)
      /\ ~isRunning(s) => AfterStop(s) = procs[s]
      /\ isRunning(s) => AfterStop(s) = Stopped(s)
  BY <1>1, AfterStopFacts
<1>3. /\ procs \in [Server -> Seq(Process)] /\ current \in [Server -> Nat]
      /\ registered \subseteq Server /\ Last(s) \in Nat
  BY <1>1, ProcsOf DEF ManagerTypes
<1>4. AfterStart(s) \in Seq(Process)
  BY <1>2, StartedFacts DEF AfterStart
<1>5. ~isRunning(s) => Started(s) = AfterStart(s)
  BY <1>2 DEF Started, AfterStart
<1>6. ASSUME ToggleStop(s)
      PROVE  /\ isRunning(s) /\ procs'[s] = AfterStop(s) /\ current'[s] = 0
             /\ ProcessTypes /\ Apart(s)
  BY <1>2, <1>3, <1>6 DEF ToggleStop, ProcessTypes, Apart
<1>7. ASSUME ToggleStart(s)
      PROVE  /\ ~isRunning(s) /\ procs'[s] = AfterStart(s)
             /\ current'[s] = Last(s) + 1 /\ s \in registered'
             /\ ProcessTypes /\ Apart(s)
  <2>1. /\ ~isRunning(s) /\ registered' = registered \cup {s}
        /\ procs' = [procs EXCEPT ![s] = AfterStart(s)]
        /\ current' = [current EXCEPT ![s] = Last(s) + 1]
    BY <1>5, <1>7 DEF ToggleStart, Last
  <2> QED BY <1>3, <1>4, <2>1 DEF ProcessTypes, Apart
<1>8. ASSUME ToggleStartFails(s)
      PROVE  /\ ~isRunning(s) /\ procs'[s] = AfterStop(s)
             /\ procs'[s] = procs[s] /\ current'[s] = 0
             /\ ProcessTypes /\ Apart(s)
  BY <1>2, <1>3, <1>8 DEF ToggleStartFails, ProcessTypes, Apart
<1> QED BY <1>6, <1>7, <1>8

\* One step of toggleProcess() keeps what is known of the processes.
LEMMA ToggleProcesses ==
    ASSUME ManagerInv, NEW s \in Server, ui' # <<"boot">>,
           ToggleStop(s) \/ ToggleStart(s) \/ ToggleStartFails(s)
    PROVE  ProcessesOK(s)' /\ ProcessTypes /\ Apart(s)
<1>1. ManagerTypes /\ ProcessesOK(s)
  BY DEF ManagerInv, ServerInv
<1>2. CASE ToggleStop(s) \/ ToggleStartFails(s)
  BY <1>1, <1>2, ToggleFacts, StopKeeps
<1>3. CASE ToggleStart(s)
  BY <1>1, <1>3, ToggleFacts, StartKeeps
<1> QED BY <1>2, <1>3

\* A step about one server, put together.
LEMMA OneServer ==
    ASSUME ManagerInv, NEW s \in Server, ManagerTypes', env' = env,
           ProcessesOK(s)', env.prompt => NoticesOK(s)',
           \A t \in Server : t # s => Untouched(t)
    PROVE  ManagerInv'
<1>1. ServerInv(s)'
  BY HastyUser DEF ServerInv, NoticesOK
<1>2. \A t \in Server : t # s => ServerInv(t)'
  BY UntouchedKeeps DEF ManagerInv
<1>3. Server' = Server
  BY DEF Server
<1> QED BY <1>1, <1>2, <1>3 DEF ManagerInv

\* What the UI thread may turn to, seen from another server.
LEMMA OtherUi ==
    ASSUME NEW s, NEW t, t # s, ui \in {<<"idle">>, <<"stop", s>>, <<"start", s>>},
           ui' \in {<<"idle">>, <<"stop", s>>, <<"start", s>>}
    PROVE  /\ ~InRestart(t) /\ ~InRestart(t)'
           /\ ui' # <<"boot">> /\ ui # <<"quit">>
BY UiDiffer DEF InRestart

\* A toggle, alone or as part of a restart: the types, and the other servers.
LEMMA ToggleFrame ==
    ASSUME ManagerInv, NEW s \in Server,
           ui \in {<<"idle">>, <<"stop", s>>, <<"start", s>>},
           ui' \in {<<"idle">>, <<"stop", s>>, <<"start", s>>},
           ProcessTypes, Apart(s), UNCHANGED <<ends, updated, env>>,
           UNCHANGED button \/ Shows(s, "START") \/ Shows(s, "STOP"),
           restartFlag' = restartFlag \/ restartFlag' = [restartFlag EXCEPT ![s] = TRUE]
    PROVE  ManagerTypes' /\ \A t \in Server : t # s => Untouched(t)
<1>1. ManagerTypes /\ Server' = Server
  BY DEF ManagerInv, Server
<1>2. /\ button' \in [Server -> {"START", "STOP"}]
      /\ \A t \in Server : t # s => button'[t] = button[t]
  BY <1>1 DEF ManagerTypes, Shows
<1>3. /\ restartFlag' \in [Server -> BOOLEAN]
      /\ \A t \in Server : t # s => restartFlag'[t] = restartFlag[t]
  BY <1>1 DEF ManagerTypes
<1>4. ManagerTypes'
  <2>1. ui' \in {<<"boot">>, <<"idle">>, <<"quit">>} \cup ({"stop", "start"} \X Server)
    OBVIOUS
  <2>2. env' \in Settings /\ ends' \in [Server -> Nat] /\ updated' \in BOOLEAN
    BY <1>1 DEF ManagerTypes
  <2> QED BY <1>1, <1>2, <1>3, <2>1, <2>2 DEF ManagerTypes, ProcessTypes
<1>5. ASSUME NEW t \in Server, t # s PROVE Untouched(t)
  <2>1. ~InRestart(t) /\ ~InRestart(t)' /\ ui' # <<"boot">> /\ ui # <<"quit">>
    BY <1>5, OtherUi
  <2> QED BY <1>2, <1>3, <1>5, <2>1 DEF Untouched, Apart
<1> QED BY <1>4, <1>5

-----------------------------------------------------------------------------
(* Each action keeps the invariant.                                        *)

\* A click on the button, or on the restart button for a process that has ended.
LEMMA ToggleKeeps ==
    ASSUME ManagerInv, NEW s \in Server, Toggle(s) \/ RestartEnded(s)
    PROVE  ManagerInv'
<1>1. /\ ui = <<"idle">> /\ ui' = <<"idle">> /\ (env.prompt => Settled(s))
      /\ UNCHANGED <<ends, restartFlag, updated, env>>
      /\ \/ ToggleStop(s) /\ Shows(s, "START")
         \/ ToggleStart(s) /\ Shows(s, "STOP")
         \/ ToggleStartFails(s) /\ Shows(s, "START")
  BY DEF Toggle, RestartEnded, UserActs
<1>2. ManagerTypes /\ ServerInv(s) /\ button \in [Server -> {"START", "STOP"}]
  BY DEF ManagerInv, ManagerTypes
<1>3. ProcessesOK(s)' /\ ProcessTypes /\ Apart(s)
  BY <1>1, UiDiffer, ToggleProcesses
<1>4. ManagerTypes' /\ \A t \in Server : t # s => Untouched(t)
  BY <1>1, <1>3, ToggleFrame
<1>5. ASSUME env.prompt PROVE NoticesOK(s)'
  <2>1. CASE (ToggleStop(s) \/ ToggleStartFails(s)) /\ Shows(s, "START")
    <3>1. button'[s] = "START"
      BY <1>2, <2>1 DEF Shows
    <3>2. procs'[s] = AfterStop(s) /\ current'[s] = 0
      BY <2>1, ToggleFacts
    <3> QED BY <1>1, <1>2, <1>5, <3>1, <3>2, StopSettled
  <2>2. CASE ToggleStart(s) /\ Shows(s, "STOP")
    <3>1. button'[s] = "STOP"
      BY <1>2, <2>2 DEF Shows
    <3>2. ~isRunning(s) /\ procs'[s] = AfterStart(s) /\ current'[s] = Last(s) + 1
      BY <2>2, ToggleFacts
    <3> QED BY <1>1, <1>2, <1>5, <3>1, <3>2, StartSettled
  <2> QED BY <1>1, <2>1, <2>2
<1> QED BY <1>1, <1>3, <1>4, <1>5, OneServer

\* A restart begins.
LEMMA RestartKeeps ==
    ASSUME ManagerInv, NEW s \in Server, Restart(s)
    PROVE  ManagerInv'
<1>1. /\ ui = <<"idle">> /\ ui' = <<"stop", s>>
      /\ UNCHANGED <<registered, current, procs, ends, button, restartFlag, updated, env>>
  BY DEF Restart, UserActs, panels
<1>2. ManagerTypes /\ ServerInv(s)
  BY DEF ManagerInv
<1>3. ProcessesOK(s)'
  <2>1. Last(s)' = Last(s)
    BY <1>1 DEF Last
  <2> QED BY <1>1, <1>2, <2>1, UiDiffer
          DEF ServerInv, ProcessesOK, RefersToLast, Reachable, Watched
<1>4. ProcessTypes /\ Apart(s)
  BY <1>1, <1>2 DEF ProcessTypes, Apart, ManagerTypes
<1>5. ManagerTypes' /\ \A t \in Server : t # s => Untouched(t)
  BY <1>1, <1>4, ToggleFrame
<1>6. env.prompt => NoticesOK(s)'
  BY <1>2, RestartBegins
<1> QED BY <1>1, <1>3, <1>5, <1>6, OneServer

\* The first half of a restart.
LEMMA RestartStopKeeps ==
    ASSUME ManagerInv, NEW s \in Server, RestartStop(s)
    PROVE  ManagerInv'
<1>1. /\ ui = <<"stop", s>> /\ UNCHANGED <<ends, restartFlag, updated, env>>
      /\ \/ ToggleStop(s) /\ ui' = <<"start", s>> /\ UNCHANGED button
         \/ ToggleStart(s) /\ ui' = <<"idle">> /\ Shows(s, "STOP")
         \/ ToggleStartFails(s) /\ ui' = <<"start", s>> /\ UNCHANGED button
  BY DEF RestartStop
<1>2. ManagerTypes /\ ServerInv(s)
  BY DEF ManagerInv
<1>3. ProcessesOK(s)' /\ ProcessTypes /\ Apart(s)
  <2>1. ui' # <<"boot">>
    BY <1>1, UiDiffer
  <2> QED BY <1>1, <2>1, ToggleProcesses
<1>4. ManagerTypes' /\ \A t \in Server : t # s => Untouched(t)
  BY <1>1, <1>3, ToggleFrame
<1>5. ASSUME env.prompt PROVE NoticesOK(s)'
  <2>1. isRunning(s)
    BY <1>1, <1>2, <1>5 DEF ServerInv, RestartGoesOn
  <2>2. ToggleStop(s) /\ ui' = <<"start", s>> /\ UNCHANGED button
    BY <1>1, <2>1 DEF ToggleStart, ToggleStartFails
  <2>3. procs'[s] = AfterStop(s) /\ current'[s] = 0
    BY <2>2, ToggleFacts
  <2> QED BY <1>1, <1>2, <1>5, <2>1, <2>2, <2>3, RestartStops
<1> QED BY <1>1, <1>3, <1>4, <1>5, OneServer

\* The second half of a restart.
LEMMA RestartStartKeeps ==
    ASSUME ManagerInv, NEW s \in Server, RestartStart(s)
    PROVE  ManagerInv'
<1>1. /\ ui = <<"start", s>> /\ ui' = <<"idle">> /\ UNCHANGED <<ends, updated, env>>
      /\ \/ /\ ToggleStart(s) /\ Shows(s, "STOP")
            /\ restartFlag' = [restartFlag EXCEPT ![s] = TRUE]
         \/ ToggleStartFails(s) /\ Shows(s, "START") /\ UNCHANGED restartFlag
  BY DEF RestartStart, FlagAfterRestart
<1>2. /\ ManagerTypes /\ ServerInv(s) /\ button \in [Server -> {"START", "STOP"}]
      /\ restartFlag \in [Server -> BOOLEAN]
  BY DEF ManagerInv, ManagerTypes
<1>3. ProcessesOK(s)' /\ ProcessTypes /\ Apart(s)
  <2>1. ui' # <<"boot">>
    BY <1>1, UiDiffer
  <2> QED BY <1>1, <2>1, ToggleProcesses
<1>4. ManagerTypes' /\ \A t \in Server : t # s => Untouched(t)
  BY <1>1, <1>3, ToggleFrame
<1>5. ASSUME env.prompt PROVE NoticesOK(s)'
  <2>1. CASE /\ ToggleStart(s) /\ Shows(s, "STOP")
             /\ restartFlag' = [restartFlag EXCEPT ![s] = TRUE]
    <3>1. button'[s] = "STOP" /\ restartFlag'[s] = TRUE
      BY <1>2, <2>1 DEF Shows
    <3>2. ~isRunning(s) /\ procs'[s] = AfterStart(s) /\ current'[s] = Last(s) + 1
      BY <2>1, ToggleFacts
    <3> QED BY <1>1, <1>2, <1>5, <3>1, <3>2, RestartStarts
  <2>2. CASE ToggleStartFails(s) /\ Shows(s, "START") /\ UNCHANGED restartFlag
    <3>1. button'[s] = "START"
      BY <1>2, <2>2 DEF Shows
    <3>2. procs'[s] = procs[s] /\ current'[s] = 0
      BY <2>2, ToggleFacts
    <3> QED BY <1>1, <1>2, <1>5, <2>2, <3>1, <3>2, RestartFails
  <2> QED BY <1>1, <2>1, <2>2
<1> QED BY <1>1, <1>3, <1>4, <1>5, OneServer

\* A notification arrives.
LEMMA ProcessEndKeeps ==
    ASSUME ManagerInv, NEW s \in Server, ProcessEnd(s)
    PROVE  ManagerInv'
<1>1. /\ ui = <<"idle">> /\ ends[s] > 0
      /\ ends' = [ends EXCEPT ![s] = ends[s] - 1]
      /\ Shows(s, "START") \/ UNCHANGED button
      /\ restartFlag' = [restartFlag EXCEPT ![s] = FALSE]
      /\ UNCHANGED <<registered, current, procs, ui, updated, env>>
  BY DEF ProcessEnd, FlagAfterEnd
<1>2. ManagerTypes /\ ServerInv(s) /\ Server' = Server
  BY <1>1 DEF ManagerInv, Server
<1>3. ProcessesOK(s)'
  <2>1. Last(s)' = Last(s)
    BY <1>1 DEF Last
  <2> QED BY <1>1, <1>2, <2>1, UiDiffer
          DEF ServerInv, ProcessesOK, RefersToLast, Reachable, Watched
<1>4. /\ button' \in [Server -> {"START", "STOP"}]
      /\ \A t \in Server : t # s => button'[t] = button[t]
  BY <1>1, <1>2 DEF ManagerTypes, Shows
<1>5. /\ restartFlag' \in [Server -> BOOLEAN]
      /\ \A t \in Server : t # s => restartFlag'[t] = restartFlag[t]
  BY <1>1, <1>2 DEF ManagerTypes
<1>6. /\ ends' \in [Server -> Nat]
      /\ \A t \in Server : t # s => ends'[t] = ends[t]
  BY <1>1, <1>2 DEF ManagerTypes
<1>7. ManagerTypes'
  BY <1>1, <1>2, <1>4, <1>5, <1>6 DEF ManagerTypes
<1>8. \A t \in Server : t # s => Untouched(t)
  BY <1>1, <1>4, <1>5, <1>6 DEF Untouched
<1>9. env.prompt => NoticesOK(s)'
  BY <1>2, EndArrives
<1> QED BY <1>1, <1>3, <1>7, <1>8, <1>9, OneServer

\* A process ends, or a watcher goes on.
LEMMA RecordKeeps ==
    ASSUME ManagerInv, NEW s \in Server, NEW i \in DOMAIN procs[s],
           Exit(s, i) \/ Crash(s, i) \/ WatcherBegins(s, i) \/ WatcherPosts(s, i)
    PROVE  ManagerInv'
<1>1. ManagerTypes /\ ServerInv(s) /\ ProcessesOK(s)
  BY DEF ManagerInv, ServerInv
<1>2. Spares(s) /\ procs' = [procs EXCEPT ![s] = procs'[s]]
  BY <1>1, RecordStep
<1>3. Server' = Server
  BY <1>2 DEF Spares, Server
<1>4. ProcessesOK(s)'
  BY <1>1, RecordProcesses
<1>5. procs' \in [Server -> Seq(Process)]
  <2>1. procs'[s] \in Seq(Process)
    <3>1. /\ procs[s] \in Seq(Process) /\ i \in 1..Len(procs[s])
      BY <1>1, ProcsOf DEF Last
    <3>2. /\ procs'[s] = [procs[s] EXCEPT ![i] = procs'[s][i]]
          /\ procs'[s][i] \in Process
      BY <1>1, RecordStep
    <3> QED BY <3>1, <3>2, ProcessReplaced
  <2>2. procs \in [Server -> Seq(Process)]
    BY <1>1 DEF ManagerTypes
  <2>3. PICK Q \in Seq(Process) : procs' = [procs EXCEPT ![s] = Q]
    BY <1>2, <2>1
  <2> QED BY <2>2, <2>3
<1>6. ends' \in [Server -> Nat]
  <2>1. ends' = ends \/ ends' = [ends EXCEPT ![s] = ends[s] + 1]
    BY DEF Exit, Crash, WatcherBegins, WatcherPosts, Announced
  <2>2. ends \in [Server -> Nat] /\ ends[s] + 1 \in Nat
    BY <1>1 DEF ManagerTypes
  <2> QED BY <2>1, <2>2
<1>7. ManagerTypes'
  BY <1>1, <1>2, <1>3, <1>5, <1>6 DEF ManagerTypes, Spares
<1>8. \A t \in Server : t # s => Untouched(t)
  BY <1>2 DEF Spares, Untouched
<1>9. env.prompt => NoticesOK(s)'
  BY <1>1, ExitNotices, CrashNotices, BeginNotices, PostNotices
<1>10. env' = env
  BY <1>2 DEF Spares
<1> QED BY <1>4, <1>7, <1>8, <1>9, <1>10, OneServer

\* A step about all servers, put together.
LEMMA AllServers ==
    ASSUME ManagerInv, ManagerTypes', env' = env,
           \A s \in Server : ProcessesOK(s)' /\ (env.prompt => NoticesOK(s)')
    PROVE  ManagerInv'
<1>1. \A s \in Server : ServerInv(s)'
  BY HastyUser DEF ServerInv, NoticesOK
<1>2. Server' = Server
  BY DEF Server
<1> QED BY <1>1, <1>2 DEF ManagerInv

\* The types after a step about all servers.
LEMMA AllTypes ==
    ASSUME ManagerInv, env' = env, registered' \subseteq Server,
           procs' \in [Server -> Seq(Process)], current' \in [Server -> Nat],
           ends' = ends, button' \in [Server -> {"START", "STOP"}],
           restartFlag' = restartFlag, updated' \in BOOLEAN,
           ui' \in {<<"idle">>, <<"quit">>}
    PROVE  ManagerTypes'
<1>1. ManagerTypes /\ Server' = Server
  BY DEF ManagerInv, Server
<1> QED BY <1>1 DEF ManagerTypes

\* The processes of a server after stop() and start() are processes.
LEMMA AfterTypes ==
    ASSUME ManagerInv, NEW s \in Server
    PROVE  /\ AfterStop(s) \in Seq(Process) /\ AfterStart(s) \in Seq(Process)
           /\ Last(s) \in Nat /\ current[s] \in Nat /\ procs[s] \in Seq(Process)
           /\ ManagerTypes /\ ServerInv(s) /\ ProcessesOK(s)
<1>1. ManagerTypes /\ ServerInv(s) /\ ProcessesOK(s) /\ RefersToLast(s)
  BY DEF ManagerInv, ServerInv, ProcessesOK
<1>2. AfterStop(s) \in Seq(Process)
  BY <1>1, AfterStopFacts
<1>3. AfterStart(s) \in Seq(Process)
  BY <1>2, StartedFacts DEF AfterStart
<1> QED BY <1>1, <1>2, <1>3, ProcsOf

\* GrxUI comes up.
LEMMA BootStep ==
    ASSUME ManagerInv, NEW S \in SUBSET env.autoStart, Boot(S)
    PROVE  ManagerInv'
<1>1. /\ ui = <<"boot">> /\ ui' = <<"idle">> /\ registered' = Server
      /\ procs' = [s \in Server |-> IF s \in S THEN Started(s) ELSE procs[s]]
      /\ current' = [s \in Server |-> IF s \in S THEN 1 ELSE 0]
      /\ button' = [s \in Server |-> IF s \in S THEN "STOP" ELSE "START"]
      /\ UNCHANGED <<ends, restartFlag, updated, env>>
  BY DEF Boot, AutoStarts
<1>2. ASSUME NEW s \in Server
      PROVE  /\ AfterStop(s) = procs[s] /\ Started(s) = AfterStart(s) /\ Last(s) = 0
  <2>1. procs[s] = <<>> /\ current[s] = 0 /\ RefersToLast(s) /\ ManagerTypes
    BY <1>1 DEF ManagerInv, ServerInv, ProcessesOK, RefersToLast, Last
  <2>2. ~isRunning(s)
    BY <2>1 DEF isRunning
  <2>3. AfterStop(s) = procs[s]
    BY <2>1, <2>2, AfterStopFacts
  <2> QED BY <2>1, <2>3 DEF Started, AfterStart, Last
<1>3. ManagerTypes'
  <2>1. procs' \in [Server -> Seq(Process)]
    BY <1>1, <1>2, AfterTypes
  <2>2. current' \in [Server -> Nat] /\ button' \in [Server -> {"START", "STOP"}]
    BY <1>1
  <2>3. updated' \in BOOLEAN
    BY <1>1 DEF ManagerInv, ManagerTypes
  <2> QED BY <1>1, <2>1, <2>2, <2>3, AllTypes
<1>4. ASSUME NEW s \in Server
      PROVE  ProcessesOK(s)' /\ (env.prompt => NoticesOK(s)')
  <2>0. ui' # <<"boot">>
    BY <1>1, UiDiffer
  <2>a. ManagerTypes /\ ServerInv(s) /\ ProcessesOK(s)
    BY AfterTypes
  <2>1. CASE s \in S
    <3>1. /\ procs'[s] = AfterStart(s) /\ current'[s] = Last(s) + 1
          /\ button'[s] = "STOP" /\ s \in registered'
      BY <1>1, <1>2, <2>1
    <3>2. ProcessesOK(s)'
      BY <2>0, <2>a, <3>1, StartKeeps
    <3>3. env.prompt => NoticesOK(s)'
      BY <1>1, <2>a, <3>1, BootKeeps
    <3> QED BY <3>2, <3>3
  <2>2. CASE s \notin S
    <3>1. procs'[s] = AfterStop(s) /\ current'[s] = 0 /\ button'[s] = "START"
      BY <1>1, <1>2, <2>2
    <3>2. ProcessesOK(s)'
      BY <2>0, <2>a, <3>1, StopKeeps
    <3>3. env.prompt => NoticesOK(s)'
      BY <1>1, <2>a, <3>1, BootKeeps
    <3> QED BY <3>2, <3>3
  <2> QED BY <2>1, <2>2
<1> QED BY <1>1, <1>3, <1>4, AllServers

\* The name server was changed: all servers are stopped, and some are started.
LEMMA RestartServersStep ==
    ASSUME ManagerInv, NEW S \in SUBSET env.autoStart, RestartServers(S)
    PROVE  ManagerInv'
<1>1. /\ ui = <<"idle">> /\ ui' = <<"idle">> /\ registered = Server
      /\ registered' = registered
      /\ env.prompt => \A s \in Server : Settled(s)
      /\ procs' = [s \in Server |-> IF s \in S THEN AfterStart(s) ELSE AfterStop(s)]
      /\ current' = [s \in Server |-> IF s \in S THEN Last(s) + 1 ELSE 0]
      /\ updated' = TRUE /\ UNCHANGED <<ends, button, restartFlag, env>>
  BY DEF RestartServers, AfterStart, Last, panels
<1>2. ManagerTypes'
  <2>1. procs' \in [Server -> Seq(Process)] /\ current' \in [Server -> Nat]
    BY <1>1, AfterTypes
  <2>2. button' \in [Server -> {"START", "STOP"}]
    BY <1>1 DEF ManagerInv, ManagerTypes
  <2> QED BY <1>1, <2>1, <2>2, AllTypes
<1>3. ASSUME NEW s \in Server
      PROVE  ProcessesOK(s)' /\ (env.prompt => NoticesOK(s)')
  <2>0. ui' # <<"boot">>
    BY <1>1, UiDiffer
  <2>a. ManagerTypes /\ ServerInv(s) /\ ProcessesOK(s)
    BY AfterTypes
  <2>b. updated' /\ ends'[s] = ends[s] /\ restartFlag'[s] = restartFlag[s]
        /\ s \in registered' /\ (env.prompt => Settled(s)) /\ env' = env
    BY <1>1
  <2>1. CASE s \in S
    <3>1. procs'[s] = AfterStart(s) /\ current'[s] = Last(s) + 1
      BY <1>1, <2>1
    <3>2. ProcessesOK(s)'
      BY <2>0, <2>a, <2>b, <3>1, StartKeeps
    <3>3. env.prompt => NoticesOK(s)'
      BY <1>1, <2>a, <2>b, <3>1, StartSettled
    <3> QED BY <3>2, <3>3
  <2>2. CASE s \notin S
    <3>1. procs'[s] = AfterStop(s) /\ current'[s] = 0
      BY <1>1, <2>2
    <3>2. ProcessesOK(s)'
      BY <2>0, <2>a, <3>1, StopKeeps
    <3>3. env.prompt => NoticesOK(s)'
      BY <1>1, <2>a, <2>b, <3>1, StopSettled
    <3> QED BY <3>2, <3>3
  <2> QED BY <2>1, <2>2
<1> QED BY <1>1, <1>2, <1>3, AllServers

\* The same, when a server is not registered: the ones before it are stopped.
LEMMA RestartServersRaisesStep ==
    ASSUME ManagerInv, NEW k \in Server, RestartServersRaises(k)
    PROVE  ManagerInv'
<1>1. /\ ui = <<"idle">> /\ ui' = <<"idle">>
      /\ registered' = registered \ 1..(k - 1)
      /\ env.prompt => \A s \in Server : Settled(s)
      /\ procs' = [s \in Server |-> IF s < k THEN AfterStop(s) ELSE procs[s]]
      /\ current' = [s \in Server |-> IF s < k THEN 0 ELSE current[s]]
      /\ updated' = TRUE /\ UNCHANGED <<ends, button, restartFlag, env>>
  BY DEF RestartServersRaises, panels
<1>2. ManagerTypes'
  <2>1. procs' \in [Server -> Seq(Process)]
    BY <1>1, AfterTypes
  <2>2. current' \in [Server -> Nat]
    BY <1>1, AfterTypes
  <2>3. button' \in [Server -> {"START", "STOP"}] /\ registered' \subseteq Server
    BY <1>1 DEF ManagerInv, ManagerTypes
  <2> QED BY <1>1, <2>1, <2>2, <2>3, AllTypes
<1>3. ASSUME NEW s \in Server
      PROVE  ProcessesOK(s)' /\ (env.prompt => NoticesOK(s)')
  <2>0. ui' # <<"boot">>
    BY <1>1, UiDiffer
  <2>a. ManagerTypes /\ ServerInv(s) /\ ProcessesOK(s)
    BY AfterTypes
  <2>b. updated' /\ ends'[s] = ends[s] /\ restartFlag'[s] = restartFlag[s]
        /\ (env.prompt => Settled(s)) /\ env' = env
    BY <1>1
  <2>1. CASE s < k
    <3>1. procs'[s] = AfterStop(s) /\ current'[s] = 0
      BY <1>1, <2>1
    <3>2. ProcessesOK(s)'
      BY <2>0, <2>a, <3>1, StopKeeps
    <3>3. env.prompt => NoticesOK(s)'
      BY <1>1, <2>a, <2>b, <3>1, StopSettled
    <3> QED BY <3>2, <3>3
  <2>2. CASE ~(s < k)
    <3>1. /\ procs'[s] = procs[s] /\ current'[s] = current[s]
          /\ button'[s] = button[s]
      BY <1>1, <2>2
    <3>2. s \in registered' <=> s \in registered
      <4>1. s \notin 1..(k - 1)
        BY <2>2 DEF Server
      <4> QED BY <1>1, <4>1
    <3>3. Untouched(s)
      BY <1>1, <2>b, <3>1, <3>2 DEF Untouched
    <3>4. ServerInv(s)'
      BY <2>a, <3>3, UntouchedKeeps
    <3> QED BY <3>4 DEF ServerInv, NoticesOK
  <2> QED BY <2>1, <2>2
<1> QED BY <1>1, <1>2, <1>3, AllServers

\* GrxUI ends.
LEMMA ShutDownStep ==
    ASSUME ManagerInv, ShutDown
    PROVE  ManagerInv'
<1>1. /\ ui' = <<"quit">>
      /\ procs' = [s \in Server |-> AfterStop(s)]
      /\ current' = [s \in Server |-> IF isRunning(s) THEN 0 ELSE current[s]]
      /\ UNCHANGED <<registered, ends, button, restartFlag, updated, env>>
  BY DEF ShutDown, panels
<1>2. ManagerTypes'
  <2>1. procs' \in [Server -> Seq(Process)]
    BY <1>1, AfterTypes
  <2>2. current' \in [Server -> Nat]
    BY <1>1, AfterTypes
  <2>3. button' \in [Server -> {"START", "STOP"}] /\ registered' \subseteq Server
        /\ updated' \in BOOLEAN
    BY <1>1 DEF ManagerInv, ManagerTypes
  <2> QED BY <1>1, <2>1, <2>2, <2>3, AllTypes
<1>3. ASSUME NEW s \in Server
      PROVE  ProcessesOK(s)' /\ (env.prompt => NoticesOK(s)')
  <2>0. ui' # <<"boot">>
    BY <1>1, UiDiffer
  <2>a. ManagerTypes /\ ServerInv(s) /\ ProcessesOK(s)
    BY AfterTypes
  <2>1. /\ procs'[s] = AfterStop(s) /\ ends'[s] = ends[s]
        /\ restartFlag'[s] = restartFlag[s] /\ env' = env
        /\ current'[s] = 0 \/ (current'[s] = current[s] /\ ~isRunning(s))
    BY <1>1
  <2>2. ProcessesOK(s)'
    BY <2>0, <2>a, <2>1, StopKeeps
  <2>3. env.prompt => NoticesOK(s)'
    BY <1>1, <2>a, <2>1, QuitKeeps
  <2> QED BY <2>2, <2>3
<1> QED BY <1>1, <1>2, <1>3, AllServers

-----------------------------------------------------------------------------
(* The theorems.                                                           *)

\* Before GrxUI is up nothing has been started.
LEMMA ManagerInvInit ==
    Init => ManagerInv
<1> SUFFICES ASSUME Init PROVE ManagerInv
  OBVIOUS
<1> USE DEF Init
<1>1. ManagerTypes
  <2>1. procs \in [Server -> Seq(Process)]
    BY EmptySeq
  <2> QED BY <2>1 DEF ManagerTypes
<1>2. ASSUME NEW s \in Server PROVE ServerInv(s)
  <2>1. /\ procs[s] = <<>> /\ current[s] = 0 /\ ends[s] = 0 /\ ~restartFlag[s]
        /\ button[s] = "START"
    OBVIOUS
  <2>2. Last(s) = 0
    BY <2>1 DEF Last
  <2>3. ~isRunning(s)
    BY <2>1 DEF isRunning
  <2>4. ~InRestart(s)
    BY UiDiffer DEF InRestart
  <2>5. ProcessesOK(s)
    BY <2>1, <2>2 DEF ProcessesOK, RefersToLast, Reachable, Watched
  <2>6. WatchersMeet(s)
    BY <2>2 DEF WatchersMeet
  <2>7. RestartGoesOn(s)
    BY <2>4 DEF RestartGoesOn, InRestart
  <2>8. Swallows(s) /\ PanelOK(s)
    BY <2>1, <2>3 DEF Swallows, PanelOK
  <2> QED BY <2>5, <2>6, <2>7, <2>8 DEF ServerInv
<1> QED BY <1>1, <1>2 DEF ManagerInv

\* Every step keeps the invariant.
LEMMA ManagerInvNext ==
    ManagerInv /\ [Next]_vars => ManagerInv'
<1> SUFFICES ASSUME ManagerInv, [Next]_vars PROVE ManagerInv'
  OBVIOUS
<1>1. CASE \E S \in SUBSET env.autoStart : Boot(S) \/ RestartServers(S)
  BY <1>1, BootStep, RestartServersStep
<1>2. CASE ShutDown
  BY <1>2, ShutDownStep
<1>3. CASE \E s \in Server : Toggle(s) \/ RestartEnded(s)
  BY <1>3, ToggleKeeps
<1>4. CASE \E s \in Server : Restart(s)
  BY <1>4, RestartKeeps
<1>5. CASE \E s \in Server : RestartNext(s)
  BY <1>5, RestartStopKeeps, RestartStartKeeps DEF RestartNext
<1>6. CASE \E s \in Server : ProcessEnd(s)
  BY <1>6, ProcessEndKeeps
<1>7. CASE \E s \in Server : RestartServersRaises(s)
  BY <1>7, RestartServersRaisesStep
<1>8. CASE \E s \in Server : Watching(s)
  BY <1>8, RecordKeeps DEF Watching
<1>9. CASE \E s \in Server : Exiting(s)
  BY <1>9, RecordKeeps DEF Exiting
<1>10. CASE \E s \in Server : \E i \in DOMAIN procs[s] : Crash(s, i)
  BY <1>10, RecordKeeps
<1>11. CASE UNCHANGED vars
  <2>1. /\ UNCHANGED <<registered, current, procs, ends, button, restartFlag, ui,
                       updated, env>>
    BY <1>11 DEF vars
  <2>2. ManagerTypes' /\ Server' = Server
    BY <2>1 DEF ManagerInv, ManagerTypes, Server
  <2>3. \A s \in Server : Untouched(s)
    BY <2>1 DEF Untouched
  <2>4. \A s \in Server : ServerInv(s)'
    BY <2>3, UntouchedKeeps DEF ManagerInv
  <2> QED BY <2>2, <2>4 DEF ManagerInv
<1> QED BY <1>1, <1>2, <1>3, <1>4, <1>5, <1>6, <1>7, <1>8, <1>9, <1>10, <1>11
        DEF Next

\* The invariant holds in every behaviour.
LEMMA ManagerInvHolds ==
    Spec => []ManagerInv
BY ManagerInvInit, ManagerInvNext, PTL DEF Spec

\* For any number of servers, no process runs that stop() of its AProcess cannot
\* reach, whatever the order of clicks, restarts, crashes and failed starts.
THEOREM NoProcessIsOrphaned ==
    Spec => []NoOrphan
<1>1. ManagerInv => NoOrphan
  BY ProcsOf DEF ManagerInv, ServerInv, ProcessesOK, Reachable, NoOrphan
<1> QED BY <1>1, ManagerInvHolds, PTL

\* restartFlag_ is set only while the notification it swallows is owed.
THEOREM FlagsAreOwed ==
    Spec => []FlagIsOwed
<1>1. ManagerInv => FlagIsOwed
  BY DEF ManagerInv, ServerInv, Swallows, FlagIsOwed
<1> QED BY <1>1, ManagerInvHolds, PTL

\* Once every end is announced, the button shows what a click will do.
THEOREM ButtonsAreTrue ==
    Spec => []ButtonTrue
<1>1. ManagerInv => ButtonTrue
  <2> SUFFICES ASSUME ManagerInv, NEW s \in Server, env.prompt, ~updated,
                      ui = <<"idle">>, Settled(s)
               PROVE  (button[s] = "STOP") = isRunning(s)
    BY DEF ButtonTrue
  <2>1. ManagerTypes /\ ServerInv(s) /\ button[s] \in {"START", "STOP"}
    BY DEF ManagerInv, ManagerTypes
  <2>2. Pending(s) = 0 /\ ~restartFlag[s]
    BY <2>1, SettledFacts DEF ServerInv
  <2>3. /\ button[s] = "START" => ~isRunning(s)
        /\ button[s] = "STOP" => Pending(s) = One(restartFlag[s]) + One(~isRunning(s))
    BY <2>1, UiDiffer DEF ServerInv, PanelOK
  <2>4. button[s] = "STOP" => isRunning(s)
    BY <2>2, <2>3 DEF One
  <2>5. isRunning(s) \in BOOLEAN
    BY <2>1, ProcsOf DEF isRunning, Process, ServerInv, ProcessesOK, RefersToLast
  <2> QED BY <2>1, <2>3, <2>4, <2>5
<1> QED BY <1>1, ManagerInvHolds, PTL

=============================================================================
