--------------------------- MODULE ProcessManager ---------------------------
(***************************************************************************)
(* The server processes that GrxUI starts, watches and stops:              *)
(* GrxProcessManager with its AProcess objects, the buttons of the server  *)
(* panels, and the restart of all servers after a change of the name       *)
(* server. For every started process a watcher thread waits for its end    *)
(* and posts "ProcessEnd" to the UI thread; everything else runs there.    *)
(* A watcher reads the field process_ of its AProcess when it is first     *)
(* scheduled, which may be after stop() has cleared it.                    *)
(*                                                                         *)
(* Servers are not stopped with killall (doKillall) and are stopped when   *)
(* GrxUI ends (autoStop). A panel exists for each of them.                 *)
(***************************************************************************)
EXTENDS Naturals, Sequences

CONSTANTS
    Servers,  \* number of servers, at most
    Settings  \* the settings to consider; each is a record of
              \*  servers: number of servers, in the order of vecServerInfo
              \*  hasShutdown: servers with hasShutdown
              \*  autoStart: servers with autoStart
              \*  maxStarts: bound, processes started for one server
              \*  faults: which of FaultKinds may happen
              \*  prompt: the user acts on a panel only when all ends are
              \*    announced, and no process crashes within a handler

\* A process ends by itself; a process cannot be started.
FaultKinds == {"crash", "start"}

ASSUME ProcessAssumption ==
    /\ Servers \in Nat
    /\ \A e \in Settings :
        /\ e.servers \in 0..Servers /\ e.maxStarts \in Nat
        /\ e.hasShutdown \cup e.autoStart \subseteq 1..e.servers
        /\ e.faults \subseteq FaultKinds /\ e.prompt \in BOOLEAN

VARIABLES
    registered,   \* servers with an AProcess in process_ of the manager
    current,      \* field process_ of that AProcess: a process, 0 for null
    procs,        \* the processes started for each server, and their watchers
    ends,         \* "ProcessEnd" events of each server on their way to the UI
    button,       \* text of toggleButton_: what a click will do
    restartFlag,  \* restartFlag_ of each panel
    ui,           \* the UI thread: boot, idle, quit, or a server in a restart
    updated,      \* history: the name server was changed
    env           \* the setting of this behaviour

panels == <<button, restartFlag>>
vars   == <<registered, current, procs, ends, button, restartFlag, ui, updated,
            env>>

Server == 1..env.servers

\* alive: the process exists; destroyed: destroy() was called; held: process_ of
\* its AProcess still refers to it; watcher: its watcher thread.
NewProcess == [alive |-> TRUE, destroyed |-> FALSE, held |-> TRUE,
               watcher |-> "new"]

\* AProcess.isRunning()
isRunning(s) == current[s] # 0 /\ procs[s][current[s]].alive

\* Every end of a process of s is announced, and its last watcher waits.
Settled(s) ==
    /\ ends[s] = 0
    /\ \A i \in DOMAIN procs[s] :
          /\ procs[s][i].watcher # "new"
          /\ procs[s][i].alive => ~procs[s][i].destroyed
          /\ ~procs[s][i].alive => procs[s][i].watcher = "gone"

Init ==
    /\ env \in Settings
    /\ registered = {} /\ current = [s \in Server |-> 0]
    /\ procs = [s \in Server |-> <<>>] /\ ends = [s \in Server |-> 0]
    /\ button = [s \in Server |-> "START"]
    /\ restartFlag = [s \in Server |-> FALSE]
    /\ ui = <<"boot">> /\ updated = FALSE

-----------------------------------------------------------------------------
(* Starting and stopping one AProcess.                                     *)

\* Mutant of Stopped: shutdown() relies on the remote call.
StoppedRemotely(s) == [procs[s] EXCEPT ![current[s]].held = FALSE]

\* The processes of s after stop() of a running one: shutdown() calls destroy()
\* and does not wait for the end, otherwise waitFor() does. process_ = null.
Stopped(s) ==
    [procs[s] EXCEPT ![current[s]].destroyed = TRUE,
                     ![current[s]].held = FALSE,
                     ![current[s]].alive = s \in env.hasShutdown]

\* start() succeeds with one of the commands.
CanStart(s) == Len(procs[s]) < env.maxStarts
Started(s) == Append(procs[s], NewProcess)

-----------------------------------------------------------------------------
(* toggleProcess() and the panel.                                          *)

\* The part of toggleProcess() for a running process.
ToggleStop(s) ==
    /\ isRunning(s)
    /\ procs' = [procs EXCEPT ![s] = Stopped(s)]
    /\ current' = [current EXCEPT ![s] = 0]
    /\ UNCHANGED registered

\* For any other: unregister, register, start; unregister if that fails.
ToggleStart(s) ==
    /\ ~isRunning(s) /\ CanStart(s)
    /\ registered' = registered \cup {s}
    /\ procs' = [procs EXCEPT ![s] = Started(s)]
    /\ current' = [current EXCEPT ![s] = Len(procs[s]) + 1]

ToggleStartFails(s) ==
    /\ ~isRunning(s) /\ "start" \in env.faults
    /\ registered' = registered \ {s}
    /\ current' = [current EXCEPT ![s] = 0]
    /\ UNCHANGED procs

Shows(s, text) == button' = [button EXCEPT ![s] = text]

UserActs(s) == ui = <<"idle">> /\ (env.prompt => Settled(s))

\* updateBtn()
Toggle(s) ==
    /\ UserActs(s)
    /\ \/ ToggleStop(s) /\ Shows(s, "START")
       \/ ToggleStart(s) /\ Shows(s, "STOP")
       \/ ToggleStartFails(s) /\ Shows(s, "START")
    /\ UNCHANGED <<ends, restartFlag, ui, updated, env>>

\* updateRestartBtn(), visible while the other button shows STOP. A process that
\* has ended is only started.
RestartEnded(s) ==
    /\ UserActs(s) /\ button[s] = "STOP" /\ ~isRunning(s)
    /\ \/ ToggleStart(s) /\ Shows(s, "STOP")
       \/ ToggleStartFails(s) /\ Shows(s, "START")
    /\ UNCHANGED <<ends, restartFlag, ui, updated, env>>

Restart(s) ==
    /\ UserActs(s) /\ button[s] = "STOP" /\ isRunning(s) /\ CanStart(s)
    /\ ui' = <<"stop", s>>
    /\ UNCHANGED <<registered, current, procs, ends, panels, updated, env>>

\* The first toggleProcess() stops the process; one that has ended meanwhile is
\* started instead, and an error is shown.
RestartStop(s) ==
    /\ ui = <<"stop", s>>
    /\ \/ ToggleStop(s) /\ ui' = <<"start", s>> /\ UNCHANGED button
       \/ ToggleStart(s) /\ ui' = <<"idle">> /\ Shows(s, "STOP")
       \/ ToggleStartFails(s) /\ ui' = <<"start", s>> /\ UNCHANGED button
    /\ UNCHANGED <<ends, restartFlag, updated, env>>

\* Mutant of FlagAfterRestart: the notification is not expected.
FlagAfterRestartUnset == FALSE

\* restartFlag_ = true
FlagAfterRestart == TRUE

\* The second toggleProcess().
RestartStart(s) ==
    /\ ui = <<"start", s>>
    /\ \/ /\ ToggleStart(s) /\ Shows(s, "STOP")
          /\ restartFlag' = [restartFlag EXCEPT ![s] = FlagAfterRestart]
       \/ ToggleStartFails(s) /\ Shows(s, "START") /\ UNCHANGED restartFlag
    /\ ui' = <<"idle">>
    /\ UNCHANGED <<ends, updated, env>>

\* Mutant of FlagAfterEnd: the flag stays set.
FlagAfterEndKept(s) == restartFlag[s]

\* restartFlag_ = false, if it was set
FlagAfterEnd(s) == FALSE

\* setStartText(): one notification is ignored after a restart.
ProcessEnd(s) ==
    /\ ui = <<"idle">> /\ ends[s] > 0
    /\ ends' = [ends EXCEPT ![s] = @ - 1]
    /\ \/ ~restartFlag[s] /\ Shows(s, "START")
       \/ restartFlag[s] /\ UNCHANGED button
    /\ restartFlag' = [restartFlag EXCEPT ![s] = FlagAfterEnd(s)]
    /\ UNCHANGED <<registered, current, procs, ui, updated, env>>

-----------------------------------------------------------------------------
(* All servers.                                                            *)

\* setProcessList(): all servers are registered, and those with autoStart are
\* started unless their reference answers. A failing start leaves the server
\* registered. S: the servers that are started.
AutoStarts(S) ==
    /\ "start" \notin env.faults => S = env.autoStart
    /\ registered' = Server

\* GrxUI comes up; then the panels are created.
Boot(S) ==
    /\ ui = <<"boot">> /\ AutoStarts(S)
    /\ procs' = [s \in Server |-> IF s \in S THEN Started(s) ELSE procs[s]]
    /\ current' = [s \in Server |-> IF s \in S THEN 1 ELSE 0]
    /\ button' = [s \in Server |-> IF s \in S THEN "STOP" ELSE "START"]
    /\ ui' = <<"idle">>
    /\ UNCHANGED <<ends, restartFlag, updated, env>>

\* The processes of s after "if (server.isRunning()) server.stop()".
AfterStop(s) == IF isRunning(s) THEN Stopped(s) ELSE procs[s]

\* Some old process of s may still answer to its reference.
MayAnswer(s) == \E i \in DOMAIN procs[s] : AfterStop(s)[i].alive

\* restart(): servers are stopped, unregistered, registered and started again.
RestartServers(S) ==
    /\ ui = <<"idle">> /\ registered = Server
    /\ env.prompt => \A s \in Server : Settled(s)
    /\ \A s \in S : CanStart(s)
    /\ "start" \notin env.faults =>
          \A s \in env.autoStart \ S : MayAnswer(s)
    /\ procs' = [s \in Server |->
                   IF s \in S THEN Append(AfterStop(s), NewProcess)
                              ELSE AfterStop(s)]
    /\ current' = [s \in Server |-> IF s \in S THEN Len(procs[s]) + 1 ELSE 0]
    /\ updated' = TRUE
    /\ UNCHANGED <<registered, ends, panels, ui, env>>

\* A server that is not registered (its last start failed) raises a
\* NullPointerException: the ones before it are stopped and unregistered, and
\* none is started.
RestartServersRaises(k) ==
    /\ ui = <<"idle">> /\ k \notin registered /\ \A s \in 1..(k - 1) : s \in registered
    /\ env.prompt => \A s \in Server : Settled(s)
    /\ procs' = [s \in Server |-> IF s < k THEN AfterStop(s) ELSE procs[s]]
    /\ current' = [s \in Server |-> IF s < k THEN 0 ELSE current[s]]
    /\ registered' = registered \ 1..(k - 1)
    /\ updated' = TRUE
    /\ UNCHANGED <<ends, panels, ui, env>>

\* shutDown() when GrxUI ends: autoStop().
ShutDown ==
    /\ ui = <<"idle">>
    /\ procs' = [s \in Server |-> AfterStop(s)]
    /\ current' = [s \in Server |-> IF isRunning(s) THEN 0 ELSE current[s]]
    /\ ui' = <<"quit">>
    /\ UNCHANGED <<registered, ends, panels, updated, env>>

-----------------------------------------------------------------------------
(* The processes and their watchers.                                       *)

\* A destroyed process ends.
Exit(s, i) ==
    /\ procs[s][i].alive /\ procs[s][i].destroyed
    /\ procs' = [procs EXCEPT ![s][i].alive = FALSE]
    /\ UNCHANGED <<registered, current, ends, panels, ui, updated, env>>

Crash(s, i) ==
    /\ "crash" \in env.faults
    /\ procs[s][i].alive /\ ~procs[s][i].destroyed
    /\ env.prompt => ui = <<"idle">>
    /\ procs' = [procs EXCEPT ![s][i].alive = FALSE]
    /\ UNCHANGED <<registered, current, ends, panels, ui, updated, env>>

\* process_.waitFor() raises when stop() has been faster.
WatcherBegins(s, i) ==
    /\ procs[s][i].watcher = "new"
    /\ procs' = [procs EXCEPT ![s][i].watcher =
                   IF procs[s][i].held THEN "waiting" ELSE "gone"]
    /\ UNCHANGED <<registered, current, ends, panels, ui, updated, env>>

\* display.asyncExec(), which notifies the observers of "ProcessEnd" later.
Announced(s) == ends[s] + 1

\* waitFor() returns and the event is handed to the UI thread.
WatcherPosts(s, i) ==
    /\ procs[s][i].watcher = "waiting" /\ ~procs[s][i].alive
    /\ procs' = [procs EXCEPT ![s][i].watcher = "gone"]
    /\ ends' = [ends EXCEPT ![s] = Announced(s)]
    /\ UNCHANGED <<registered, current, panels, ui, updated, env>>

-----------------------------------------------------------------------------

RestartNext(s) == RestartStop(s) \/ RestartStart(s)

Watching(s) ==
    \E i \in DOMAIN procs[s] : WatcherBegins(s, i) \/ WatcherPosts(s, i)

Exiting(s) == \E i \in DOMAIN procs[s] : Exit(s, i)

Next ==
    \/ \E S \in SUBSET env.autoStart : Boot(S) \/ RestartServers(S)
    \/ ShutDown
    \/ \E s \in Server :
          \/ Toggle(s) \/ RestartEnded(s) \/ Restart(s) \/ RestartNext(s)
          \/ ProcessEnd(s) \/ RestartServersRaises(s)
          \/ Watching(s) \/ Exiting(s)
          \/ \E i \in DOMAIN procs[s] : Crash(s, i)

\* The UI thread finishes its handlers and dispatches its events, threads are
\* scheduled, and a process that is told to end does so. Clicks and crashes just
\* happen.
Fairness ==
    \A s \in 1..Servers :
        /\ WF_vars(s \in Server /\ RestartNext(s))
        /\ WF_vars(s \in Server /\ ProcessEnd(s))
        /\ WF_vars(s \in Server /\ Watching(s))
        /\ WF_vars(s \in Server /\ Exiting(s))

Spec == Init /\ [][Next]_vars /\ Fairness

-----------------------------------------------------------------------------
(* Properties.                                                             *)

Process == [alive : BOOLEAN, destroyed : BOOLEAN, held : BOOLEAN,
            watcher : {"new", "waiting", "gone"}]

\* Types; the AProcess in the list refers to a process of its own, and a process
\* ends once.
TypeOK ==
    /\ registered \subseteq Server
    /\ procs \in [Server -> Seq(Process)]
    /\ \A s \in Server :
          /\ Len(procs[s]) <= env.maxStarts
          /\ current[s] \in {0} \cup {i \in DOMAIN procs[s] : procs[s][i].held}
          /\ ends[s] \in 0..Len(procs[s])
    /\ button \in [Server -> {"START", "STOP"}]
    /\ restartFlag \in [Server -> BOOLEAN]
    /\ updated \in BOOLEAN
    /\ ui \in {<<"boot">>, <<"idle">>, <<"quit">>} \cup ({"stop", "start"} \X Server)

\* No process runs on its own: one that was not told to end is the one that the
\* AProcess in the list refers to, so that stop() can reach it, whatever the
\* order of restarts, crashes, failed starts and updates of the name server.
NoOrphan ==
    \A s \in Server : \A i \in DOMAIN procs[s] :
        procs[s][i].alive /\ ~procs[s][i].destroyed =>
            s \in registered /\ current[s] = i

\* Once every end is announced, the button of a panel shows what a click will
\* do, if the user and the crashes leave the notifications time, and until the
\* name server is changed.
ButtonTrue ==
    \A s \in Server :
        env.prompt /\ ~updated /\ ui = <<"idle">> /\ Settled(s) =>
            (button[s] = "STOP") = isRunning(s)

\* "ProcessEnd" events of s that are on their way or will be.
Owed(s) ==
    ends[s] > 0
    \/ \E i \in DOMAIN procs[s] :
          /\ procs[s][i].watcher = "waiting"
          /\ procs[s][i].alive => procs[s][i].destroyed

\* restartFlag_ never outlives the notification it is meant to swallow: it would
\* swallow the end of the new process instead.
FlagIsOwed == \A s \in Server : env.prompt /\ restartFlag[s] => Owed(s)

\* The panel shows STOP for a process that is gone.
Stale(s) ==
    /\ s \in Server /\ env.prompt /\ ui # <<"quit">>
    /\ button[s] = "STOP" /\ ~isRunning(s)

\* A panel that shows STOP for a process that is gone is corrected, given that
\* handlers and crashes do not overlap.
EndNoticed == \A s \in 1..Servers : Stale(s) ~> ~Stale(s)

\* When GrxUI has ended, so do all the processes it has started.
NothingLeftBehind ==
    ui = <<"quit">> ~>
        \A s \in Server : \A i \in DOMAIN procs[s] : ~procs[s][i].alive

=============================================================================
