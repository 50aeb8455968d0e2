----------------------------- MODULE DaemonLife -----------------------------
(***************************************************************************)
(* The life of the daemon as its administrator sees it: the start-up of    *)
(* cmd/redborder-monitor/main.go against the signal goroutine that is      *)
(* already there, reloads, the status socket (startIPC, internal/monitor/  *)
(* ipc.go), the status client, and the end of the process, after which     *)
(* systemd or an operator starts it again.                                 *)
(*                                                                         *)
(* A configuration is [socket, rest]: socket "" is an ipc_socket_path that *)
(* is not set.  Sensors and outputs are known by the configuration they    *)
(* were made from.  The file system is external: the test file of the      *)
(* probe and the socket files, which a process leaves behind when it ends. *)
(***************************************************************************)
EXTENDS Integers

CONSTANTS
    Confs,          \* what the configuration file may say
    None,           \* no configuration, path or listener
    MaxEdits,       \* bound: changes of the configuration file
    MaxHups,        \* bound: SIGHUPs
    MaxStarts,      \* bound: starts of the daemon
    MaxQueries      \* bound: status queries

RunPath == "/run/redborder-monitor/redborder-monitor.sock"
TmpPath == "/tmp/redborder-monitor.sock"
Default == ""

Paths == {RunPath, TmpPath} \cup ({c.socket : c \in Confs} \ {Default})

ASSUME ConfsAssumption == None \notin Confs /\ None \notin Paths
ASSUME BoundAssumption ==
    MaxEdits \in Nat /\ MaxHups \in Nat /\ MaxStarts \in Nat /\ MaxQueries \in Nat

VARIABLES
    file,           \* what the configuration file says
    config,         \* the global config
    main,           \* where main is: "down", "load", "sensors", "producer",
                    \* "assign", "path", "remove", "listen", "up"
    given, path,    \* main: the argument of NewMetricProducer; socketPath
    reload,         \* reloadConfig: "idle", "begin", "update", "new", "old",
                    \* "restart", "sensors", while probing "new remove" or
                    \* "old remove"
    newPath, oldPath, newConfig,
    hups,           \* SIGHUPs not yet sent
    pending,        \* SIGHUPs in sigChan
    sensors,        \* the configuration safeSensors were made from
    outputs,        \* the configuration of the producer, None while it is nil
    listener,       \* the path ipcListener is bound to
    testFile,       \* .test_write exists
    socket,         \* socket files: "none", "stale" or "bound"
    client, clientPath, answer,     \* a status client; what came of the last
    edits, starts, queries,         \* what the bounds leave
    skipped,        \* (properties only) a reload has found no producer
    clash, moved    \* (properties only) a probe met another one or was never
                    \* finished, or a query has outlived a daemon; the socket
                    \* path in the file has changed since main read it

mainVars == <<main, given, path>>
reloadVars == <<reload, newPath, oldPath, newConfig>>
signals == <<hups, pending>>
state == <<config, sensors, outputs>>
ipc == <<listener, socket>>
clientVars == <<client, clientPath, answer>>
bounds == <<edits, starts, queries>>
history == <<skipped, clash, moved>>
vars == <<file, mainVars, reloadVars, signals, state, ipc, testFile,
          clientVars, bounds, history>>

Init ==
    /\ file \in Confs /\ config = None
    /\ main = "down" /\ given = None /\ path = None
    /\ reload = "idle" /\ newPath = None /\ oldPath = None /\ newConfig = None
    /\ hups = MaxHups /\ pending = 0
    /\ sensors = None /\ outputs = None /\ listener = None
    /\ testFile = FALSE /\ socket = [p \in Paths |-> "none"]
    /\ client = "idle" /\ clientPath = None /\ answer = "none"
    /\ edits = MaxEdits /\ starts = MaxStarts /\ queries = MaxQueries
    /\ skipped = FALSE /\ clash = FALSE /\ moved = FALSE

-----------------------------------------------------------------------------
(* DefaultSocketPath: an exclusive create of the test file, and its        *)
(* removal.  The run directory exists and may be written.                  *)

Probing == main = "remove" \/ reload \in {"new remove", "old remove"} \/ client = "remove"

Create == ~testFile /\ testFile' = TRUE /\ UNCHANGED clash
Occupied == testFile /\ clash' = (clash \/ Probing) /\ UNCHANGED testFile
Remove == testFile' = FALSE /\ UNCHANGED clash

\* (mutant) the new socket is bound before the old one is closed
BindFirst(p) ==
    socket' = [q \in Paths |-> IF q = listener THEN "none" ELSE IF q = p THEN "bound" ELSE socket[q]]

\* The old listener is closed, which deletes its file; a file in the way of
\* the new one is deleted, stale or not.
Bind(p) ==
    socket' = [q \in Paths |-> IF q = p THEN "bound" ELSE IF q = listener THEN "none" ELSE socket[q]]

\* startIPC, under ipcListenerMu.
StartIPC(p) == Bind(p) /\ listener' = p

-----------------------------------------------------------------------------
(* main, from the start of the process.                                    *)

\* LoadConfig, then signal.Notify: from here on a SIGHUP is served.
Load ==
    /\ main = "load"
    /\ config' = file /\ moved' = FALSE /\ clash' = (clash /\ client # "idle")
    /\ main' = "sensors"
    /\ UNCHANGED <<file, given, path, reloadVars, signals, sensors, outputs,
                   ipc, testFile, clientVars, bounds, skipped>>

\* reloadConfig holds sensorsMu.
SensorsMuFree == reload \in {"idle", "begin"}

\* safeSensors is filled from config, under sensorsMu.
MakeSensors ==
    /\ main = "sensors" /\ SensorsMuFree
    /\ sensors' = config
    /\ main' = "producer"
    /\ UNCHANGED <<file, config, given, path, reloadVars, signals, outputs,
                   ipc, testFile, clientVars, bounds, history>>

\* NewMetricProducer(config) begins: no lock, and producer is still nil.
NewProducer ==
    /\ main = "producer"
    /\ given' = config
    /\ main' = "assign"
    /\ UNCHANGED <<file, path, reloadVars, signals, state, ipc, testFile,
                   clientVars, bounds, history>>

AssignProducer ==
    /\ main = "assign"
    /\ outputs' = given
    /\ main' = "path"
    /\ UNCHANGED <<file, config, given, path, reloadVars, signals, sensors,
                   ipc, testFile, clientVars, bounds, history>>

MainFrame ==
    UNCHANGED <<file, given, reloadVars, signals, state, clientVars, bounds,
                skipped, moved>>

\* socketPath, configured or probed.
ChoosePath ==
    /\ main = "path"
    /\ \/ /\ config.socket # Default
          /\ path' = config.socket /\ main' = "listen"
          /\ UNCHANGED <<testFile, clash>>
       \/ /\ config.socket = Default
          /\ \/ Create /\ main' = "remove" /\ UNCHANGED path
             \/ Occupied /\ main' = "listen" /\ path' = TmpPath
    /\ MainFrame /\ UNCHANGED ipc

ProbeDone ==
    /\ main = "remove"
    /\ Remove /\ path' = RunPath /\ main' = "listen"
    /\ MainFrame /\ UNCHANGED ipc

Listen ==
    /\ main = "listen"
    /\ StartIPC(path) /\ main' = "up"
    /\ MainFrame /\ UNCHANGED <<path, testFile, clash>>

-----------------------------------------------------------------------------
(* The signal goroutine.                                                   *)

Hup ==
    /\ main # "down" /\ main # "load" /\ hups > 0
    /\ hups' = hups - 1 /\ pending' = pending + 1
    /\ UNCHANGED <<file, mainVars, reloadVars, state, ipc, testFile,
                   clientVars, bounds, history>>

ReloadFrame ==
    UNCHANGED <<file, mainVars, hups, clientVars, bounds, moved>>

\* A SIGHUP is received and the file read.
ReloadLoad ==
    /\ reload = "idle" /\ pending > 0
    /\ pending' = pending - 1
    /\ newConfig' = file
    /\ reload' = "begin"
    /\ ReloadFrame /\ UNCHANGED <<newPath, oldPath, state, ipc, testFile, skipped, clash>>

\* sensorsMu.Lock(); config = newConfig.
ReloadConfig ==
    /\ reload = "begin"
    /\ config' = newConfig
    /\ reload' = "update"
    /\ ReloadFrame
    /\ UNCHANGED <<newConfig, newPath, oldPath, pending, sensors, outputs, ipc,
                   testFile, skipped, clash>>

\* (mutant) the producer keeps its configuration
KeepOutputs == UNCHANGED <<outputs, skipped>>

\* if producer != nil { producer.UpdateConfig(newConfig) }
UpdateOutputs ==
    IF outputs = None THEN skipped' = TRUE /\ UNCHANGED outputs
    ELSE outputs' = newConfig /\ skipped' = FALSE

ReloadUpdate ==
    /\ reload = "update"
    /\ UpdateOutputs
    /\ reload' = "new"
    /\ ReloadFrame
    /\ UNCHANGED <<newConfig, newPath, oldPath, pending, config, sensors, ipc,
                   testFile, clash>>

\* newSocketPath, of newConfig.
ReloadNewPath ==
    /\ \/ /\ reload = "new" /\ newConfig.socket # Default
          /\ newPath' = newConfig.socket /\ reload' = "old"
          /\ UNCHANGED <<testFile, clash>>
       \/ /\ reload = "new" /\ newConfig.socket = Default
          /\ \/ Create /\ reload' = "new remove" /\ UNCHANGED newPath
             \/ Occupied /\ reload' = "old" /\ newPath' = TmpPath
       \/ /\ reload = "new remove"
          /\ Remove /\ reload' = "old" /\ newPath' = RunPath
    /\ ReloadFrame
    /\ UNCHANGED <<newConfig, oldPath, pending, state, ipc, skipped>>

\* oldSocketPath, of config, which is newConfig by now.
ReloadOldPath ==
    /\ \/ /\ reload = "old" /\ config.socket # Default
          /\ oldPath' = config.socket /\ reload' = "restart"
          /\ UNCHANGED <<testFile, clash>>
       \/ /\ reload = "old" /\ config.socket = Default
          /\ \/ Create /\ reload' = "old remove" /\ UNCHANGED oldPath
             \/ Occupied /\ reload' = "restart" /\ oldPath' = TmpPath
       \/ /\ reload = "old remove"
          /\ Remove /\ reload' = "restart" /\ oldPath' = RunPath
    /\ ReloadFrame
    /\ UNCHANGED <<newConfig, newPath, pending, state, ipc, skipped>>

ReloadRestart ==
    /\ reload = "restart"
    /\ IF newPath # oldPath THEN StartIPC(newPath) ELSE UNCHANGED ipc
    /\ reload' = "sensors"
    /\ ReloadFrame
    /\ UNCHANGED <<newConfig, newPath, oldPath, pending, state, testFile,
                   skipped, clash>>

\* safeSensors = updatedSensors; sensorsMu.Unlock().
ReloadSensors ==
    /\ reload = "sensors"
    /\ sensors' = newConfig
    /\ reload' = "idle" /\ newConfig' = None /\ newPath' = None /\ oldPath' = None
    /\ ReloadFrame
    /\ UNCHANGED <<pending, config, outputs, ipc, testFile, skipped, clash>>

-----------------------------------------------------------------------------
(* The status client: queryStatus, sendResetCommand.                       *)

ClientFrame ==
    UNCHANGED <<file, mainVars, reloadVars, signals, state, ipc, edits, starts,
                skipped, moved>>

\* It probes first, even if the file names a path.
ClientProbe ==
    /\ client = "idle" /\ queries > 0
    /\ queries' = queries - 1
    /\ \/ Create /\ client' = "remove" /\ UNCHANGED clientPath
       \/ Occupied /\ client' = "dial" /\ clientPath' = TmpPath
    /\ ClientFrame /\ UNCHANGED answer

ClientProbed ==
    /\ client = "remove"
    /\ Remove /\ client' = "dial" /\ clientPath' = RunPath
    /\ ClientFrame /\ UNCHANGED <<answer, queries>>

\* It is interrupted in the middle of its probe: the test file stays.
ClientKilled ==
    /\ client = "remove"
    /\ client' = "idle" /\ clash' = TRUE
    /\ ClientFrame /\ UNCHANGED <<clientPath, answer, testFile, queries>>

\* (mutant) the client does not read the configuration file
ProbedPath == clientPath

Target == IF file.socket # Default THEN file.socket ELSE clientPath

\* The daemon answers where it listens, if the file is its socket.
Dial ==
    /\ client = "dial"
    /\ answer' = IF main # "up" THEN "down"
                 ELSE IF listener = Target /\ socket[Target] = "bound" THEN "stats"
                 ELSE "refused"
    /\ client' = "idle" /\ clientPath' = None
    /\ ClientFrame /\ UNCHANGED <<testFile, clash, queries>>

-----------------------------------------------------------------------------
(* The administrator, and the end of the process.                          *)

Edit ==
    /\ edits > 0
    /\ \E c \in Confs \ {file} :
        /\ file' = c /\ edits' = edits - 1
        /\ moved' = (moved \/ c.socket # file.socket)
    /\ UNCHANGED <<mainVars, reloadVars, signals, state, ipc, testFile,
                   clientVars, starts, queries, skipped, clash>>

StartDaemon ==
    /\ main = "down" /\ starts > 0
    /\ starts' = starts - 1 /\ main' = "load"
    /\ UNCHANGED <<file, given, path, reloadVars, signals, state, ipc,
                   testFile, clientVars, edits, queries, history>>

\* The process ends, by a shutdown, a crash or a kill: nothing closes the
\* listener, so its file stays, as does the test file of a probe.
Exit ==
    /\ main # "down"
    /\ main' = "down" /\ given' = None /\ path' = None
    /\ reload' = "idle" /\ newPath' = None /\ oldPath' = None /\ newConfig' = None
    /\ pending' = 0
    /\ config' = None /\ sensors' = None /\ outputs' = None
    /\ listener' = None
    /\ socket' = [p \in Paths |-> IF socket[p] = "bound" THEN "stale" ELSE socket[p]]
    /\ skipped' = FALSE /\ answer' = "none"
    /\ clash' = (clash \/ client # "idle")
    /\ UNCHANGED <<file, hups, testFile, client, clientPath, bounds, moved>>

Next ==
    \/ Load \/ MakeSensors \/ NewProducer \/ AssignProducer
    \/ ChoosePath \/ ProbeDone \/ Listen
    \/ Hup \/ ReloadLoad \/ ReloadConfig \/ ReloadUpdate \/ ReloadNewPath
    \/ ReloadOldPath \/ ReloadRestart \/ ReloadSensors
    \/ ClientProbe \/ ClientProbed \/ ClientKilled \/ Dial
    \/ Edit \/ StartDaemon \/ Exit

Spec == Init /\ [][Next]_vars

-----------------------------------------------------------------------------
(* Properties.                                                             *)

\* Whenever the daemon is up it answers on a socket of its own: a restart
\* replaces the file its predecessor left, and a reload that rebinds, on
\* the same path or another, does not delete what it has bound.
ServesWhenUp ==
    main = "up" => listener # None /\ socket[listener] = "bound"

\* Once it is up and no reload runs, the daemon works by one configuration:
\* sensors and outputs agree with config, whichever way reloads fell between
\* the steps of the start-up.  Only the outputs may lag, if the last reload
\* found no producer.
OneConfigInForce ==
    main = "up" /\ reload = "idle" =>
        sensors = config /\ (outputs = config \/ skipped)

\* A status client is refused by a daemon that is up only if two probes met,
\* or the file names another socket than the daemon found in it.
ClientFinds == answer = "refused" => clash \/ moved

\* The listener is where the configuration in force puts it ("Update IPC
\* listener if socket path changed").
ListenerFollowsConfig ==
    main = "up" /\ reload = "idle" /\ config.socket # Default =>
        listener = config.socket
=============================================================================
