-------------------------- MODULE DaemonLifeProofs --------------------------
(* Proofs about DaemonLife: for any configurations and any number of       *)
(* edits, reloads, restarts and status clients, the daemon that is up      *)
(* listens on a socket of its own and works by one configuration.          *)
EXTENDS DaemonLife, TLAPS

Mains == {"down", "load", "sensors", "producer", "assign", "path", "remove", "listen", "up"}
Reloads == {"idle", "begin", "update", "new", "new remove", "old", "old remove",
            "restart", "sensors"}

\* main has a configuration, its sensors, its producer.
Loaded == main \notin {"down", "load"}
Sensed == main \in {"producer", "assign", "path", "remove", "listen", "up"}
Produced == main \in {"path", "remove", "listen", "up"}

\* Types, as far as the properties need them; no reload without a process
\* that has its configuration.
Types ==
    /\ main \in Mains /\ reload \in Reloads /\ file \in Confs
    /\ pending \in Nat
    /\ Loaded => config \in Confs
    /\ ~Loaded => reload = "idle" /\ pending = 0
    /\ reload # "idle" => newConfig \in Confs
    /\ main = "listen" => path \in Paths
    /\ reload \in {"old", "old remove", "restart"} => newPath \in Paths
    /\ listener \in Paths \cup {None}
    /\ socket \in [Paths -> {"none", "stale", "bound"}]

\* Between the steps of a reload: the sensors are those of config until it
\* is replaced, and then newConfig is config; the outputs, or what main is
\* about to make of them, are those of config except while the reload has
\* yet to update them, or has found none.
ConfigInv ==
    /\ reload \in {"idle", "begin"} /\ Sensed => sensors = config
    /\ reload \notin {"idle", "begin"} => config = newConfig
    /\ outputs # None => Produced
    /\ reload # "update" =>
        /\ main = "assign" => given = config \/ skipped
        /\ Produced => outputs = config \/ skipped

\* Where a probe puts the socket: a test file that nobody is about to remove
\* sends every probe to the fallback.
Place == IF testFile /\ ~Probing THEN TmpPath ELSE RunPath

\* Where the file puts it.
Wanted == IF file.socket # Default THEN file.socket ELSE Place

ReloadProbes == reload \in {"new remove", "old remove"}

\* Until two probes meet there is one at a time, with its test file, and
\* where the client has probed the next probe ends as well.
ProbeInv ==
    /\ clash \in BOOLEAN /\ moved \in BOOLEAN /\ testFile \in BOOLEAN
    /\ client \in {"idle", "remove", "dial"}
    /\ ~clash =>
        /\ Probing => testFile
        /\ ~(main = "remove" /\ ReloadProbes)
        /\ ~(main = "remove" /\ client = "remove")
        /\ ~(ReloadProbes /\ client = "remove")
        /\ client = "dial" => clientPath = Place

\* As long as the file names the same socket, every path in use is the one
\* it puts the socket at: no reload moves the listener.
PathInv ==
    ~clash /\ ~moved =>
        /\ Loaded => config.socket = file.socket
        /\ reload # "idle" => newConfig.socket = file.socket
        /\ main = "remove" \/ ReloadProbes => file.socket = Default
        /\ main = "listen" => path = Wanted
        /\ main = "up" => listener = Wanted
        /\ reload \in {"old", "old remove", "restart"} => newPath = Wanted
        /\ reload = "restart" => oldPath = Wanted

\* A refusal is of this life of the daemon.
AnswerInv ==
    /\ answer = "refused" => Loaded
    /\ ClientFinds

\* The default paths and those of the configurations are paths.
LEMMA PathsOf ==
    /\ RunPath \in Paths /\ TmpPath \in Paths
    /\ \A c \in Confs : c.socket # Default => c.socket \in Paths
  BY DEF Paths

-----------------------------------------------------------------------------
(* Types and the listener.                                                 *)

\* The initial state.
LEMMA TypesInit == Init => Types /\ ServesWhenUp
  BY BoundAssumption DEF Init, Types, ServesWhenUp, Mains, Reloads, Loaded

\* A listener that is bound has its file, whichever it replaces.
LEMMA BindStep ==
    ASSUME Types, NEW p \in Paths, StartIPC(p)
    PROVE  /\ listener' = p /\ p # None /\ socket'[p] = "bound"
           /\ socket' \in [Paths -> {"none", "stale", "bound"}]
  BY ConfsAssumption DEF Types, StartIPC, Bind

\* No step breaks the types or deletes the daemon's socket.
LEMMA TypesStep == Types /\ ServesWhenUp /\ [Next]_vars => Types' /\ ServesWhenUp'
  <1> SUFFICES ASSUME Types, ServesWhenUp, [Next]_vars PROVE Types' /\ ServesWhenUp'
    OBVIOUS
  <1> USE DEF mainVars, reloadVars, signals, state, ipc, clientVars, bounds, history,
              Loaded, Mains, Reloads
  <1>1. CASE Load \/ MakeSensors \/ NewProducer \/ AssignProducer
    BY <1>1 DEF Load, MakeSensors, NewProducer, AssignProducer, Types, ServesWhenUp
  <1>2. CASE ChoosePath \/ ProbeDone
    BY <1>2, PathsOf DEF ChoosePath, ProbeDone, MainFrame, Types, ServesWhenUp
  <1>3. CASE Listen
    <2>1. main = "listen" /\ path \in Paths /\ StartIPC(path)
      BY <1>3 DEF Listen, Types
    <2>2. QED
      BY <1>3, <2>1, BindStep DEF Listen, MainFrame, Types, ServesWhenUp
  <1>4. CASE Hup \/ ReloadLoad
    <2>1. CASE Hup
      <3>1. Loaded /\ pending' = pending + 1 /\ pending \in Nat
        BY <2>1 DEF Hup, Types
      <3>2. pending' \in Nat
        BY <3>1
      <3>3. UNCHANGED <<file, mainVars, reloadVars, state, ipc>>
        BY <2>1 DEF Hup
      <3>4. Types'
        BY <3>1, <3>2, <3>3 DEF Types
      <3>5. ServesWhenUp'
        BY <3>3 DEF ServesWhenUp
      <3>6. QED
        BY <3>4, <3>5
    <2>2. CASE ReloadLoad
      <3>1. Loaded /\ pending' \in Nat
        BY <2>2 DEF ReloadLoad, Types
      <3>2. QED
        BY <2>2, <3>1 DEF ReloadLoad, ReloadFrame, Types, ServesWhenUp
    <2>3. QED
      BY <1>4, <2>1, <2>2
  <1>5. CASE ReloadConfig \/ ReloadUpdate \/ ReloadSensors
    BY <1>5 DEF ReloadConfig, ReloadUpdate, ReloadSensors, ReloadFrame, Types, ServesWhenUp
  <1>6. CASE ReloadNewPath \/ ReloadOldPath
    BY <1>6, PathsOf DEF ReloadNewPath, ReloadOldPath, ReloadFrame, Types, ServesWhenUp
  <1>7. CASE ReloadRestart
    <2>1. CASE newPath = oldPath
      BY <1>7, <2>1 DEF ReloadRestart, ReloadFrame, Types, ServesWhenUp
    <2>2. CASE newPath # oldPath
      <3>1. newPath \in Paths /\ StartIPC(newPath)
        BY <1>7, <2>2 DEF ReloadRestart, Types
      <3>2. QED
        BY <1>7, <3>1, BindStep DEF ReloadRestart, ReloadFrame, Types, ServesWhenUp
    <2>3. QED
      BY <2>1, <2>2
  <1>8. CASE ClientProbe \/ ClientProbed \/ ClientKilled \/ Dial
    BY <1>8 DEF ClientProbe, ClientProbed, ClientKilled, Dial, ClientFrame, Types, ServesWhenUp
  <1>9. CASE Edit \/ StartDaemon
    BY <1>9 DEF Edit, StartDaemon, Types, ServesWhenUp
  <1>10. CASE Exit
    BY <1>10 DEF Exit, Types, ServesWhenUp
  <1>11. CASE UNCHANGED vars
    BY <1>11 DEF vars, Types, ServesWhenUp
  <1>12. QED
    BY <1>1, <1>2, <1>3, <1>4, <1>5, <1>6, <1>7, <1>8, <1>9, <1>10, <1>11 DEF Next

-----------------------------------------------------------------------------
(* The configuration in force.                                             *)

\* Nothing is made at first.
LEMMA ConfigInit == Init => ConfigInv
  BY DEF Init, ConfigInv, Sensed, Produced

\* No step breaks the agreement on the configuration.
LEMMA ConfigStep == Types /\ ConfigInv /\ [Next]_vars => ConfigInv'
  <1> SUFFICES ASSUME Types, ConfigInv, [Next]_vars PROVE ConfigInv'
    OBVIOUS
  <1> USE DEF mainVars, reloadVars, signals, state, ipc, clientVars, bounds, history,
              Loaded, Mains, Reloads, Types, ConfigInv, Sensed, Produced
  <1>1. CASE Load
    BY <1>1 DEF Load
  <1>2. CASE MakeSensors
    BY <1>2 DEF MakeSensors, SensorsMuFree
  <1>3. CASE NewProducer
    BY <1>3 DEF NewProducer
  <1>4. CASE AssignProducer
    BY <1>4 DEF AssignProducer
  <1>5. CASE ChoosePath \/ ProbeDone \/ Listen
    BY <1>5 DEF ChoosePath, ProbeDone, Listen, MainFrame
  <1>6. CASE Hup \/ ReloadLoad
    BY <1>6 DEF Hup, ReloadLoad, ReloadFrame
  <1>7. CASE ReloadConfig
    BY <1>7 DEF ReloadConfig, ReloadFrame
  <1>8. CASE ReloadUpdate
    BY <1>8 DEF ReloadUpdate, UpdateOutputs, ReloadFrame
  <1>9. CASE ReloadNewPath \/ ReloadOldPath \/ ReloadRestart
    BY <1>9 DEF ReloadNewPath, ReloadOldPath, ReloadRestart, ReloadFrame
  <1>10. CASE ReloadSensors
    BY <1>10 DEF ReloadSensors, ReloadFrame
  <1>11. CASE ClientProbe \/ ClientProbed \/ ClientKilled \/ Dial
    BY <1>11 DEF ClientProbe, ClientProbed, ClientKilled, Dial, ClientFrame
  <1>12. CASE Edit \/ StartDaemon \/ Exit
    BY <1>12 DEF Edit, StartDaemon, Exit
  <1>13. CASE UNCHANGED vars
    BY <1>13 DEF vars
  <1>14. QED
    BY <1>1, <1>2, <1>3, <1>4, <1>5, <1>6, <1>7, <1>8, <1>9, <1>10, <1>11, <1>12, <1>13
    DEF Next

-----------------------------------------------------------------------------
(* The probes and the status client.                                       *)

\* Nobody probes at first.
LEMMA FindInit == Init => ProbeInv /\ PathInv /\ AnswerInv
  BY DEF Init, ProbeInv, PathInv, AnswerInv, ClientFinds, Probing, ReloadProbes, Loaded

\* ProbeInv depends on who probes, the test file and the client only.
LEMMA ProbeFrame ==
    ASSUME ProbeInv, moved' \in BOOLEAN,
           UNCHANGED <<clash, testFile, client, clientPath>>,
           main' = "remove" <=> main = "remove", ReloadProbes' <=> ReloadProbes
    PROVE  ProbeInv' /\ Place' = Place
  <1>1. Probing' <=> Probing
    BY DEF Probing, ReloadProbes
  <1>2. Place' = Place
    BY <1>1 DEF Place
  <1>3. QED
    BY <1>1, <1>2 DEF ProbeInv

\* A step of one of the three that probe: it creates the test file, finds it
\* there or removes its own.
LEMMA ProbeStep ==
    Types /\ ProbeInv /\ [Next]_vars =>
        /\ ProbeInv'
        /\ ~clash' /\ ~clash /\ main' # "down" => Place' = Place
  <1> SUFFICES ASSUME Types, ProbeInv, [Next]_vars
               PROVE  /\ ProbeInv'
                      /\ ~clash' /\ ~clash /\ main' # "down" => Place' = Place
    OBVIOUS
  <1> USE DEF mainVars, reloadVars, signals, state, ipc, clientVars, bounds, history
  <1>1. CASE Load
    <2>1. clash' = (clash /\ client # "idle") /\ moved' = FALSE
      BY <1>1 DEF Load
    <2>2. /\ main = "load" /\ main' = "sensors" /\ ~ReloadProbes
          /\ UNCHANGED <<testFile, client, clientPath, reload>>
      BY <1>1 DEF Load, Types, Loaded, ReloadProbes
    <2>3. Probing' <=> Probing
      BY <2>2 DEF Probing, ReloadProbes
    <2>4. Place' = Place
      BY <2>2, <2>3 DEF Place
    <2>5. clash' \in BOOLEAN
      BY <2>1
    <2>6. ~clash' => ~clash \/ client = "idle"
      BY <2>1
    <2>7. QED
      BY <2>1, <2>2, <2>3, <2>4, <2>5, <2>6 DEF ProbeInv, Probing, ReloadProbes
  <1>2. CASE MakeSensors \/ NewProducer \/ AssignProducer
    BY <1>2, ProbeFrame DEF MakeSensors, NewProducer, AssignProducer, ProbeInv, ReloadProbes
  <1>3. CASE ChoosePath
    <2>1. CASE UNCHANGED <<testFile, clash>> /\ main' = "listen"
      BY <1>3, <2>1, ProbeFrame DEF ChoosePath, MainFrame, ProbeInv, ReloadProbes
    <2>2. CASE Create /\ main' = "remove"
      BY <1>3, <2>2 DEF ChoosePath, MainFrame, Create, ProbeInv, Place, Probing, ReloadProbes
    <2>3. CASE Occupied /\ main' = "listen"
      <3>1. CASE Probing
        BY <1>3, <2>3, <3>1 DEF ChoosePath, MainFrame, Occupied, ProbeInv
      <3>2. CASE ~Probing
        BY <1>3, <2>3, <3>2, ProbeFrame
        DEF ChoosePath, MainFrame, Occupied, ProbeInv, ReloadProbes
      <3>3. QED
        BY <3>1, <3>2
    <2>4. QED
      BY <1>3, <2>1, <2>2, <2>3 DEF ChoosePath
  <1>4. CASE ProbeDone
    BY <1>4 DEF ProbeDone, MainFrame, Remove, ProbeInv, Place, Probing, ReloadProbes
  <1>5. CASE Listen
    BY <1>5, ProbeFrame DEF Listen, MainFrame, ProbeInv, ReloadProbes
  <1>6. CASE Hup \/ ReloadLoad \/ ReloadConfig \/ ReloadUpdate
    BY <1>6, ProbeFrame
    DEF Hup, ReloadLoad, ReloadConfig, ReloadUpdate, ReloadFrame, ProbeInv, ReloadProbes
  <1>7. CASE ReloadNewPath \/ ReloadOldPath
    <2>1. CASE /\ UNCHANGED <<testFile, clash>>
               /\ ~ReloadProbes /\ reload' \in {"old", "restart"}
      BY <1>7, <2>1, ProbeFrame
      DEF ReloadNewPath, ReloadOldPath, ReloadFrame, ProbeInv, ReloadProbes
    <2>2. CASE Create /\ ~ReloadProbes /\ reload' \in {"new remove", "old remove"}
      BY <1>7, <2>2
      DEF ReloadNewPath, ReloadOldPath, ReloadFrame, Create, ProbeInv, Place, Probing,
          ReloadProbes
    <2>3. CASE Occupied /\ ~ReloadProbes /\ reload' \in {"old", "restart"}
      <3>1. CASE Probing
        BY <1>7, <2>3, <3>1
        DEF ReloadNewPath, ReloadOldPath, ReloadFrame, Occupied, ProbeInv
      <3>2. CASE ~Probing
        BY <1>7, <2>3, <3>2, ProbeFrame
        DEF ReloadNewPath, ReloadOldPath, ReloadFrame, Occupied, ProbeInv, ReloadProbes
      <3>3. QED
        BY <3>1, <3>2
    <2>4. CASE Remove /\ ReloadProbes /\ reload' \in {"old", "restart"}
      BY <1>7, <2>4
      DEF ReloadNewPath, ReloadOldPath, ReloadFrame, Remove, ProbeInv, Place, Probing,
          ReloadProbes
    <2>5. QED
      BY <1>7, <2>1, <2>2, <2>3, <2>4 DEF ReloadNewPath, ReloadOldPath, ReloadProbes
  <1>8. CASE ReloadRestart \/ ReloadSensors
    BY <1>8, ProbeFrame DEF ReloadRestart, ReloadSensors, ReloadFrame, ProbeInv, ReloadProbes
  <1>9. CASE ClientProbe
    <2>1. CASE Create /\ client' = "remove"
      BY <1>9, <2>1 DEF ClientProbe, ClientFrame, Create, ProbeInv, Place, Probing, ReloadProbes
    <2>2. CASE Occupied /\ client' = "dial" /\ clientPath' = TmpPath
      <3>1. CASE Probing
        BY <1>9, <2>2, <3>1 DEF ClientProbe, ClientFrame, Occupied, ProbeInv
      <3>2. CASE ~Probing
        <4>1. /\ UNCHANGED <<main, reload, testFile, clash, moved>> /\ testFile
              /\ client = "idle"
          BY <1>9, <2>2, <3>2 DEF ClientProbe, ClientFrame, Occupied, ProbeInv
        <4>2. ~Probing'
          BY <2>2, <3>2, <4>1 DEF Probing
        <4>3. Place' = Place /\ Place' = TmpPath
          BY <3>2, <4>1, <4>2 DEF Place
        <4>4. QED
          BY <2>2, <4>1, <4>2, <4>3 DEF ProbeInv, ReloadProbes
      <3>3. QED
        BY <3>1, <3>2
    <2>3. QED
      BY <1>9, <2>1, <2>2 DEF ClientProbe
  <1>10. CASE ClientProbed
    BY <1>10 DEF ClientProbed, ClientFrame, Remove, ProbeInv, Place, Probing, ReloadProbes
  <1>11. CASE ClientKilled
    BY <1>11 DEF ClientKilled, ClientFrame, ProbeInv
  <1>12. CASE Dial
    BY <1>12 DEF Dial, ClientFrame, ProbeInv, Place, Probing, ReloadProbes
  <1>13. CASE Edit \/ StartDaemon
    <2>1. moved' \in BOOLEAN
      BY <1>13 DEF Edit, StartDaemon, ProbeInv
    <2>2. QED
      BY <1>13, <2>1, ProbeFrame DEF Edit, StartDaemon, ReloadProbes
  <1>14. CASE Exit
    <2>1. clash' = (clash \/ client # "idle") /\ main' = "down" /\ reload' = "idle"
          /\ UNCHANGED <<testFile, client, clientPath, moved>>
      BY <1>14 DEF Exit
    <2>2. clash' \in BOOLEAN /\ (~clash' => client = "idle")
      BY <2>1
    <2>3. QED
      BY <2>1, <2>2 DEF ProbeInv, Probing, ReloadProbes
  <1>15. CASE UNCHANGED vars
    BY <1>15, ProbeFrame DEF vars, ProbeInv, ReloadProbes
  <1>16. QED
    BY <1>1, <1>2, <1>3, <1>4, <1>5, <1>6, <1>7, <1>8, <1>9, <1>10, <1>11, <1>12, <1>13,
       <1>14, <1>15
    DEF Next

\* Only the next start forgets that probes met or that the path has moved.
LEMMA Remembered ==
    ASSUME ProbeInv, [Next]_vars, ~Load
    PROVE  (clash => clash') /\ (moved => moved')
  <1> USE DEF mainVars, reloadVars, signals, state, ipc, clientVars, bounds, history
  <1>1. clash => clash'
    BY DEF Next, vars, MakeSensors, NewProducer, AssignProducer, ChoosePath, ProbeDone,
           Listen, Hup, ReloadLoad, ReloadConfig, ReloadUpdate, UpdateOutputs,
           ReloadNewPath, ReloadOldPath, ReloadRestart, ReloadSensors,
           ClientProbe, ClientProbed, ClientKilled, Dial, ClientFrame, Edit,
           StartDaemon, Exit, Create, Occupied, Remove
  <1>2. moved => moved'
    BY DEF Next, vars, MakeSensors, NewProducer, AssignProducer, ChoosePath, ProbeDone,
           Listen, MainFrame, Hup, ReloadLoad, ReloadConfig, ReloadUpdate, ReloadFrame,
           ReloadNewPath, ReloadOldPath, ReloadRestart, ReloadSensors,
           ClientProbe, ClientProbed, ClientKilled, Dial, ClientFrame, Edit,
           StartDaemon, Exit
  <1>3. QED
    BY <1>1, <1>2

\* Until then the wanted path stays.
LEMMA WantedKept ==
    ASSUME Types, ProbeInv, [Next]_vars, ~Load, main' # "down", ~clash', ~moved'
    PROVE  ~clash /\ ~moved /\ file'.socket = file.socket /\ Wanted' = Wanted
  <1> USE DEF mainVars, reloadVars, signals, state, ipc, clientVars, bounds, history
  <1>1. ~clash /\ ~moved
    BY Remembered
  <1>2. file'.socket = file.socket
    <2>1. CASE Edit
      BY <2>1 DEF Edit
    <2>2. CASE UNCHANGED file
      BY <2>2
    <2>3. QED
      BY <2>1, <2>2
      DEF Next, vars, MakeSensors, NewProducer, AssignProducer, ChoosePath, ProbeDone,
          Listen, MainFrame, Hup, ReloadLoad, ReloadConfig, ReloadUpdate, ReloadFrame,
          ReloadNewPath, ReloadOldPath, ReloadRestart, ReloadSensors,
          ClientProbe, ClientProbed, ClientKilled, Dial, ClientFrame,
          StartDaemon, Exit
  <1>3. Place' = Place
    BY <1>1, ProbeStep
  <1>4. QED
    BY <1>1, <1>2, <1>3 DEF Wanted

\* Every step keeps the paths in use at the wanted one.
LEMMA PathStep ==
    Types /\ ServesWhenUp /\ ProbeInv /\ PathInv /\ [Next]_vars => PathInv'
  <1> SUFFICES ASSUME Types, ServesWhenUp, ProbeInv, PathInv, [Next]_vars, ~clash', ~moved'
               PROVE  PathInv'
    BY DEF PathInv
  <1> USE DEF mainVars, reloadVars, signals, state, ipc, clientVars, bounds, history,
              Loaded, ReloadProbes
  <1>1. CASE Load
    BY <1>1 DEF Load, Types, PathInv
  <1>2. CASE Exit
    BY <1>2 DEF Exit, PathInv
  <1>3. CASE main' = "down"
    <2>1. reload' = "idle"
      BY <1>3, TypesStep DEF Types
    <2>2. QED
      BY <1>3, <2>1 DEF PathInv
  <1>4. CASE ~Load /\ main' # "down"
    <2>1. ~clash /\ ~moved /\ file'.socket = file.socket /\ Wanted' = Wanted
      BY <1>4, WantedKept
    <2>2. CASE MakeSensors \/ NewProducer \/ AssignProducer \/ Hup
      BY <2>1, <2>2 DEF MakeSensors, NewProducer, AssignProducer, Hup, PathInv
    <2>3. CASE ChoosePath
      <3>1. CASE UNCHANGED testFile /\ config.socket # Default
        BY <2>1, <2>3, <3>1 DEF ChoosePath, MainFrame, PathInv, Wanted
      <3>2. CASE config.socket = Default
        BY <2>1, <2>3, <3>2
        DEF ChoosePath, MainFrame, PathInv, Wanted, Place, Occupied, Create, ProbeInv
      <3>3. QED
        BY <2>3, <3>1, <3>2 DEF ChoosePath
    <2>4. CASE ProbeDone
      BY <2>1, <2>4 DEF ProbeDone, MainFrame, Remove, PathInv, Wanted, Place
    <2>5. CASE Listen
      BY <2>1, <2>5 DEF Listen, MainFrame, StartIPC, PathInv
    <2>6. CASE ReloadLoad \/ ReloadConfig \/ ReloadUpdate \/ ReloadSensors
      BY <2>1, <2>6
      DEF ReloadLoad, ReloadConfig, ReloadUpdate, ReloadSensors, ReloadFrame, PathInv, Types
    <2>7. CASE ReloadNewPath
      BY <2>1, <2>7
      DEF ReloadNewPath, ReloadFrame, Create, Occupied, Remove, PathInv, Wanted, Place, ProbeInv
    <2>8. CASE ReloadOldPath
      <3>1. CASE reload = "old" /\ config.socket # Default
        BY <2>1, <2>8, <3>1 DEF Types, ReloadOldPath, ReloadFrame, PathInv, Wanted
      <3>2. CASE reload = "old" /\ config.socket = Default
        <4>1. /\ \/ reload' = "old remove" /\ UNCHANGED oldPath
                 \/ /\ testFile /\ (Probing => clash') /\ UNCHANGED testFile
                    /\ reload' = "restart" /\ oldPath' = TmpPath
              /\ UNCHANGED <<main, path, listener, config, newConfig, newPath, file>>
          BY <2>8, <3>2 DEF ReloadOldPath, ReloadFrame, Create, Occupied
        <4>2. file.socket = Default /\ newPath = Wanted
          BY <2>1, <3>2 DEF Types, PathInv
        <4>3. reload' = "restart" => oldPath' = Wanted
          BY <3>2, <4>1, <4>2 DEF Wanted, Place
        <4>4. QED
          BY <2>1, <3>2, <4>1, <4>2, <4>3 DEF PathInv
      <3>3. CASE reload = "old remove"
        <4>1. /\ testFile' = FALSE /\ reload' = "restart" /\ oldPath' = RunPath
              /\ UNCHANGED <<main, path, listener, config, newConfig, newPath, file>>
          BY <2>8, <3>3 DEF ReloadOldPath, ReloadFrame, Remove
        <4>2. Wanted' = RunPath
          BY <2>1, <3>3, <4>1 DEF PathInv, Wanted, Place
        <4>3. QED
          BY <2>1, <3>3, <4>1, <4>2 DEF PathInv
      <3>4. QED
        BY <2>8, <3>1, <3>2, <3>3 DEF ReloadOldPath
    <2>9. CASE ReloadRestart
      BY <2>1, <2>9 DEF ReloadRestart, ReloadFrame, PathInv
    <2>10. CASE ClientProbe \/ ClientProbed \/ ClientKilled \/ Dial
      BY <2>1, <2>10 DEF ClientProbe, ClientProbed, ClientKilled, Dial, ClientFrame, PathInv
    <2>11. CASE Edit \/ StartDaemon
      BY <2>1, <2>11 DEF Edit, StartDaemon, PathInv, Types
    <2>12. CASE UNCHANGED vars
      BY <2>1, <2>12 DEF vars, PathInv
    <2>13. QED
      BY <1>2, <1>4, <2>2, <2>3, <2>4, <2>5, <2>6, <2>7, <2>8, <2>9, <2>10, <2>11, <2>12
      DEF Next
  <1>5. QED
    BY <1>1, <1>3, <1>4

\* Every step keeps the answers explained.
LEMMA AnswerStep ==
    Types /\ ServesWhenUp /\ ProbeInv /\ PathInv /\ AnswerInv /\ [Next]_vars
        => AnswerInv'
  <1> SUFFICES ASSUME Types, ServesWhenUp, ProbeInv, PathInv, AnswerInv, [Next]_vars
               PROVE  AnswerInv'
    OBVIOUS
  <1> USE DEF mainVars, reloadVars, signals, state, ipc, clientVars, bounds, history
  <1>1. CASE Load
    BY <1>1 DEF Load, AnswerInv, ClientFinds, Loaded
  <1>2. CASE Exit
    BY <1>2 DEF Exit, AnswerInv, ClientFinds
  <1>3. CASE Dial
    <2>1. SUFFICES ASSUME answer' = "refused" PROVE Loaded' /\ (clash' \/ moved')
      BY DEF AnswerInv, ClientFinds
    <2>2. /\ main = "up" /\ client = "dial" /\ UNCHANGED <<main, clash, moved>>
          /\ ~(listener = Target /\ socket[Target] = "bound")
      BY <1>3, <2>1 DEF Dial, ClientFrame
    <2>3. ~clash /\ ~moved => listener = Wanted /\ clientPath = Place
      BY <2>2 DEF PathInv, ProbeInv
    <2>4. ~clash /\ ~moved => listener = Target
      BY <2>3 DEF Wanted, Target
    <2>5. socket[listener] = "bound"
      BY <2>2 DEF ServesWhenUp
    <2>6. QED
      BY <2>2, <2>4, <2>5 DEF Loaded
  <1>4. CASE ~Load /\ ~Exit /\ ~Dial
    <2>1. UNCHANGED answer /\ (Loaded => Loaded')
      BY <1>4
      DEF Next, vars, MakeSensors, NewProducer, AssignProducer, ChoosePath, ProbeDone,
          Listen, MainFrame, Hup, ReloadLoad, ReloadConfig, ReloadUpdate, ReloadFrame,
          ReloadNewPath, ReloadOldPath, ReloadRestart, ReloadSensors,
          ClientProbe, ClientProbed, ClientKilled, ClientFrame, Edit,
          StartDaemon, Loaded
    <2>2. QED
      BY <1>4, <2>1, Remembered DEF AnswerInv, ClientFinds
  <1>5. QED
    BY <1>1, <1>2, <1>3, <1>4

-----------------------------------------------------------------------------
(* Theorems.                                                               *)

\* A restart or a reload that rebinds never leaves the daemon without its
\* socket, or with one it has deleted itself.
THEOREM Serves == Spec => []ServesWhenUp
  BY TypesInit, TypesStep, PTL DEF Spec

\* Reloads that fall into the start-up leave no mixture of configurations.
THEOREM OneConfig == Spec => []OneConfigInForce
  <1>1. Spec => []Types
    BY TypesInit, TypesStep, PTL DEF Spec
  <1>2. ConfigInv => OneConfigInForce
    BY DEF ConfigInv, OneConfigInForce, Sensed, Produced
  <1>3. QED
    BY <1>1, <1>2, ConfigInit, ConfigStep, PTL DEF Spec

\* A status client is never refused by a daemon that is up, unless two
\* probes of the default path met or the file has named another socket
\* since the daemon read it (DefaultSocketPath and queryStatus, ipc.go).
THEOREM ClientFindsDaemon == Spec => []ClientFinds
  <1> DEFINE FindInv ==
        Types /\ ServesWhenUp /\ ProbeInv /\ PathInv /\ AnswerInv
  <1>1. Init => FindInv
    BY TypesInit, FindInit
  <1>2. FindInv /\ [Next]_vars => FindInv'
    BY TypesStep, ProbeStep, PathStep, AnswerStep
  <1>3. FindInv => ClientFinds
    BY DEF AnswerInv
  <1> HIDE DEF FindInv
  <1>4. QED
    BY <1>1, <1>2, <1>3, PTL DEF Spec
=============================================================================
