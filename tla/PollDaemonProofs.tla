-------------------------- MODULE PollDaemonProofs --------------------------
(* Proofs of the safety properties of PollDaemon, for any number of        *)
(* workers, any set of configurations and any bounds.                      *)
EXTENDS PollDaemon, SequenceTheorems, FiniteSetTheorems, TLAPS

\* A bounded non-empty set of positions has a greatest element: what
\* existingMap keeps of the sensors with one name.
LEMMA GreatestPosition ==
    ASSUME NEW n \in Nat, NEW S \in SUBSET (1 .. n), S # {}
    PROVE  \E i \in S : \A j \in S : j <= i
  <1> DEFINE Above(i) == i .. n
             T == {Above(i) : i \in S}
  <1>1. IsFiniteSet(1 .. n)
    BY FS_Interval
  <1>2. IsWellFoundedOn(StrictSubsetOrdering(1 .. n), SUBSET (1 .. n))
    BY <1>1, FS_StrictSubsetOrderingWellFounded, FS_FiniteSubsetsOfFinite
  <1>3. T \subseteq SUBSET (1 .. n) /\ T # {}
    <2>1. \A j \in S : Above(j) \in SUBSET (1 .. n)
      OBVIOUS
    <2>2. QED
      BY <2>1
  <1>4. PICK t \in T : \A u \in T : <<u, t>> \notin StrictSubsetOrdering(1
    .. n)
    <2> HIDE DEF T
    <2>1. \E x \in T : \A y \in T : ~ (<<y, x>> \in StrictSubsetOrdering(1
      .. n))
      BY <1>2, <1>3, WFMin
    <2>2. QED
      BY <2>1
  <1>5. PICK i \in S : t = Above(i)
    OBVIOUS
  <1>6. ASSUME NEW j \in S, i < j PROVE FALSE
    <2>1. Above(j) \in T
      OBVIOUS
    <2>2. Above(j) \subseteq Above(i) /\ i \in Above(i) /\ i \notin Above(j)
      BY <1>6
    <2> HIDE DEF T, Above
    <2>3. <<Above(j), t>> \in StrictSubsetOrdering(1 .. n)
      BY <1>3, <1>5, <2>1, <2>2 DEF StrictSubsetOrdering
    <2>4. QED
      BY <1>4, <2>1, <2>3
  <1>7. QED
    BY <1>6

\* existingMap maps a name that occurs to a SafeSensor of that name.
LEMMA ExistingMapType ==
    ASSUME sensors \in Seq(Made), made \in Nat,
           NEW name, Existing(name) # {}
    PROVE  /\ ExistingMap(name) \in Made
           /\ \E i \in DOMAIN sensors : sensors[i] = ExistingMap(name)
           /\ def[ExistingMap(name)].name = name
  <1>1. Existing(name) \in SUBSET (1 .. Len(sensors)) /\ Len(sensors) \in Nat
    BY DEF Existing
  <1>2. \E i \in Existing(name) : \A j \in Existing(name) : j <= i
    BY <1>1, GreatestPosition
  <1> DEFINE last == CHOOSE i \in Existing(name) :
                         \A j \in Existing(name) : j <= i
  <1>3. last \in Existing(name)
    BY <1>2
  <1>4. ExistingMap(name) = sensors[last]
    BY DEF ExistingMap
  <1> HIDE DEF last
  <1>5. last \in 1 .. Len(sensors) /\ def[sensors[last]].name = name
    BY <1>3 DEF Existing
  <1>6. QED
    BY <1>1, <1>4, <1>5

-----------------------------------------------------------------------------
\* A part of the type invariant survives a step that leaves its variables.
LEMMA Frame ==
    /\ SensorsType /\ UNCHANGED <<config, sensors, sensorVars>> =>
      SensorsType'
    /\ QueuesType /\ UNCHANGED <<made, queueVars>> => QueuesType'
    /\ MetricsType /\ UNCHANGED metricVars => MetricsType'
    /\ WorkersType /\ UNCHANGED <<made, workerVars>> => WorkersType'
    /\ SchedType /\ UNCHANGED <<made, schedVars>> => SchedType'
    /\ SignalsType /\ UNCHANGED signalVars => SignalsType'
    /\ ReloadType /\ UNCHANGED <<sensors, made, def, reloadVars>> =>
      ReloadType'
  <1>1. SensorsType /\ UNCHANGED <<config, sensors, sensorVars>> =>
    SensorsType'
    BY DEF SensorsType, Made, sensorVars
  <1>2. QueuesType /\ UNCHANGED <<made, queueVars>> => QueuesType'
    BY DEF QueuesType, Made, queueVars
  <1>3. MetricsType /\ UNCHANGED metricVars => MetricsType'
    BY DEF MetricsType, metricVars
  <1>4. WorkersType /\ UNCHANGED <<made, workerVars>> => WorkersType'
    BY DEF WorkersType, Made, workerVars
  <1>5. SchedType /\ UNCHANGED <<made, schedVars>> => SchedType'
    BY DEF SchedType, Made, schedVars
  <1>6. SignalsType /\ UNCHANGED signalVars => SignalsType'
    BY DEF SignalsType, signalVars
  <1>7. ReloadType /\ UNCHANGED <<sensors, made, def, reloadVars>> =>
    ReloadType'
    BY DEF ReloadType, Made, Existing, NewDef, reloadVars
  <1>8. QED
    BY <1>1, <1>2, <1>3, <1>4, <1>5, <1>6, <1>7

\* Every step of the daemon keeps the types.
LEMMA TypeStep == TypeOK /\ [Next]_vars => TypeOK'
  <1> SUFFICES ASSUME TypeOK, [Next]_vars
               PROVE  TypeOK'
    OBVIOUS
  <1> USE DEF TypeOK, sensorVars, queueVars, metricVars, workerVars,
    schedVars,
              signalVars, reloadVars, WorkerFrame, ConsumerFrame, SchedFrame,
              SignalFrame
  <1>1. ASSUME NEW w \in Workers, TakeHigh(w) PROVE TypeOK'
    <2>1. highQ \in Seq(Made) /\ highQ # <<>>
      BY <1>1 DEF QueuesType, TakeHigh
    <2>2. Head(highQ) \in Made
      BY <2>1, HeadTailProperties
    <2>3. QueuesType'
      BY <1>1
      DEF QueuesType, Made, TakeHigh
    <2>4. WorkersType'
      BY <1>1, <2>2 DEF WorkersType, Made, NoSS, TakeHigh
    <2>5. QED
      BY <1>1, Frame, <2>3, <2>4 DEF TakeHigh
  <1>2. ASSUME NEW w \in Workers, FindHighEmpty(w) PROVE TypeOK'
    <2>1. WorkersType'
      BY <1>2, BoundAssumption
      DEF WorkersType, Made, NoSS, FindHighEmpty
    <2>2. QED
      BY <1>2, Frame, <2>1 DEF FindHighEmpty
  <1>3. ASSUME NEW w \in Workers, TakeLow(w) PROVE TypeOK'
    <2>1. lowQ \in Seq(Made) /\ lowQ # <<>>
      BY <1>3 DEF QueuesType, TakeLow
    <2>2. Head(lowQ) \in Made
      BY <2>1, HeadTailProperties
    <2>3. QueuesType'
      BY <1>3
      DEF QueuesType, Made, TakeLow
    <2>4. WorkersType'
      BY <1>3, <2>2 DEF WorkersType, Made, NoSS, TakeLow
    <2>5. QED
      BY <1>3, Frame, <2>3, <2>4 DEF TakeLow
  <1>4. ASSUME NEW w \in Workers, PreemptLow(w) PROVE TypeOK'
    <2>1. highQ \in Seq(Made) /\ highQ # <<>>
      BY <1>4 DEF QueuesType, PreemptLow
    <2>2. Head(highQ) \in Made
      BY <2>1, HeadTailProperties
    <2>3. QueuesType'
      BY <1>4
      DEF QueuesType, Made, PreemptLow
    <2>4. WorkersType'
      BY <1>4, <2>2 DEF WorkersType, Made, NoSS, PreemptLow
    <2>5. QED
      BY <1>4, Frame, <2>3, <2>4 DEF PreemptLow
  <1>5. ASSUME NEW w \in Workers, KeepLow(w) PROVE TypeOK'
    <2>1. WorkersType'
      BY <1>5, BoundAssumption
      DEF WorkersType, Made, NoSS, KeepLow
    <2>2. QED
      BY <1>5, Frame, <2>1 DEF KeepLow
  <1>6. ASSUME NEW w \in Workers, WorkerReturn(w) PROVE TypeOK'
    <2>1. WorkersType'
      BY <1>6, BoundAssumption
      DEF WorkersType, Made, NoSS, WorkerReturn
    <2>2. QED
      BY <1>6, Frame, <2>1 DEF WorkerReturn
  <1>7. ASSUME NEW w \in Workers, BeginCycle(w) PROVE TypeOK'
    <2>1. SensorsType'
      BY <1>7, BoundAssumption
      DEF SensorsType, Handles, Made, BeginCycle, Unlocked
    <2>2. WorkersType'
      BY <1>7, BoundAssumption
      DEF WorkersType, Made, NoSS, BeginCycle, Unlocked
    <2>3. QED
      BY <1>7, Frame, <2>1, <2>2 DEF BeginCycle
  <1>8. ASSUME NEW w \in Workers, SkipCycle(w) PROVE TypeOK'
    <2>1. WorkersType'
      BY <1>8, BoundAssumption
      DEF WorkersType, Made, NoSS, SkipCycle, ReturnFromSensor
    <2>2. QED
      BY <1>8, Frame, <2>1 DEF SkipCycle
  <1>9. ASSUME NEW w \in Workers, Publish(w) PROVE TypeOK'
    <2>1. MetricsType'
      BY <1>9, CapAssumption
      DEF MetricsType, Publish
    <2>2. WorkersType'
      BY <1>9, BoundAssumption
      DEF WorkersType, Made, NoSS, Publish
    <2>3. QED
      BY <1>9, Frame, <2>1, <2>2 DEF Publish
  <1>10. ASSUME NEW w \in Workers, EndCycle(w) PROVE TypeOK'
    <2>1. SensorsType'
      <3>1. CASE Fail(wss[w])
        <4>1. wss[w] \in Handles
          BY <1>10, BoundAssumption
          DEF WorkersType, SensorsType, EndCycle, Made, NoSS, Handles
        <4>2. fails[wss[w]] + 1 \in 0 .. MaxFailures
          BY <3>1, <4>1, BoundAssumption DEF Fail, SensorsType
        <4>3. fails' \in [Handles -> 0 .. MaxFailures]
          BY <3>1, <4>1, <4>2 DEF Fail, SensorsType
        <4>4. low' \in [Handles -> BOOLEAN]
          BY <3>1, <4>1 DEF Fail, SensorsType
        <4>5. QED
          BY <1>10, <4>3, <4>4 DEF SensorsType, EndCycle, Made
      <3>2. CASE Succeed(wss[w])
        <4>1. fails' \in [Handles -> 0 .. MaxFailures]
          <5>1. 0 \in 0 .. MaxFailures
            BY BoundAssumption
          <5>2. QED
            BY <3>2, <5>1 DEF Succeed, SensorsType
        <4>2. low' \in [Handles -> BOOLEAN]
          BY <3>2 DEF Succeed, SensorsType
        <4>3. QED
          BY <1>10, <4>1, <4>2 DEF SensorsType, EndCycle, Made
      <3>3. QED
        BY <1>10, <3>1, <3>2 DEF EndCycle
    <2>2. WorkersType'
      BY <1>10, BoundAssumption
      DEF WorkersType, Made, NoSS, EndCycle, Fail, Succeed
    <2>3. QED
      BY <1>10, Frame, <2>1, <2>2 DEF EndCycle
  <1>11. ASSUME NEW w \in Workers, Unlock(w) PROVE TypeOK'
    <2>1. SensorsType'
      BY <1>11, BoundAssumption
      DEF SensorsType, Handles, Made, Unlock, Released, ReturnFromSensor
    <2>2. WorkersType'
      BY <1>11, BoundAssumption
      DEF WorkersType, Made, NoSS, Unlock, Released, ReturnFromSensor
    <2>3. QED
      BY <1>11, Frame, <2>1, <2>2 DEF Unlock
  <1>12. ASSUME Consume PROVE TypeOK'
    <2>1. MetricsType'
      BY <1>12, CapAssumption
      DEF MetricsType, Consume
    <2>2. QED
      BY <1>12, Frame, <2>1 DEF Consume
  <1>13. ASSUME ConsumerReturn PROVE TypeOK'
    <2>1. MetricsType'
      BY <1>13, CapAssumption
      DEF MetricsType, ConsumerReturn, RangeEnds
    <2>2. QED
      BY <1>13, Frame, <2>1 DEF ConsumerReturn
  <1>14. ASSUME CloseMetrics PROVE TypeOK'
    <2>1. MetricsType'
      BY <1>14, CapAssumption
      DEF MetricsType, CloseMetrics, WorkersDone
    <2>2. QED
      BY <1>14, Frame, <2>1 DEF CloseMetrics
  <1>15. ASSUME SchedCancelled PROVE TypeOK'
    <2>1. SchedType'
      BY <1>15
      DEF SchedType, Made, SchedCancelled
    <2>2. QED
      BY <1>15, Frame, <2>1 DEF SchedCancelled
  <1>16. ASSUME SchedSnapshot PROVE TypeOK'
    <2>1. SchedType'
      <3>1. sensors \in Seq(Made) /\ made' = made
        BY <1>16 DEF SensorsType, SchedSnapshot
      <3>2. sidx = 1
        BY <1>16 DEF SchedType, SchedSnapshot
      <3>3. sensors # <<>> => 1 <= Len(sensors)
        BY <3>1, EmptySeq
      <3>4. QED
        BY <1>16, <3>1, <3>2, <3>3 DEF SchedType, SchedSnapshot, Made
    <2>2. QED
      BY <1>16, Frame, <2>1 DEF SchedSnapshot
  <1>17. ASSUME SchedActive PROVE TypeOK'
    <2>1. SchedType'
      BY <1>17
      DEF SchedType, Made, SchedActive, SensorsMuHeld
    <2>2. QED
      BY <1>17, Frame, <2>1 DEF SchedActive
  <1>18. ASSUME SchedRemoved PROVE TypeOK'
    <2>1. SchedType'
      <3>1. scur \in Seq(Made) /\ Len(scur) \in Nat /\ made' = made
        BY <1>18 DEF SchedType, SchedRemoved
      <3>2. sidx \in 1 .. Len(scur) /\ spass \in {"high", "low"}
        BY <1>18, <3>1 DEF SchedType, SchedRemoved
      <3>3. CASE sidx < Len(scur) /\ sidx' = sidx + 1 /\ spc' = "each"
                 /\ UNCHANGED <<spass, scur>>
        BY <3>1, <3>2, <3>3 DEF SchedType, Made
      <3>4. CASE sidx' = 1 /\ spass' = "low" /\ spc' = "each" /\ UNCHANGED
        scur
        BY <3>1, <3>2, <3>4 DEF SchedType, Made
      <3>5. CASE sidx' = 1 /\ spass' = "high" /\ spc' = "sleep" /\ scur' =
        <<>>
        BY <3>5, EmptySeq DEF SchedType, Made
      <3>6. QED
        BY <1>18, <3>3, <3>4, <3>5 DEF SchedRemoved, SchedNext
    <2>2. QED
      BY <1>18, Frame, <2>1 DEF SchedRemoved
  <1>19. ASSUME SchedSend PROVE TypeOK'
    <2>1. QueuesType'
      <3>1. scur[sidx] \in Made
        <4>1. scur \in Seq(Made) /\ sidx \in 1 .. Len(scur)
          BY <1>19, LenProperties DEF SchedType, SchedSend
        <4>2. QED
          BY <4>1, ElementOfSeq
      <3>2. highQ \in Seq(Made) /\ lowQ \in Seq(Made)
        BY DEF QueuesType
      <3>3. \A cap : /\ Enqueue(highQ, cap, scur[sidx]) \in Seq(Made)
                     /\ Enqueue(lowQ, cap, scur[sidx]) \in Seq(Made)
        BY <3>1, <3>2, AppendProperties DEF Enqueue
      <3>4. highQ' \in Seq(Made) /\ lowQ' \in Seq(Made)
        BY <1>19, <3>2, <3>3 DEF SchedSend
      <3>5. QED
        BY <1>19, <3>4 DEF QueuesType, SchedSend, Made
    <2>2. SchedType'
      <3>1. scur \in Seq(Made) /\ Len(scur) \in Nat /\ made' = made
        BY <1>19 DEF SchedType, SchedSend
      <3>2. sidx \in 1 .. Len(scur) /\ spass \in {"high", "low"}
        BY <1>19, <3>1 DEF SchedType, SchedSend
      <3>3. CASE sidx < Len(scur) /\ sidx' = sidx + 1 /\ spc' = "each"
                 /\ UNCHANGED <<spass, scur>>
        BY <3>1, <3>2, <3>3 DEF SchedType, Made
      <3>4. CASE sidx' = 1 /\ spass' = "low" /\ spc' = "each" /\ UNCHANGED
        scur
        BY <3>1, <3>2, <3>4 DEF SchedType, Made
      <3>5. CASE sidx' = 1 /\ spass' = "high" /\ spc' = "sleep" /\ scur' =
        <<>>
        BY <3>5, EmptySeq DEF SchedType, Made
      <3>6. QED
        BY <1>19, <3>3, <3>4, <3>5 DEF SchedSend, SchedNext
    <2>3. QED
      BY <1>19, Frame, <2>1, <2>2 DEF SchedSend
  <1>20. ASSUME SchedWake PROVE TypeOK'
    <2>1. SchedType'
      BY <1>20
      DEF SchedType, Made, SchedWake
    <2>2. QED
      BY <1>20, Frame, <2>1 DEF SchedWake
  <1>21. ASSUME SchedCloseLow PROVE TypeOK'
    <2>1. QueuesType'
      BY <1>21
      DEF QueuesType, Made, SchedCloseLow
    <2>2. SchedType'
      BY <1>21
      DEF SchedType, Made, SchedCloseLow
    <2>3. QED
      BY <1>21, Frame, <2>1, <2>2 DEF SchedCloseLow
  <1>22. ASSUME SchedCloseHigh PROVE TypeOK'
    <2>1. QueuesType'
      BY <1>22
      DEF QueuesType, Made, SchedCloseHigh
    <2>2. SchedType'
      BY <1>22
      DEF SchedType, Made, SchedCloseHigh
    <2>3. QED
      BY <1>22, Frame, <2>1, <2>2 DEF SchedCloseHigh
  <1>23. ASSUME SendHup PROVE TypeOK'
    <2>1. SignalsType'
      BY <1>23, BoundAssumption
      DEF SignalsType, SendHup, Notify
    <2>2. QED
      BY <1>23, Frame, <2>1 DEF SendHup
  <1>24. ASSUME SendTerm PROVE TypeOK'
    <2>1. SignalsType'
      BY <1>24, BoundAssumption
      DEF SignalsType, SendTerm, Notify
    <2>2. QED
      BY <1>24, Frame, <2>1 DEF SendTerm
  <1>25. ASSUME ReceiveTerm PROVE TypeOK'
    <2>1. SignalsType'
      BY <1>25, BoundAssumption
      DEF SignalsType, ReceiveTerm
    <2>2. ReloadType'
      BY <1>25
      DEF ReloadType, Made, ReceiveTerm
    <2>3. QED
      BY <1>25, Frame, <2>1, <2>2 DEF ReceiveTerm
  <1>26. ASSUME ReceiveHup PROVE TypeOK'
    <2>1. SignalsType'
      BY <1>26, BoundAssumption
      DEF SignalsType, ReceiveHup
    <2>2. ReloadType'
      <3>1. \A c \in Configs : Len(c.sensors) \in Nat
        BY ConfigsAssumption, LenProperties
      <3>2. CASE UNCHANGED <<rpc, rnew>>
        BY <1>26, <3>2 DEF ReloadType, ReceiveHup, Made
      <3>3. ASSUME NEW c \in Configs, made + Len(c.sensors) <= MaxHandles,
                   rnew' = c, rpc' = "lock"
            PROVE  ReloadType'
        BY <1>26, <3>1, <3>3, BoundAssumption
        DEF ReloadType, SensorsType, ReceiveHup, Made
      <3>4. QED
        BY <1>26, <3>2, <3>3 DEF ReceiveHup, LoadConfig
    <2>3. QED
      BY <1>26, Frame, <2>1, <2>2 DEF ReceiveHup
  <1>27. ASSUME ReloadLock PROVE TypeOK'
    <2>1. SensorsType'
      BY <1>27 DEF SensorsType, ReloadType, ReloadLock, Made
    <2>2. ReloadType'
      BY <1>27 DEF ReloadType, ReloadLock, Made
    <2>3. QED
      BY <1>27, Frame, <2>1, <2>2 DEF ReloadLock
  <1>28. ASSUME ReloadAcquire PROVE TypeOK'
    <2>1. SensorsType'
      BY <1>28 DEF SensorsType, ReloadAcquire, Handles, Made
    <2>2. ReloadType'
      BY <1>28 DEF ReloadType, ReloadAcquire, Made, Existing, NewDef
    <2>3. QED
      BY <1>28, Frame, <2>1, <2>2 DEF ReloadAcquire
  <1>29. ASSUME ReloadUpdate PROVE TypeOK'
    <2>1. ExistingMap(NewDef.name) \in Made /\ NewDef \in SensorDefs
      <3>1. /\ rnew.sensors \in Seq([name : STRING, ip : STRING])
            /\ ridx \in 1 .. Len(rnew.sensors)
        BY <1>29, ConfigsAssumption, LenProperties DEF ReloadType,
          ReloadUpdate
      <3>2. NewDef \in SensorDefs
        BY <3>1, ElementOfSeq DEF NewDef, SensorDefs
      <3>3. Existing(NewDef.name) # {}
        BY <1>29 DEF ReloadType, ReloadUpdate
      <3>4. QED
        BY <3>2, <3>3, ExistingMapType DEF SensorsType
    <2>2. SensorsType'
      BY <1>29, <2>1 DEF SensorsType, ReloadUpdate, Released, Handles, Made
    <2>3. ReloadType'
      <3>1. rupd' \in Seq(Made)
        BY <1>29, <2>1, AppendProperties DEF ReloadType, ReloadUpdate
      <3>2. Len(rnew.sensors) \in Nat
        BY <1>29, ConfigsAssumption, LenProperties DEF ReloadType,
          ReloadUpdate
      <3>3. /\ ridx' \in 1 .. Len(rnew.sensors) + 1
            /\ made' + Len(rnew'.sensors) + 1 - ridx' <= MaxHandles
        BY <1>29, <3>2, BoundAssumption DEF SensorsType, ReloadType,
          ReloadUpdate
      <3>4. QED
        BY <1>29, <3>1, <3>3 DEF ReloadType, ReloadUpdate, Made
    <2>4. QED
      BY <1>29, Frame, <2>2, <2>3 DEF ReloadUpdate
  <1>30. ASSUME ReloadCreate PROVE TypeOK'
    <2>1. Len(rnew.sensors) \in Nat /\ NewDef \in SensorDefs
      <3>1. rnew \in Configs /\ rnew.sensors \in Seq([name : STRING, ip :
        STRING])
        BY <1>30, ConfigsAssumption DEF ReloadType, ReloadCreate
      <3>2. ridx \in 1 .. Len(rnew.sensors)
        BY <1>30, <3>1, LenProperties DEF ReloadType, ReloadCreate
      <3>3. QED
        BY <3>1, <3>2, ElementOfSeq, LenProperties DEF NewDef, SensorDefs
    <2>2. made + 1 \in Handles /\ made \in Nat
      BY <1>30, <2>1, BoundAssumption
      DEF SensorsType, ReloadType, ReloadCreate, Handles
    <2>3. Made \subseteq Made' /\ made + 1 \in Made'
      BY <1>30, <2>2 DEF ReloadCreate, Made
    <2>4. \A s : s \in Seq(Made) => s \in Seq(Made')
      BY <2>3, SeqMonotonic
    <2>5. SensorsType'
      BY <1>30, <2>1, <2>2, <2>4, BoundAssumption
      DEF SensorsType, ReloadCreate, Handles
    <2>6. QueuesType'
      BY <1>30, <2>4 DEF QueuesType, ReloadCreate
    <2>7. WorkersType'
      <3>1. Made \cup {NoSS} \subseteq Made' \cup {NoSS}
        BY <2>3
      <3>2. /\ wss' \in [Workers -> Made' \cup {NoSS}]
            /\ wheld' \in [Workers -> Made' \cup {NoSS}]
        BY <1>30, <3>1 DEF WorkersType, ReloadCreate
      <3>3. QED
        BY <1>30, <3>2 DEF WorkersType, ReloadCreate, NoSS
    <2>8. SchedType'
      BY <1>30, <2>4 DEF SchedType, ReloadCreate
    <2>9. ReloadType'
      <3>1. rupd' \in Seq(Made')
        BY <1>30, <2>3, <2>4, AppendProperties DEF ReloadType, ReloadCreate
      <3>2. ridx' \in 1 .. Len(rnew.sensors) + 1
        BY <1>30, <2>1 DEF ReloadType, ReloadCreate
      <3>3. made' + Len(rnew.sensors) + 1 - ridx' <= MaxHandles
        <4>1. /\ ridx \in Nat /\ ridx' = ridx + 1 /\ made' = made + 1
              /\ made + Len(rnew.sensors) + 1 - ridx <= MaxHandles
          BY <1>30, <2>1 DEF ReloadType, ReloadCreate
        <4>2. \A m, n, i \in Nat : (m + 1) + n + 1 - (i + 1) = m + n + 1 - i
          OBVIOUS
        <4>3. QED
          BY <4>1, <4>2, <2>1, <2>2
      <3>4. QED
        BY <1>30, <3>1, <3>2, <3>3 DEF ReloadType, ReloadCreate
    <2>10. QED
      BY <1>30, Frame, <2>5, <2>6, <2>7, <2>8, <2>9 DEF ReloadCreate
  <1>31. ASSUME ReloadPublish PROVE TypeOK'
    <2>1. SensorsType'
      BY <1>31 DEF SensorsType, ReloadType, ReloadPublish, UpdatedSensors,
        Made
    <2>2. ReloadType'
      BY <1>31, EmptySeq DEF ReloadType, ReloadPublish, Made
    <2>3. QED
      BY <1>31, Frame, <2>1, <2>2 DEF ReloadPublish
  <1>32. CASE UNCHANGED vars
    BY <1>32, Frame DEF vars
  <1>33. QED
    BY <1>1, <1>2, <1>3, <1>4, <1>5, <1>6, <1>7, <1>8, <1>9, <1>10, <1>11,
      <1>12, <1>13, <1>14, <1>15, <1>16, <1>17, <1>18, <1>19, <1>20, <1>21,
      <1>22, <1>23, <1>24, <1>25, <1>26, <1>27, <1>28, <1>29, <1>30, <1>31,
      <1>32
    DEF Next, WorkerStep, SchedStep, SignalStep, Terminated

\* Initially every handle in the list is one of the sensors just wrapped.
LEMMA TypeInit == Init => TypeOK
  <1> SUFFICES ASSUME Init PROVE TypeOK
    OBVIOUS
  <1>1. made \in 0 .. MaxHandles /\ config \in Configs
    BY ConfigsAssumption, LenProperties, BoundAssumption DEF Init, LoadConfig
  <1>2. sensors \in Seq(Made)
    BY <1>1, SeqDef, BoundAssumption DEF Init, Made
  <1>3. def \in [Handles -> SensorDefs \cup {Unmade}]
    <2>1. /\ config.sensors \in Seq([name : STRING, ip : STRING])
          /\ made = Len(config.sensors)
      BY <1>1, ConfigsAssumption DEF Init, LoadConfig
    <2>2. \A h \in 1 .. made : config.sensors[h] \in SensorDefs
      BY <2>1, ElementOfSeq DEF SensorDefs
    <2>3. QED
      BY <2>2, <1>1, BoundAssumption DEF Init, LoadConfig, Handles
  <1>4. SensorsType
    BY <1>1, <1>2, <1>3, BoundAssumption DEF Init, SensorsType
  <1>5. QueuesType /\ WorkersType
    BY EmptySeq, BoundAssumption DEF Init, QueuesType, WorkersType
  <1>6. MetricsType
    <2>1. metricQ \in 0 .. MetricCap
      BY CapAssumption DEF Init
    <2>2. metricOpen \in BOOLEAN /\ consumerDone \in BOOLEAN
      BY Zenon DEF Init
    <2>3. QED
      BY <2>1, <2>2 DEF MetricsType
  <1>7. SignalsType
    <2>1. sigs \in Seq({"HUP", "TERM"})
      BY EmptySeq DEF Init
    <2>2. hups \in 0 .. MaxHups /\ terms \in 0 .. MaxTerms
      BY BoundAssumption DEF Init
    <2>3. cancelled \in BOOLEAN
      BY Zenon DEF Init
    <2>4. QED
      BY <2>1, <2>2, <2>3 DEF SignalsType
  <1>8. SchedType /\ ReloadType
    BY EmptySeq DEF Init, SchedType, ReloadType
  <1>9. QED
    BY <1>4, <1>5, <1>6, <1>7, <1>8 DEF TypeOK

\* Types, allocation and positions hold in every reachable state of the
\* daemon, for any workers, configurations, capacities and bounds.
THEOREM TypeCorrect == Spec => []TypeOK
  <1>1. QED
    BY TypeInit, TypeStep, PTL DEF Spec

-----------------------------------------------------------------------------
\* The Mutex of a SafeSensor names the worker in its cycle, or the reload
\* that updates it.
CycleInv ==
    /\ \A w \in Workers, h \in Handles : InCycle(w, h) => lock[h] = w
    /\ rpc = "update" => lock[ExistingMap(NewDef.name)] = Reload

\* CycleInv depends on the workers' positions, the locks and the reload only.
LEMMA CycleFrame ==
    ASSUME CycleInv, UNCHANGED <<wpc, wss, lock, sensors, def, reloadVars>>
    PROVE  CycleInv'
  BY DEF CycleInv, InCycle, ExistingMap, Existing, NewDef, reloadVars

\* A worker step that leaves the locks and enters no cycle keeps CycleInv.
LEMMA CycleWorkerFrame ==
    ASSUME CycleInv, NEW w \in Workers, TypeOK,
           UNCHANGED <<lock, sensors, def, reloadVars>>,
           wpc'[w] \notin {"cycle", "unlock"},
           \A v \in Workers \ {w} : wpc'[v] = wpc[v] /\ wss'[v] = wss[v]
    PROVE  CycleInv'
  <1>1. \A v \in Workers, h \in Handles : InCycle(v, h)' => InCycle(v, h)
    BY DEF InCycle, TypeOK, WorkersType
  <1>2. QED
    BY <1>1 DEF CycleInv, ExistingMap, Existing, NewDef, reloadVars

\* Every step of the daemon keeps CycleInv.
LEMMA CycleStep == TypeOK /\ CycleInv /\ [Next]_vars => CycleInv'
  <1> SUFFICES ASSUME TypeOK, CycleInv, [Next]_vars
               PROVE  CycleInv'
    OBVIOUS
  <1> USE DEF sensorVars, queueVars, metricVars, workerVars, schedVars,
              signalVars, WorkerFrame, ConsumerFrame, SchedFrame, SignalFrame
  <1>1. ASSUME NEW w \in Workers,
               TakeHigh(w) \/ FindHighEmpty(w) \/ TakeLow(w) \/ PreemptLow(w)
                 \/ KeepLow(w) \/ WorkerReturn(w) \/ SkipCycle(w)
        PROVE  CycleInv'
    <2>1. UNCHANGED <<lock, sensors, def, reloadVars>>
      BY <1>1 DEF TakeHigh, FindHighEmpty, TakeLow, PreemptLow, KeepLow,
                  WorkerReturn, SkipCycle
    <2>2. /\ wpc'[w] \notin {"cycle", "unlock"}
          /\ \A v \in Workers \ {w} : wpc'[v] = wpc[v] /\ wss'[v] = wss[v]
      BY <1>1 DEF TypeOK, WorkersType, TakeHigh, FindHighEmpty, TakeLow,
                  PreemptLow, KeepLow, WorkerReturn, SkipCycle,
                    ReturnFromSensor
    <2>3. QED
      BY <2>1, <2>2, CycleWorkerFrame
  <1>2. ASSUME NEW w \in Workers, BeginCycle(w) PROVE CycleInv'
    <2>1. lock[wss[w]] = Free
      BY <1>2 DEF BeginCycle, Unlocked
    <2>2. \A v \in Workers, h \in Handles :
             InCycle(v, h)' => (v = w /\ h = wss[w]) \/ InCycle(v, h)
      BY <1>2 DEF BeginCycle, InCycle, TypeOK, WorkersType
    <2>3. \A v \in Workers, h \in Handles : InCycle(v, h)' => lock'[h] = v
      BY <1>2, <2>1, <2>2, WorkersAssumption
      DEF BeginCycle, CycleInv, TypeOK, SensorsType
    <2>4. rpc = "update" => ExistingMap(NewDef.name) # wss[w]
      BY <2>1 DEF CycleInv, Free, Reload
    <2>5. rpc' = "update" => lock'[ExistingMap(NewDef.name)'] = Reload
      BY <1>2, <2>4 DEF BeginCycle, CycleInv, TypeOK, SensorsType,
                        ExistingMap, Existing, NewDef, reloadVars
    <2>6. QED
      BY <2>3, <2>5 DEF CycleInv, InCycle, ExistingMap, Existing, NewDef
  <1>3. ASSUME NEW w \in Workers, Publish(w) PROVE CycleInv'
    BY <1>3, CycleFrame DEF Publish
  <1>4. ASSUME NEW w \in Workers, EndCycle(w) PROVE CycleInv'
    <2>1. \A v \in Workers, h \in Handles : InCycle(v, h)' => InCycle(v, h)
      BY <1>4 DEF EndCycle, InCycle, TypeOK, WorkersType
    <2>2. QED
      BY <1>4, <2>1 DEF EndCycle, CycleInv, ExistingMap, Existing, NewDef,
                        reloadVars
  <1>5. ASSUME NEW w \in Workers, Unlock(w) PROVE CycleInv'
    <2>1. wss[w] \in Handles /\ InCycle(w, wss[w]) /\ lock[wss[w]] = w
      BY <1>5, BoundAssumption
      DEF Unlock, CycleInv, InCycle, TypeOK, WorkersType, SensorsType,
          Handles, Made, NoSS
    <2>2. \A v \in Workers, h \in Handles :
             InCycle(v, h)' => v # w /\ InCycle(v, h)
      BY <1>5 DEF Unlock, ReturnFromSensor, InCycle, TypeOK, WorkersType
    <2>3. \A v \in Workers, h \in Handles : InCycle(v, h)' => lock'[h] = v
      BY <1>5, <2>1, <2>2
      DEF Unlock, Released, CycleInv, TypeOK, SensorsType
    <2>4. rpc = "update" => ExistingMap(NewDef.name) # wss[w]
      BY <2>1, WorkersAssumption DEF CycleInv
    <2>5. rpc' = "update" => lock'[ExistingMap(NewDef.name)'] = Reload
      BY <1>5, <2>4 DEF Unlock, Released, CycleInv, TypeOK, SensorsType,
                        ExistingMap, Existing, NewDef, reloadVars
    <2>6. QED
      BY <2>3, <2>5 DEF CycleInv, InCycle, ExistingMap, Existing, NewDef
  <1>6. ASSUME Consume \/ ConsumerReturn \/ CloseMetrics \/ SchedStep
                 \/ SendHup \/ SendTerm
        PROVE  CycleInv'
    BY <1>6, CycleFrame
    DEF Consume, ConsumerReturn, CloseMetrics, SchedStep, SchedCancelled,
        SchedSnapshot, SchedActive, SchedRemoved, SchedSend, SchedWake,
        SchedCloseLow, SchedCloseHigh, SendHup, SendTerm
  <1>7. ASSUME ReceiveTerm \/ ReceiveHup \/ ReloadLock \/ ReloadPublish
                 \/ ReloadCreate
        PROVE  CycleInv'
    <2>1. UNCHANGED <<lock, wpc, wss>> /\ rpc' # "update"
      BY <1>7 DEF ReceiveTerm, ReceiveHup, ReloadLock, ReloadPublish,
                  ReloadCreate
    <2>2. QED
      BY <2>1 DEF CycleInv, InCycle
  <1>8. ASSUME ReloadAcquire PROVE CycleInv'
    <2>1. ExistingMap(NewDef.name) \in Handles
      BY <1>8, ExistingMapType, BoundAssumption
      DEF ReloadAcquire, TypeOK, SensorsType, Handles, Made
    <2>2. lock[ExistingMap(NewDef.name)] = Free
      BY <1>8 DEF ReloadAcquire, Unlocked
    <2>3. \A v \in Workers, h \in Handles : InCycle(v, h)' => lock'[h] = v
      BY <1>8, <2>1, <2>2, WorkersAssumption
      DEF ReloadAcquire, CycleInv, InCycle, TypeOK, SensorsType
    <2>4. lock'[ExistingMap(NewDef.name)'] = Reload
      BY <1>8, <2>1 DEF ReloadAcquire, TypeOK, SensorsType, ExistingMap,
                        Existing, NewDef
    <2>5. QED
      BY <2>3, <2>4 DEF CycleInv, InCycle, ExistingMap, Existing, NewDef
  <1>9. ASSUME ReloadUpdate PROVE CycleInv'
    <2>1. lock[ExistingMap(NewDef.name)] = Reload
      BY <1>9 DEF ReloadUpdate, CycleInv
    <2>2. \A v \in Workers, h \in Handles : InCycle(v, h)' => lock'[h] = v
      BY <1>9, <2>1, WorkersAssumption
      DEF ReloadUpdate, Released, CycleInv, InCycle, TypeOK, SensorsType
    <2>3. QED
      BY <1>9, <2>2 DEF ReloadUpdate, CycleInv, InCycle
  <1>10. CASE UNCHANGED vars
    BY <1>10, CycleFrame DEF vars
  <1>11. QED
    BY <1>1, <1>2, <1>3, <1>4, <1>5, <1>6, <1>7, <1>8, <1>9, <1>10
    DEF Next, WorkerStep, SignalStep, Terminated

\* No worker is in a cycle before the first sensor is queued.
LEMMA CycleInit == Init => CycleInv
  BY DEF Init, CycleInv, InCycle

\* Types and CycleInv together are inductive for the daemon's steps.
LEMMA CycleInvariant == Spec => [](TypeOK /\ CycleInv)
  <1>1. QED
    BY TypeInit, TypeStep, CycleInit, CycleStep, PTL DEF Spec

\* One cycle at a time for each SafeSensor, whatever the workers, the queues
\* and the reloads do.
THEOREM MutualExclusion == Spec => []OneCyclePerSensor
  <1>1. TypeOK /\ CycleInv => OneCyclePerSensor
    BY DEF CycleInv, OneCyclePerSensor
  <1>2. QED
    BY <1>1, CycleInvariant, PTL

\* No reload changes the definition of a sensor under its running cycle.
THEOREM DefinitionStability == Spec => StableDefinition
  <1> DEFINE Stable == \A w \in Workers, h \in Handles :
                          InCycle(w, h) /\ InCycle(w, h)' => def'[h] = def[h]
  <1>1. ASSUME TypeOK, CycleInv, [Next]_vars PROVE Stable
    <2>1. CASE ReloadUpdate
      <3>1. \A w \in Workers, h \in Handles :
               InCycle(w, h) => h # ExistingMap(NewDef.name)
        BY <1>1, <2>1, WorkersAssumption DEF CycleInv, ReloadUpdate
      <3>2. QED
        BY <1>1, <2>1, <3>1 DEF ReloadUpdate, TypeOK, SensorsType
    <2>2. CASE ReloadCreate
      <3>1. \A w \in Workers, h \in Handles : InCycle(w, h) => h # made + 1
        BY <1>1 DEF InCycle, TypeOK, SensorsType, WorkersType, Made, NoSS
      <3>2. QED
        BY <1>1, <2>2, <3>1 DEF ReloadCreate, TypeOK, SensorsType
    <2>3. CASE UNCHANGED def
      BY <2>3
    <2>4. [Next]_vars => ReloadUpdate \/ ReloadCreate \/ UNCHANGED def
      BY DEF WorkerFrame, ConsumerFrame, SchedFrame, SignalFrame,
             Next, vars, sensorVars, WorkerStep, SchedStep, SignalStep,
             Terminated, TakeHigh, FindHighEmpty, TakeLow, PreemptLow,
               KeepLow,
             WorkerReturn, BeginCycle, SkipCycle, Publish, EndCycle, Unlock,
             Consume, ConsumerReturn, CloseMetrics, SchedCancelled,
             SchedSnapshot, SchedActive, SchedRemoved, SchedSend, SchedWake,
             SchedCloseLow, SchedCloseHigh, SendHup, SendTerm, ReceiveTerm,
             ReceiveHup, ReloadLock, ReloadAcquire, ReloadPublish
    <2>5. QED
      BY <1>1, <2>1, <2>2, <2>3, <2>4
  <1> HIDE DEF Stable
  <1>2. TypeOK /\ CycleInv /\ [Next]_vars => [Stable]_vars
    BY <1>1
  <1>3. Spec => [][Stable]_vars
    BY <1>2, CycleInvariant, PTL DEF Spec
  <1>4. QED
    BY <1>3 DEF Stable, StableDefinition

-----------------------------------------------------------------------------
\* What is closed has no sender left, and the consumer leaves last.
ClosingInv ==
    /\ ~metricOpen => WorkersDone
    /\ ~lowOpen => spc \in {"closeHigh", "done"}
    /\ ~highOpen => spc = "done"
    /\ consumerDone => ~metricOpen /\ metricQ = 0

\* All goroutines of the daemon start with every channel open.
LEMMA ClosingInit == Init => ClosingInv
  BY Zenon DEF Init, ClosingInv

\* Every step of the daemon keeps ClosingInv.
LEMMA ClosingStep == TypeOK /\ ClosingInv /\ [Next]_vars => ClosingInv'
  <1> SUFFICES ASSUME TypeOK, ClosingInv, [Next]_vars
               PROVE  ClosingInv'
    OBVIOUS
  <1> USE DEF ClosingInv, WorkersDone, queueVars, metricVars, workerVars,
              schedVars, WorkerFrame, ConsumerFrame, SchedFrame, SignalFrame
  <1>1. ASSUME NEW w \in Workers, WorkerStep(w), wpc[w] # "done"
        PROVE  ClosingInv'
    <2>1. metricOpen /\ ~consumerDone
      BY <1>1
    <2>2. UNCHANGED <<highOpen, lowOpen, spc, metricOpen, consumerDone>>
      BY <1>1 DEF WorkerStep, TakeHigh, FindHighEmpty, TakeLow, PreemptLow,
                  KeepLow, WorkerReturn, BeginCycle, SkipCycle, Publish,
                  EndCycle, Unlock
    <2>3. QED
      BY <2>1, <2>2
  <1>2. ASSUME NEW w \in Workers, WorkerStep(w) PROVE wpc[w] # "done"
    BY <1>2 DEF WorkerStep, TakeHigh, FindHighEmpty, TakeLow, PreemptLow,
                KeepLow, WorkerReturn, BeginCycle, SkipCycle, Publish,
                EndCycle, Unlock
  <1>3. CASE Consume
    BY <1>3 DEF Consume
  <1>4. CASE ConsumerReturn
    BY <1>4 DEF ConsumerReturn, RangeEnds
  <1>5. CASE CloseMetrics
    <2>1. ~consumerDone
      BY <1>5 DEF CloseMetrics
    <2>2. QED
      BY <1>5, <2>1 DEF CloseMetrics
  <1>6. CASE SchedStep
    BY <1>6 DEF SchedStep, SchedCancelled, SchedSnapshot, SchedActive,
                SchedRemoved, SchedSend, SchedNext, SchedWake, SchedCloseLow,
                SchedCloseHigh
  <1>7. CASE SendHup \/ SendTerm \/ SignalStep
    BY <1>7 DEF SendHup, SendTerm, SignalStep, ReceiveTerm, ReceiveHup,
                ReloadLock, ReloadAcquire, ReloadUpdate, ReloadCreate,
                ReloadPublish
  <1>8. CASE UNCHANGED vars
    BY <1>8 DEF vars
  <1>9. QED
    BY <1>1, <1>2, <1>3, <1>4, <1>5, <1>6, <1>7, <1>8 DEF Next, Terminated

\* No worker and no scheduler can panic on a closed channel, and no metric is
\* left behind by the consumer.
THEOREM ChannelSafety == Spec => []NoSendOnClosed
  <1>1. TypeOK /\ ClosingInv => NoSendOnClosed
    BY DEF ClosingInv, NoSendOnClosed, WorkersDone, TypeOK, QueuesType,
           MetricsType
  <1>2. Spec => [](TypeOK /\ ClosingInv)
    BY TypeInit, TypeStep, ClosingInit, ClosingStep, PTL DEF Spec
  <1>3. QED
    BY <1>1, <1>2, PTL

-----------------------------------------------------------------------------
\* A SafeSensor's Mutex that is not free is held by a worker in its cycle or
\* by the reload that updates it: no step leaves it locked behind.
Owned(h) ==
    Unlocked(h) \/ (\E w \in Workers : InCycle(w, h))
                \/ (rpc = "update" /\ h = ExistingMap(NewDef.name))
OwnerInv == \A h \in Handles : Owned(h)

\* OwnerInv depends on the workers' positions, the locks and the reload only.
LEMMA OwnerFrame ==
    ASSUME OwnerInv, UNCHANGED <<wpc, wss, lock, sensors, def, reloadVars>>
    PROVE  OwnerInv'
  BY DEF OwnerInv, Owned, Unlocked, InCycle, ExistingMap, Existing, NewDef,
         reloadVars

\* A step that leaves the locks, the reload and the running cycles alone.
LEMMA OwnerWorkerFrame ==
    ASSUME OwnerInv, UNCHANGED <<lock, sensors, def, reloadVars>>,
           \A v \in Workers, h \in Handles : InCycle(v, h) => InCycle(v, h)'
    PROVE  OwnerInv'
  BY DEF OwnerInv, Owned, Unlocked, ExistingMap, Existing, NewDef, reloadVars

\* Every Mutex is free at first.
LEMMA OwnerInit == Init => OwnerInv
  BY DEF Init, OwnerInv, Owned, Unlocked

\* Every step of the daemon keeps OwnerInv.
LEMMA OwnerStep == TypeOK /\ CycleInv /\ OwnerInv /\ [Next]_vars => OwnerInv'
  <1> SUFFICES ASSUME TypeOK, CycleInv, OwnerInv, [Next]_vars
               PROVE  OwnerInv'
    OBVIOUS
  <1> USE DEF sensorVars, queueVars, metricVars, workerVars, schedVars,
              signalVars, WorkerFrame, ConsumerFrame, SchedFrame, SignalFrame
  <1>1. ASSUME NEW w \in Workers,
               TakeHigh(w) \/ FindHighEmpty(w) \/ TakeLow(w) \/ PreemptLow(w)
                 \/ KeepLow(w) \/ WorkerReturn(w) \/ SkipCycle(w)
        PROVE  OwnerInv'
    <2>1. UNCHANGED <<lock, sensors, def, reloadVars>>
      BY <1>1 DEF TakeHigh, FindHighEmpty, TakeLow, PreemptLow, KeepLow,
                  WorkerReturn, SkipCycle
    <2>2. /\ wpc[w] \notin {"cycle", "unlock"}
          /\ \A v \in Workers \ {w} : wpc'[v] = wpc[v] /\ wss'[v] = wss[v]
      BY <1>1 DEF TypeOK, WorkersType, TakeHigh, FindHighEmpty, TakeLow,
                  PreemptLow, KeepLow, WorkerReturn, SkipCycle,
                  ReturnFromSensor
    <2>3. \A v \in Workers, h \in Handles : InCycle(v, h) => InCycle(v, h)'
      BY <2>2 DEF InCycle
    <2>4. QED
      BY <2>1, <2>3, OwnerWorkerFrame
  <1>2. ASSUME NEW w \in Workers, BeginCycle(w) PROVE OwnerInv'
    <2>1. /\ \A v \in Workers, h \in Handles : InCycle(v, h) => InCycle(v, h)'
          /\ \A h \in Handles : h = wss[w] => InCycle(w, h)'
      BY <1>2 DEF BeginCycle, InCycle, TypeOK, WorkersType
    <2>2. \A h \in Handles : h # wss[w] => lock'[h] = lock[h]
      BY <1>2 DEF BeginCycle, TypeOK, SensorsType
    <2>3. UNCHANGED <<sensors, def, reloadVars>>
      BY <1>2 DEF BeginCycle
    <2>4. ASSUME NEW h \in Handles PROVE Owned(h)'
      <3>1. CASE h = wss[w]
        <4>1. InCycle(w, h)'
          BY <2>1, <3>1
        <4>2. QED
          BY <4>1 DEF Owned
      <3>2. CASE h # wss[w]
        <4>1. Unlocked(h) => Unlocked(h)'
          BY <2>2, <3>2 DEF Unlocked
        <4>2. (rpc = "update" /\ h = ExistingMap(NewDef.name))
                => (rpc = "update" /\ h = ExistingMap(NewDef.name))'
          BY <2>3 DEF ExistingMap, Existing, NewDef, reloadVars
        <4>3. QED
          BY <2>1, <4>1, <4>2 DEF OwnerInv, Owned
      <3>3. QED
        BY <3>1, <3>2
    <2>5. QED
      BY <2>4 DEF OwnerInv
  <1>3. ASSUME NEW w \in Workers, Publish(w) PROVE OwnerInv'
    BY <1>3, OwnerFrame DEF Publish
  <1>4. ASSUME NEW w \in Workers, EndCycle(w) PROVE OwnerInv'
    <2>1. \A v \in Workers, h \in Handles : InCycle(v, h) => InCycle(v, h)'
      BY <1>4 DEF EndCycle, InCycle, TypeOK, WorkersType
    <2>2. QED
      BY <1>4, <2>1, OwnerWorkerFrame DEF EndCycle
  <1>5. ASSUME NEW w \in Workers, Unlock(w) PROVE OwnerInv'
    <2>1. \A v \in Workers, h \in Handles :
             h # wss[w] /\ InCycle(v, h) => InCycle(v, h)'
      BY <1>5 DEF Unlock, ReturnFromSensor, InCycle, TypeOK, WorkersType
    <2>2. \A h \in Handles : IF h = wss[w] THEN Unlocked(h)'
                             ELSE Unlocked(h) => Unlocked(h)'
      BY <1>5 DEF Unlock, Released, Unlocked, TypeOK, SensorsType
    <2>3. UNCHANGED <<sensors, def, reloadVars>>
      BY <1>5 DEF Unlock
    <2>4. ASSUME NEW h \in Handles,
                 rpc = "update" /\ h = ExistingMap(NewDef.name)
          PROVE  (rpc = "update" /\ h = ExistingMap(NewDef.name))'
      BY <2>3, <2>4 DEF ExistingMap, Existing, NewDef, reloadVars
    <2>5. QED
      BY <2>1, <2>2, <2>4 DEF OwnerInv, Owned
  <1>6. ASSUME Consume \/ ConsumerReturn \/ CloseMetrics \/ SchedStep
                 \/ SendHup \/ SendTerm
        PROVE  OwnerInv'
    BY <1>6, OwnerFrame
    DEF Consume, ConsumerReturn, CloseMetrics, SchedStep, SchedCancelled,
        SchedSnapshot, SchedActive, SchedRemoved, SchedSend, SchedWake,
        SchedCloseLow, SchedCloseHigh, SendHup, SendTerm
  <1>7. ASSUME ReceiveTerm \/ ReceiveHup \/ ReloadLock \/ ReloadPublish
                 \/ ReloadCreate
        PROVE  OwnerInv'
    <2>1. UNCHANGED <<lock, wpc, wss>> /\ rpc # "update"
      BY <1>7 DEF ReceiveTerm, ReceiveHup, ReloadLock, ReloadPublish,
                  ReloadCreate
    <2>2. QED
      BY <2>1 DEF OwnerInv, Owned, Unlocked, InCycle
  <1>8. ASSUME ReloadAcquire PROVE OwnerInv'
    <2>1. UNCHANGED <<wpc, wss, sensors, def, rnew, ridx>> /\ rpc' = "update"
      BY <1>8 DEF ReloadAcquire
    <2>2. ExistingMap(NewDef.name)' = ExistingMap(NewDef.name)
      BY <2>1 DEF ExistingMap, Existing, NewDef
    <2>3. \A h \in Handles :
             h # ExistingMap(NewDef.name) => lock'[h] = lock[h]
      BY <1>8 DEF ReloadAcquire, TypeOK, SensorsType
    <2>4. rpc # "update"
      BY <1>8 DEF ReloadAcquire
    <2>5. \A v \in Workers, h \in Handles : InCycle(v, h) => InCycle(v, h)'
      BY <2>1 DEF InCycle
    <2>6. QED
      BY <2>1, <2>2, <2>3, <2>4, <2>5 DEF OwnerInv, Owned, Unlocked
  <1>9. ASSUME ReloadUpdate PROVE OwnerInv'
    <2>1. UNCHANGED <<wpc, wss>>
      BY <1>9 DEF ReloadUpdate
    <2>2. \A h \in Handles : IF h = ExistingMap(NewDef.name) THEN Unlocked(h)'
                             ELSE Unlocked(h) => Unlocked(h)'
      BY <1>9 DEF ReloadUpdate, Released, Unlocked, TypeOK, SensorsType
    <2>3. \A v \in Workers, h \in Handles : InCycle(v, h) => InCycle(v, h)'
      BY <2>1 DEF InCycle
    <2>4. QED
      BY <2>2, <2>3 DEF OwnerInv, Owned
  <1>10. CASE UNCHANGED vars
    BY <1>10, OwnerFrame DEF vars
  <1>11. QED
    BY <1>1, <1>2, <1>3, <1>4, <1>5, <1>6, <1>7, <1>8, <1>9, <1>10
    DEF Next, WorkerStep, SignalStep, Terminated

\* The waits of reloadConfig and of outputMetrics.
ReloadWaits(h) ==
    /\ rpc = "each" /\ ridx <= Len(rnew.sensors)
    /\ Existing(NewDef.name) # {} /\ h = ExistingMap(NewDef.name)
    /\ ~Unlocked(h)
PublishWaits(w) == wpc[w] = "cycle" /\ wleft[w] > 0 /\ metricQ >= MetricCap

\* The chain of waits has an end: reloadConfig, for which the scheduler waits
\* at sensorsMu, waits for the Mutex of a sensor only while a worker is in its
\* cycle, and outputMetrics for metricChan only while the consumer is there and
\* has something to take.
THEOREM WaitsHaveAnEnd ==
    Spec => [](/\ \A h \in Handles : ReloadWaits(h) => \E w \in Workers : InCycle(w, h)
               /\ \A w \in Workers : PublishWaits(w) => ~consumerDone /\ metricQ > 0)
  <1> DEFINE I == TypeOK /\ CycleInv /\ ClosingInv /\ OwnerInv
  <1>1. Init => I
    BY TypeInit, CycleInit, ClosingInit, OwnerInit
  <1>2. I /\ [Next]_vars => I'
    BY TypeStep, CycleStep, ClosingStep, OwnerStep
  <1>3. I => /\ \A h \in Handles : ReloadWaits(h) => \E w \in Workers : InCycle(w, h)
             /\ \A w \in Workers : PublishWaits(w) => ~consumerDone /\ metricQ > 0
    <2> SUFFICES ASSUME I
                 PROVE  /\ \A h \in Handles : ReloadWaits(h) => \E w \in Workers : InCycle(w, h)
                        /\ \A w \in Workers : PublishWaits(w) => ~consumerDone /\ metricQ > 0
      OBVIOUS
    <2>1. ASSUME NEW h \in Handles, ReloadWaits(h)
          PROVE  \E w \in Workers : InCycle(w, h)
      BY <2>1 DEF ReloadWaits, OwnerInv, Owned
    <2>2. ASSUME NEW w \in Workers, PublishWaits(w) PROVE ~consumerDone /\ metricQ > 0
      <3>1. metricQ > 0
        BY <2>2, CapAssumption DEF PublishWaits, TypeOK, MetricsType
      <3>2. metricOpen
        BY <2>2 DEF PublishWaits, ClosingInv, WorkersDone, TypeOK, MetricsType
      <3>3. QED
        BY <3>1, <3>2 DEF ClosingInv
    <2>3. QED
      BY <2>1, <2>2
  <1>4. QED
    BY <1>1, <1>2, <1>3, PTL DEF Spec

-----------------------------------------------------------------------------
\* Every limit a configuration sets is positive.
LEMMA LimitsPositive == \A n \in LimitsInForce : n \in Nat /\ n > 0
  BY ConfigsAssumption DEF LimitsInForce

\* A sensor just wrapped has no failures and high priority.
LEMMA PriorityInit == Init => PriorityFollowsFails
  <1> SUFFICES ASSUME Init PROVE PriorityFollowsFails
    OBVIOUS
  <1>1. config.maxFails \in LimitsInForce /\ config.maxFails > 0
    BY LimitsPositive DEF Init, LoadConfig, LimitsInForce
  <1>2. QED
    BY <1>1 DEF Init, PriorityFollowsFails

\* Every step of the daemon keeps PriorityFollowsFails.
LEMMA PriorityStep ==
    TypeOK /\ PriorityFollowsFails /\ [Next]_vars => PriorityFollowsFails'
  <1> SUFFICES ASSUME TypeOK, PriorityFollowsFails, [Next]_vars
               PROVE  PriorityFollowsFails'
    OBVIOUS
  <1> USE DEF WorkerFrame, SignalFrame
  <1>1. ASSUME NEW w \in Workers, EndCycle(w) PROVE PriorityFollowsFails'
    <2> DEFINE ss == wss[w]
    <2>1. ss \in Handles /\ config.maxFails \in LimitsInForce
      BY <1>1, BoundAssumption
      DEF EndCycle, TypeOK, WorkersType, SensorsType, Handles, Made, NoSS,
          LimitsInForce
    <2>2. fails[ss] \in Nat /\ config.maxFails \in Nat /\ config.maxFails > 0
      BY <2>1, BoundAssumption, LimitsPositive DEF TypeOK, SensorsType
    <2>3. \A h \in Handles \ {ss} : low'[h] = low[h] /\ fails'[h] = fails[h]
      BY <1>1, <2>1 DEF EndCycle, Fail, Succeed, TypeOK, SensorsType
    <2>4. CASE Fail(ss)
      <3>1. fails'[ss] = fails[ss] + 1
        BY <2>1, <2>4 DEF Fail, TypeOK, SensorsType
      <3>2. low'[ss] = (low[ss] \/ fails[ss] + 1 >= config.maxFails)
        BY <2>1, <2>4 DEF Fail, TypeOK, SensorsType
      <3>3. low'[ss] => \E n \in LimitsInForce : fails'[ss] >= n
        <4>1. CASE low[ss]
          BY <2>1, <2>2, <3>1, <4>1, LimitsPositive DEF PriorityFollowsFails
        <4>2. CASE fails[ss] + 1 >= config.maxFails
          BY <2>1, <3>1, <4>2
        <4>3. QED
          BY <3>2, <4>1, <4>2
      <3>4. ~low'[ss] => \E n \in LimitsInForce : fails'[ss] < n
        <4>1. ~low'[ss] => ~(fails[ss] + 1 >= config.maxFails)
          BY <3>2, Zenon
        <4>2. ~(fails[ss] + 1 >= config.maxFails) => fails'[ss] <
          config.maxFails
          BY <2>2, <3>1
        <4>3. QED
          BY <2>1, <4>1, <4>2
      <3>5. QED
        BY <2>3, <3>3, <3>4 DEF PriorityFollowsFails, LimitsInForce
    <2>5. CASE Succeed(ss)
      <3>1. fails'[ss] = 0 /\ low'[ss] = FALSE
        BY <2>1, <2>5 DEF Succeed, TypeOK, SensorsType
      <3>2. QED
        BY <2>1, <2>2, <2>3, <3>1 DEF PriorityFollowsFails, LimitsInForce
    <2>6. QED
      BY <1>1, <2>4, <2>5 DEF EndCycle
  <1>2. CASE ReloadCreate
    <2>1. rnew.maxFails \in LimitsInForce /\ rnew.maxFails > 0
      BY <1>2, LimitsPositive
      DEF ReloadCreate, TypeOK, ReloadType, LimitsInForce
    <2>2. \A h \in Handles :
             \/ fails'[h] = 0 /\ low'[h] = FALSE
             \/ fails'[h] = fails[h] /\ low'[h] = low[h]
      BY <1>2 DEF ReloadCreate, TypeOK, SensorsType
    <2>3. QED
      BY <2>1, <2>2 DEF PriorityFollowsFails, LimitsInForce
  <1>3. CASE UNCHANGED <<fails, low>>
    BY <1>3 DEF PriorityFollowsFails, LimitsInForce
  <1>4. QED
    BY <1>1, <1>2, <1>3
    DEF WorkerFrame, ConsumerFrame, SchedFrame, SignalFrame,
        Next, vars, sensorVars, WorkerStep, SchedStep, SignalStep,
        Terminated, TakeHigh, FindHighEmpty, TakeLow, PreemptLow, KeepLow,
        WorkerReturn, BeginCycle, SkipCycle, Publish, Unlock,
        Consume, ConsumerReturn, CloseMetrics, SchedCancelled,
        SchedSnapshot, SchedActive, SchedRemoved, SchedSend, SchedWake,
        SchedCloseLow, SchedCloseHigh, SendHup, SendTerm, ReceiveTerm,
        ReceiveHup, ReloadLock, ReloadAcquire, ReloadUpdate, ReloadPublish

\* The priority of a sensor agrees with its failures through any sequence of
\* reloads that change the limit.
THEOREM PriorityCorrect == Spec => []PriorityFollowsFails
  <1>1. QED
    BY TypeInit, TypeStep, PriorityInit, PriorityStep, PTL DEF Spec

-----------------------------------------------------------------------------
(* The list of SafeSensors across reloads.  The theorems are about         *)
(* configurations that give every sensor a name of its own: existingMap    *)
(* and the sensors' queries are keyed by it.                               *)

NamesApart(list) ==
    \A i, j \in DOMAIN list : list[i].name = list[j].name => i = j

DistinctNames == \A c \in Configs : NamesApart(c.sensors)

\* No two SafeSensors of the list have one name.
SensorsApart ==
    \A i, j \in DOMAIN sensors :
        def[sensors[i]].name = def[sensors[j]].name => i = j

\* The list of handles defines the sensors of cs, in order.
Defines(list, cs) ==
    /\ Len(list) = Len(cs)
    /\ \A i \in DOMAIN list : def[list[i]] = cs[i]

\* What reloadConfig has collected: the sensors of the new configuration up
\* to here, under the SafeSensor of that name where the running list has one.
Collected ==
    /\ config = rnew
    /\ Len(rupd) = ridx - 1
    /\ \A k \in DOMAIN rupd : def[rupd[k]] = rnew.sensors[k]
    /\ \A i \in DOMAIN sensors, k \in DOMAIN rupd :
          def[sensors[i]].name = def[rupd[k]].name => rupd[k] = sensors[i]

ListInv ==
    /\ SensorsApart
    /\ rpc \in {"idle", "lock", "gone"} => Defines(sensors, config.sensors)
    /\ rpc \in {"each", "update"} => Collected

\* ListInv depends on the list, the definitions and the reload only.
LEMMA ListFrame ==
    ASSUME ListInv, UNCHANGED <<config, sensors, def, reloadVars>>
    PROVE  ListInv'
  BY DEF ListInv, SensorsApart, Defines, Collected, reloadVars

\* A list that defines a configuration with distinct names keeps them apart.
LEMMA DefinesApart ==
    ASSUME NEW list, NEW cs, Defines(list, cs), NamesApart(cs),
           list \in Seq(Made), cs \in Seq(SensorDefs)
    PROVE  \A i, j \in DOMAIN list :
               def[list[i]].name = def[list[j]].name => i = j
  <1>1. DOMAIN list = DOMAIN cs
    BY DEF Defines
  <1>2. QED
    BY <1>1 DEF Defines, NamesApart

\* The list main builds at the start is that of the configuration.
LEMMA ListInit == DistinctNames /\ Init => ListInv
  <1> SUFFICES ASSUME DistinctNames, Init PROVE ListInv
    OBVIOUS
  <1>1. config \in Configs /\ made = Len(config.sensors) /\ made <= MaxHandles
    BY DEF Init, LoadConfig
  <1>2. config.sensors \in Seq(SensorDefs) /\ made \in Nat
    BY <1>1, ConfigsAssumption DEF SensorDefs
  <1>3. sensors = [i \in 1 .. made |-> i] /\ sensors \in Seq(Made)
    BY <1>2 DEF Init, Made
  <1>4. Len(sensors) = made /\ DOMAIN sensors = 1 .. made
    BY <1>2, <1>3
  <1>5. \A i \in 1 .. made : def[i] = config.sensors[i]
    BY <1>1, <1>2, BoundAssumption DEF Init, Handles
  <1>6. Defines(sensors, config.sensors)
    BY <1>1, <1>3, <1>4, <1>5 DEF Defines
  <1>7. SensorsApart
    BY <1>1, <1>2, <1>3, <1>6, DefinesApart DEF SensorsApart, DistinctNames
  <1>8. QED
    BY <1>6, <1>7 DEF ListInv, Init

\* The sensor whose turn it is has another name than those before it.
LEMMA TurnApart ==
    ASSUME DistinctNames, TypeOK, Collected, rnew \in Configs,
           ridx \in 1 .. Len(rnew.sensors)
    PROVE  /\ NewDef \in SensorDefs
           /\ \A k \in DOMAIN rupd : def[rupd[k]].name # NewDef.name
  <1>1. rnew.sensors \in Seq(SensorDefs)
    BY ConfigsAssumption DEF SensorDefs
  <1>2. DOMAIN rnew.sensors = 1 .. Len(rnew.sensors)
    BY <1>1
  <1>3. rupd \in Seq(Made) /\ DOMAIN rupd = 1 .. ridx - 1
    BY DEF Collected, TypeOK, ReloadType
  <1>4. NamesApart(rnew.sensors)
    BY DEF DistinctNames
  <1>5. ASSUME NEW k \in DOMAIN rupd PROVE def[rupd[k]].name # NewDef.name
    <2>1. k \in DOMAIN rnew.sensors /\ ridx \in DOMAIN rnew.sensors /\ k # ridx
      BY <1>1, <1>2, <1>3, <1>5
    <2>2. def[rupd[k]] = rnew.sensors[k]
      BY <1>5 DEF Collected
    <2>3. QED
      BY <1>4, <2>1, <2>2 DEF NamesApart, NewDef
  <1>6. NewDef \in SensorDefs
    BY <1>1, <1>2 DEF NewDef
  <1>7. QED
    BY <1>5, <1>6

\* Taking over a SafeSensor keeps the list's names and extends updatedSensors.
LEMMA ListUpdate ==
    ASSUME DistinctNames, TypeOK, ListInv, ReloadUpdate
    PROVE  ListInv'
  <1> USE DEF TypeOK
  <1> DEFINE ss == ExistingMap(NewDef.name)
  <1>1. /\ Collected /\ rnew \in Configs /\ ridx \in 1 .. Len(rnew.sensors)
        /\ Existing(NewDef.name) # {}
        /\ sensors \in Seq(Made) /\ made \in Nat /\ rupd \in Seq(Made)
        /\ Made \subseteq Handles
        /\ def \in [Handles -> SensorDefs \cup {Unmade}]
    BY BoundAssumption
    DEF ListInv, ReloadUpdate, ReloadType, SensorsType, Made, Handles
  <1>2. /\ ss \in Made
        /\ \E i \in DOMAIN sensors : sensors[i] = ss
        /\ def[ss].name = NewDef.name
    BY <1>1, ExistingMapType
  <1>3. NewDef \in SensorDefs /\ \A k \in DOMAIN rupd : def[rupd[k]].name # NewDef.name
    BY <1>1, TurnApart
  <1>4. /\ def' = [def EXCEPT ![ss] = NewDef]
        /\ rupd' = Append(rupd, ss) /\ ridx' = ridx + 1 /\ rpc' = "each"
        /\ UNCHANGED <<config, sensors, rnew>>
    BY DEF ReloadUpdate
  <1>5. NewDef = rnew.sensors[ridx]
    BY DEF NewDef
  <1> HIDE DEF ss
  <1>6. \A h \in Made : def'[h].name = def[h].name
    BY <1>1, <1>2, <1>4
  <1>7. \A i \in DOMAIN sensors : sensors[i] \in Made
    BY <1>1
  <1>8. SensorsApart'
    BY <1>4, <1>6, <1>7 DEF ListInv, SensorsApart
  <1>9. /\ Len(rupd') = Len(rupd) + 1 /\ DOMAIN rupd' = DOMAIN rupd \cup {ridx}
        /\ rupd'[ridx] = ss /\ ridx \notin DOMAIN rupd
        /\ \A k \in DOMAIN rupd : rupd'[k] = rupd[k] /\ rupd[k] \in Made
    BY <1>1, <1>2, <1>4 DEF Collected
  <1>10. \A k \in DOMAIN rupd : def'[rupd[k]] = rnew.sensors[k]
    <2>1. \A k \in DOMAIN rupd : rupd[k] # ss
      BY <1>2, <1>3
    <2>2. QED
      BY <1>1, <1>4, <1>9, <2>1 DEF Collected
  <1>11. def'[ss] = rnew.sensors[ridx]
    BY <1>1, <1>2, <1>4, <1>5
  <1>12. \A k \in DOMAIN rupd' : def'[rupd'[k]] = rnew.sensors[k]
    BY <1>9, <1>10, <1>11
  <1>13. ASSUME NEW i \in DOMAIN sensors, NEW k \in DOMAIN rupd',
                def'[sensors[i]].name = def'[rupd'[k]].name
         PROVE  rupd'[k] = sensors[i]
    <2>1. def[sensors[i]].name = def[rupd'[k]].name
      BY <1>2, <1>6, <1>7, <1>9, <1>13
    <2>2. CASE k \in DOMAIN rupd
      BY <1>1, <1>9, <2>1, <2>2 DEF Collected
    <2>3. CASE k = ridx
      BY <1>2, <1>9, <2>1, <2>3 DEF ListInv, SensorsApart
    <2>4. QED
      BY <1>9, <2>2, <2>3
  <1>14. Collected'
    BY <1>1, <1>4, <1>9, <1>12, <1>13 DEF Collected
  <1>15. QED
    BY <1>4, <1>8, <1>14 DEF ListInv

\* A new SafeSensor is in no list yet, and no listed one has its name.
LEMMA ListCreate ==
    ASSUME DistinctNames, TypeOK, ListInv, ReloadCreate
    PROVE  ListInv'
  <1> USE DEF TypeOK
  <1> DEFINE ss == made + 1
  <1>1. /\ Collected /\ rnew \in Configs /\ ridx \in 1 .. Len(rnew.sensors)
        /\ made + 1 <= MaxHandles
        /\ sensors \in Seq(Made) /\ made \in Nat /\ rupd \in Seq(Made)
        /\ Made \subseteq Handles
        /\ def \in [Handles -> SensorDefs \cup {Unmade}]
    <2>1. rnew \in Configs /\ rpc = "each" /\ ridx <= Len(rnew.sensors)
      BY DEF ReloadCreate, ReloadType
    <2>2. Len(rnew.sensors) \in Nat
      BY <2>1, ConfigsAssumption
    <2>3. QED
      BY <2>1, <2>2, BoundAssumption
      DEF ListInv, ReloadType, SensorsType, Made, Handles
  <1>2. ss \in Handles /\ ss \notin Made
    BY <1>1, BoundAssumption DEF Made, Handles
  <1>3. /\ def' = [def EXCEPT ![ss] = NewDef]
        /\ rupd' = Append(rupd, ss) /\ ridx' = ridx + 1 /\ rpc' = "each"
        /\ UNCHANGED <<config, sensors, rnew>>
    BY DEF ReloadCreate
  <1>4. NewDef = rnew.sensors[ridx]
    BY DEF NewDef
  <1>5. \A i \in DOMAIN sensors : sensors[i] \in Made /\ def[sensors[i]].name # NewDef.name
    BY <1>1 DEF ReloadCreate, Existing
  <1> HIDE DEF ss
  <1>6. \A h \in Made : def'[h] = def[h]
    BY <1>1, <1>2, <1>3
  <1>7. SensorsApart'
    BY <1>3, <1>5, <1>6 DEF ListInv, SensorsApart
  <1>8. /\ Len(rupd') = Len(rupd) + 1 /\ DOMAIN rupd' = DOMAIN rupd \cup {ridx}
        /\ rupd'[ridx] = ss
        /\ \A k \in DOMAIN rupd : rupd'[k] = rupd[k] /\ rupd[k] \in Made
    BY <1>1, <1>3 DEF Collected
  <1>9. def'[ss] = NewDef
    BY <1>1, <1>2, <1>3
  <1>10. \A k \in DOMAIN rupd' : def'[rupd'[k]] = rnew.sensors[k]
    BY <1>1, <1>4, <1>6, <1>8, <1>9 DEF Collected
  <1>11. ASSUME NEW i \in DOMAIN sensors, NEW k \in DOMAIN rupd',
                def'[sensors[i]].name = def'[rupd'[k]].name
         PROVE  rupd'[k] = sensors[i]
    <2>1. CASE k \in DOMAIN rupd
      BY <1>1, <1>5, <1>6, <1>8, <1>11, <2>1 DEF Collected
    <2>2. CASE k = ridx
      BY <1>5, <1>6, <1>8, <1>9, <1>11, <2>2
    <2>3. QED
      BY <1>8, <2>1, <2>2
  <1>12. Collected'
    BY <1>1, <1>3, <1>8, <1>10, <1>11 DEF Collected
  <1>13. QED
    BY <1>3, <1>7, <1>12 DEF ListInv

\* Publishing the list puts the new configuration's sensors in force.
LEMMA ListPublish ==
    ASSUME DistinctNames, TypeOK, ListInv, ReloadPublish
    PROVE  ListInv'
  <1> USE DEF TypeOK
  <1>1. /\ Collected /\ rnew \in Configs /\ rupd \in Seq(Made)
        /\ ridx \in 1 .. Len(rnew.sensors) + 1 /\ ridx > Len(rnew.sensors)
    BY DEF ListInv, ReloadPublish, ReloadType
  <1>2. rnew.sensors \in Seq(SensorDefs)
    BY <1>1, ConfigsAssumption DEF SensorDefs
  <1>3. Len(rupd) = Len(rnew.sensors)
    BY <1>1, <1>2 DEF Collected
  <1>4. Defines(rupd, rnew.sensors)
    BY <1>1, <1>3 DEF Collected, Defines
  <1>5. \A i, j \in DOMAIN rupd :
            def[rupd[i]].name = def[rupd[j]].name => i = j
    BY <1>1, <1>2, <1>4, DefinesApart DEF DistinctNames
  <1>6. /\ sensors' = rupd /\ config' = rnew /\ def' = def /\ rpc' = "idle"
    BY <1>1 DEF ReloadPublish, UpdatedSensors, Collected, sensorVars
  <1>7. SensorsApart' /\ Defines(sensors, config.sensors)'
    BY <1>4, <1>5, <1>6 DEF SensorsApart, Defines
  <1>8. QED
    BY <1>6, <1>7 DEF ListInv

\* Every step of the daemon keeps ListInv.
LEMMA ListStep ==
    DistinctNames /\ TypeOK /\ ListInv /\ [Next]_vars => ListInv'
  <1> SUFFICES ASSUME DistinctNames, TypeOK, ListInv, [Next]_vars
               PROVE  ListInv'
    OBVIOUS
  <1>1. CASE UNCHANGED <<config, sensors, def, reloadVars>>
    BY <1>1, ListFrame
  <1>2. CASE ReceiveTerm \/ ReceiveHup \/ ReloadAcquire
    <2>1. UNCHANGED <<config, sensors, def, ridx, rupd>>
      BY <1>2 DEF ReceiveTerm, ReceiveHup, ReloadAcquire, sensorVars
    <2>2. \/ /\ rpc \in {"idle", "lock", "gone"}
             /\ rpc' \in {"idle", "lock", "gone"}
          \/ rpc = "each" /\ rpc' = "update" /\ rnew' = rnew
      BY <1>2 DEF ReceiveTerm, ReceiveHup, ReloadAcquire
    <2>3. QED
      BY <2>1, <2>2 DEF ListInv, SensorsApart, Defines, Collected
  <1>3. CASE ReloadLock
    <2>1. /\ UNCHANGED <<sensors, def, rnew, ridx, rupd>>
          /\ config' = rnew /\ rpc' = "each" /\ ridx = 1 /\ rupd = <<>>
      BY <1>3 DEF ReloadLock, sensorVars, TypeOK, ReloadType
    <2>2. Len(rupd) = 0 /\ DOMAIN rupd = {}
      BY <2>1
    <2>3. QED
      BY <2>1, <2>2 DEF ListInv, SensorsApart, Collected
  <1>4. CASE ReloadUpdate
    BY <1>4, ListUpdate
  <1>5. CASE ReloadCreate
    BY <1>5, ListCreate
  <1>6. CASE ReloadPublish
    BY <1>6, ListPublish
  <1>7. [Next]_vars => \/ UNCHANGED <<config, sensors, def, reloadVars>>
                       \/ ReceiveTerm \/ ReceiveHup \/ ReloadAcquire
                       \/ ReloadLock \/ ReloadUpdate \/ ReloadCreate
                       \/ ReloadPublish
    BY DEF WorkerFrame, ConsumerFrame, SchedFrame, SignalFrame,
           Next, vars, sensorVars, WorkerStep, SchedStep, SignalStep,
           Terminated, TakeHigh, FindHighEmpty, TakeLow, PreemptLow,
           KeepLow, WorkerReturn, BeginCycle, SkipCycle, Publish, EndCycle,
           Unlock, Consume, ConsumerReturn, CloseMetrics, SchedCancelled,
           SchedSnapshot, SchedActive, SchedRemoved, SchedSend, SchedWake,
           SchedCloseLow, SchedCloseHigh, SendHup, SendTerm
  <1>8. QED
    BY <1>1, <1>2, <1>3, <1>4, <1>5, <1>6, <1>7

\* The types and the list are invariant for configurations with distinct names.
LEMMA ListInvariant ==
    ASSUME DistinctNames
    PROVE  Spec => [](TypeOK /\ ListInv)
  <1>1. Init => TypeOK /\ ListInv
    BY TypeInit, ListInit
  <1>2. TypeOK /\ ListInv /\ [Next]_vars => (TypeOK /\ ListInv)'
    BY TypeStep, ListStep
  <1>3. QED
    BY <1>1, <1>2, PTL DEF Spec

\* Outside a reload the SafeSensors are those of the configuration in force,
\* in order and each with its own definition (reloadConfig, main.go).
THEOREM ReloadMatches ==
    ASSUME DistinctNames
    PROVE  Spec => []ListMatchesConfig
  <1>1. ListInv => ListMatchesConfig
    BY DEF ListInv, ListMatchesConfig, Defines
  <1>2. QED
    BY <1>1, ListInvariant, PTL

\* A reload keeps the SafeSensor of every sensor that the running and the
\* new configuration both name (existingMap, main.go).
THEOREM ReloadKeeps ==
    ASSUME DistinctNames
    PROVE  Spec => ReloadKeepsState
  <1> DEFINE Kept ==
        sensors' # sensors =>
          \A i \in DOMAIN sensors, j \in DOMAIN sensors' :
             def[sensors[i]].name = def[sensors'[j]].name
                 => sensors'[j] = sensors[i]
  <1>1. ASSUME TypeOK, ListInv, [Next]_vars PROVE Kept
    <2>1. CASE UNCHANGED sensors
      BY <2>1
    <2>2. CASE ReloadPublish
      <3>1. Collected /\ sensors' = rupd
        BY <1>1, <2>2 DEF ListInv, ReloadPublish, UpdatedSensors
      <3>2. QED
        BY <3>1 DEF Collected
    <2>3. UNCHANGED sensors \/ ReloadPublish
      BY <1>1
      DEF WorkerFrame, ConsumerFrame, SchedFrame, SignalFrame,
          Next, vars, sensorVars, WorkerStep, SchedStep, SignalStep,
          Terminated, TakeHigh, FindHighEmpty, TakeLow, PreemptLow,
          KeepLow, WorkerReturn, BeginCycle, SkipCycle, Publish, EndCycle,
          Unlock, Consume, ConsumerReturn, CloseMetrics, SchedCancelled,
          SchedSnapshot, SchedActive, SchedRemoved, SchedSend, SchedWake,
          SchedCloseLow, SchedCloseHigh, SendHup, SendTerm, ReceiveTerm,
          ReceiveHup, ReloadLock, ReloadAcquire, ReloadUpdate, ReloadCreate
    <2>4. QED
      BY <2>1, <2>2, <2>3
  <1> HIDE DEF Kept
  <1>2. TypeOK /\ ListInv /\ [Next]_vars => [Kept]_vars
    BY <1>1
  <1>3. Spec => [][Kept]_vars
    BY <1>2, ListInvariant, PTL DEF Spec
  <1>4. QED
    BY <1>3 DEF Kept, ReloadKeepsState
=============================================================================
