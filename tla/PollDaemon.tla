----------------------------- MODULE PollDaemon -----------------------------
(***************************************************************************)
(* The polling daemon of cmd/redborder-monitor/main.go: the scheduler, the *)
(* two bounded sensor queues, the worker pool running ProcessSensor, the   *)
(* consumer of the metric channel, and the signal goroutine that reloads   *)
(* the configuration (SIGHUP) or cancels the context (SIGTERM).            *)
(*                                                                         *)
(* A SafeSensor is a handle in 1..MaxHandles, allocated in order; metrics  *)
(* are counted, not named.  main's exit 500 ms after the cancellation only *)
(* truncates a behaviour and has no action of its own.                     *)
(***************************************************************************)
EXTENDS Integers, Sequences, Functions

CONSTANTS
    Workers,        \* the worker goroutines (config "threads")
    Unmade,         \* the definition of a handle not allocated yet
    Configs,        \* what LoadConfig may return: [sensors, maxFails]
    HighCap,        \* capacity of highPrioritySensorChan (1000)
    LowCap,         \* capacity of lowPrioritySensorChan (1000)
    MetricCap,      \* capacity of metricChan (1000)
    SigCap,         \* capacity of sigChan (2)
    MaxMetrics,     \* bound: metrics one query cycle publishes
    MaxFailures,    \* bound: consecutive failed cycles of one sensor
    MaxHandles,     \* bound: SafeSensors ever allocated
    MaxHups,        \* bound: SIGHUPs sent to the process
    MaxTerms        \* bound: SIGTERMs (or SIGINTs) sent to it

Handles == 1 .. MaxHandles
NoSS    == 0                         \* a nil *SafeSensor
Free    == "free"                    \* an unlocked Mutex
Reload  == "reload"                  \* the signal goroutine as lock owner

ASSUME CapAssumption ==
    /\ HighCap \in Nat /\ LowCap \in Nat /\ MetricCap \in Nat \ {0}
    /\ SigCap \in Nat \ {0}
ASSUME BoundAssumption ==
    /\ MaxMetrics \in Nat /\ MaxFailures \in Nat
    /\ MaxHandles \in Nat /\ MaxHups \in Nat /\ MaxTerms \in Nat
ASSUME WorkersAssumption == Free \notin Workers /\ Reload \notin Workers
\* main normalises max_snmp_fails <= 0 to 2 before anybody reads it.
ASSUME ConfigsAssumption ==
    \A c \in Configs : /\ DOMAIN c = {"sensors", "maxFails"}
                       /\ c.sensors \in Seq([name : STRING, ip : STRING])
                       /\ c.maxFails \in Nat \ {0}

SensorDefs == [name : STRING, ip : STRING]

VARIABLES
    \* globals guarded by sensorsMu, and the SafeSensors they point to
    config,       \* the configuration in force (only what the daemon reads)
    sensors,      \* safeSensors: a slice of handles
    made,         \* handles 1..made have been allocated
    def,          \* SafeSensor.Sensor: the definition the handle points to
    fails,        \* SafeSensor.consecutiveFails
    low,          \* SafeSensor.lowPriority
    lock,         \* SafeSensor.Mutex: its owner
    \* channels
    highQ, highOpen, lowQ, lowOpen,
    metricQ, metricOpen,              \* metrics buffered in metricChan
    \* workers: program counter, sensor in hand, low sensor put aside,
    \* metrics the running cycle has still to publish
    wpc, wss, wheld, wleft,
    consumerDone,
    \* scheduler: program counter, queue being filled, snapshot, position
    spc, spass, scur, sidx,
    \* signals: sigChan, signals left to send, ctx cancelled
    sigs, hups, terms, cancelled,
    \* signal goroutine inside reloadConfig: program counter, the new
    \* configuration, the position in it, updatedSensors
    rpc, rnew, ridx, rupd

sensorVars == <<made, def, fails, low, lock>>
queueVars  == <<highQ, highOpen, lowQ, lowOpen>>
metricVars == <<metricQ, metricOpen, consumerDone>>
workerVars == <<wpc, wss, wheld, wleft>>
schedVars  == <<spc, spass, scur, sidx>>
signalVars == <<sigs, hups, terms, cancelled>>
reloadVars == <<rpc, rnew, ridx, rupd>>
vars == <<config, sensors, sensorVars, queueVars, metricVars, workerVars,
          schedVars, signalVars, reloadVars>>

EmptyConfig == [sensors |-> <<>>, maxFails |-> 1]

\* What LoadConfig may return (with n SafeSensors allocated, a configuration
\* that fits the bound MaxHandles).
LoadConfig(n) == {c \in Configs : n + Len(c.sensors) <= MaxHandles}

Init ==
    /\ config \in LoadConfig(0)
    /\ made = Len(config.sensors)
    /\ sensors = [i \in 1 .. made |-> i]
    /\ def = [h \in Handles |-> IF h <= made THEN config.sensors[h] ELSE Unmade]
    /\ fails = [h \in Handles |-> 0]
    /\ low = [h \in Handles |-> FALSE]
    /\ lock = [h \in Handles |-> Free]
    /\ highQ = <<>> /\ highOpen = TRUE
    /\ lowQ = <<>> /\ lowOpen = TRUE
    /\ metricQ = 0 /\ metricOpen = TRUE
    /\ consumerDone = FALSE
    /\ wpc = [w \in Workers |-> "top"]
    /\ wss = [w \in Workers |-> NoSS]
    /\ wheld = [w \in Workers |-> NoSS]
    /\ wleft = [w \in Workers |-> 0]
    /\ spc = "top" /\ spass = "high" /\ scur = <<>> /\ sidx = 1
    /\ sigs = <<>> /\ hups = MaxHups /\ terms = MaxTerms /\ cancelled = FALSE
    /\ rpc = "idle" /\ rnew = EmptyConfig /\ ridx = 1 /\ rupd = <<>>

-----------------------------------------------------------------------------
(* Workers: the select loop of main.                                       *)

\* What no worker ever writes.
WorkerFrame ==
    UNCHANGED <<config, sensors, made, def, highOpen, lowOpen, metricOpen,
                consumerDone, schedVars, signalVars, reloadVars>>

\* Either select receives a high-priority sensor.
TakeHigh(w) ==
    /\ wpc[w] \in {"top", "wait"}
    /\ highQ # <<>>
    /\ highQ' = Tail(highQ)
    /\ wss' = [wss EXCEPT ![w] = Head(highQ)]
    /\ wpc' = [wpc EXCEPT ![w] = "start"]
    /\ WorkerFrame
    /\ UNCHANGED <<fails, low, lock, lowQ, metricQ, wheld, wleft>>

\* The default of step 1: neither ctx.Done nor the high queue is ready.
FindHighEmpty(w) ==
    /\ wpc[w] = "top"
    /\ highQ = <<>> /\ highOpen /\ ~cancelled
    /\ wpc' = [wpc EXCEPT ![w] = "wait"]
    /\ WorkerFrame
    /\ UNCHANGED <<fails, low, lock, highQ, lowQ, metricQ, wss, wheld, wleft>>

\* Step 2 receives a low-priority sensor and puts it aside.
TakeLow(w) ==
    /\ wpc[w] = "wait"
    /\ lowQ # <<>>
    /\ lowQ' = Tail(lowQ)
    /\ wheld' = [wheld EXCEPT ![w] = Head(lowQ)]
    /\ wpc' = [wpc EXCEPT ![w] = "peek"]
    /\ WorkerFrame
    /\ UNCHANGED <<fails, low, lock, highQ, metricQ, wss, wleft>>

\* The strict priority check finds a high-priority sensor: it goes first.
PreemptLow(w) ==
    /\ wpc[w] = "peek"
    /\ highQ # <<>>
    /\ highQ' = Tail(highQ)
    /\ wss' = [wss EXCEPT ![w] = Head(highQ)]
    /\ wpc' = [wpc EXCEPT ![w] = "start"]
    /\ WorkerFrame
    /\ UNCHANGED <<fails, low, lock, lowQ, metricQ, wheld, wleft>>

\* The check finds the high queue empty (open or closed).
KeepLow(w) ==
    /\ wpc[w] = "peek"
    /\ highQ = <<>>
    /\ wss' = [wss EXCEPT ![w] = wheld[w]]
    /\ wheld' = [wheld EXCEPT ![w] = NoSS]
    /\ wpc' = [wpc EXCEPT ![w] = "start"]
    /\ WorkerFrame
    /\ UNCHANGED <<fails, low, lock, highQ, lowQ, metricQ, wleft>>

\* A select sees ctx.Done, or a receive from a closed and drained queue.
WorkerReturn(w) ==
    /\ wpc[w] \in {"top", "wait"}
    /\ \/ cancelled
       \/ highQ = <<>> /\ ~highOpen
       \/ wpc[w] = "wait" /\ lowQ = <<>> /\ ~lowOpen
    /\ wpc' = [wpc EXCEPT ![w] = "done"]
    /\ WorkerFrame
    /\ UNCHANGED <<fails, low, lock, highQ, lowQ, metricQ, wss, wheld, wleft>>

-----------------------------------------------------------------------------
(* ProcessSensor, as far as the daemon's other goroutines can see it.      *)

\* (mutant) nobody looks at the Mutex
IgnoreMutex(ss) == TRUE

\* The SafeSensor's Mutex is free: TryLock succeeds, Lock does not wait.
Unlocked(ss) == lock[ss] = Free

\* (mutant) the deferred Unlock is missing
KeepMutex(ss) == lock

Released(ss) == [lock EXCEPT ![ss] = Free]

\* ProcessSensor returns: the low sensor put aside comes next, unprobed.
ReturnFromSensor(w) ==
    /\ wss' = [wss EXCEPT ![w] = wheld[w]]
    /\ wheld' = [wheld EXCEPT ![w] = NoSS]
    /\ wpc' = [wpc EXCEPT ![w] = IF wheld[w] = NoSS THEN "top" ELSE "start"]

\* TryLock succeeds and the query cycle starts.
BeginCycle(w) ==
    /\ wpc[w] = "start"
    /\ Unlocked(wss[w])
    /\ lock' = [lock EXCEPT ![wss[w]] = w]
    /\ \E n \in 0 .. MaxMetrics : wleft' = [wleft EXCEPT ![w] = n]
    /\ wpc' = [wpc EXCEPT ![w] = "cycle"]
    /\ WorkerFrame
    /\ UNCHANGED <<fails, low, highQ, lowQ, metricQ, wss, wheld>>

\* TryLock fails: the sensor is skipped.
SkipCycle(w) ==
    /\ wpc[w] = "start"
    /\ ~Unlocked(wss[w])
    /\ ReturnFromSensor(w)
    /\ WorkerFrame
    /\ UNCHANGED <<fails, low, lock, highQ, lowQ, metricQ, wleft>>

\* outputMetrics sends one metric; the send blocks while the channel is full.
Publish(w) ==
    /\ wpc[w] = "cycle"
    /\ wleft[w] > 0
    /\ metricQ < MetricCap
    /\ metricQ' = metricQ + 1
    /\ wleft' = [wleft EXCEPT ![w] = @ - 1]
    /\ WorkerFrame
    /\ UNCHANGED <<fails, low, lock, highQ, lowQ, wpc, wss, wheld>>

\* A failed cycle counts one more failure; enough of them demote the sensor.
Fail(ss) ==
    /\ fails[ss] < MaxFailures
    /\ fails' = [fails EXCEPT ![ss] = @ + 1]
    /\ low' = [low EXCEPT ![ss] = @ \/ fails[ss] + 1 >= config.maxFails]

\* (mutant) the sensor never recovers its priority
StayLow(ss) ==
    /\ fails' = [fails EXCEPT ![ss] = 0]
    /\ low' = low

\* A clean cycle resets the count and restores the priority.
Succeed(ss) ==
    /\ fails' = [fails EXCEPT ![ss] = 0]
    /\ low' = [low EXCEPT ![ss] = FALSE]

\* The end of the cycle, the Mutex still held.
EndCycle(w) ==
    /\ wpc[w] = "cycle"
    /\ wleft[w] = 0
    /\ Fail(wss[w]) \/ Succeed(wss[w])
    /\ wpc' = [wpc EXCEPT ![w] = "unlock"]
    /\ WorkerFrame
    /\ UNCHANGED <<lock, highQ, lowQ, metricQ, wss, wheld, wleft>>

Unlock(w) ==
    /\ wpc[w] = "unlock"
    /\ lock' = Released(wss[w])
    /\ ReturnFromSensor(w)
    /\ WorkerFrame /\ UNCHANGED <<fails, low, highQ, lowQ, metricQ, wleft>>

WorkerStep(w) ==
    \/ TakeHigh(w) \/ FindHighEmpty(w) \/ TakeLow(w)
    \/ PreemptLow(w) \/ KeepLow(w) \/ WorkerReturn(w)
    \/ BeginCycle(w) \/ SkipCycle(w) \/ Publish(w) \/ EndCycle(w) \/ Unlock(w)

-----------------------------------------------------------------------------
(* The consumer of metricChan, and the goroutine that closes it.           *)

ConsumerFrame ==
    UNCHANGED <<config, sensors, sensorVars, queueVars, workerVars, schedVars,
                signalVars, reloadVars>>

Consume ==
    /\ ~consumerDone
    /\ metricQ > 0
    /\ metricQ' = metricQ - 1
    /\ ConsumerFrame /\ UNCHANGED <<metricOpen, consumerDone>>

\* (mutant) the consumer leaves on ctx.Done
ConsumerSeesCancel == cancelled

\* "range metricChan" ends on a closed and drained channel.
RangeEnds == metricQ = 0 /\ ~metricOpen

ConsumerReturn ==
    /\ ~consumerDone
    /\ RangeEnds
    /\ consumerDone' = TRUE
    /\ ConsumerFrame /\ UNCHANGED <<metricQ, metricOpen>>

\* (mutant) the closer waits for ctx.Done instead of the workers
CloserSeesCancel == cancelled

\* wg.Wait() returns.
WorkersDone == \A w \in Workers : wpc[w] = "done"

CloseMetrics ==
    /\ metricOpen
    /\ WorkersDone
    /\ metricOpen' = FALSE
    /\ ConsumerFrame /\ UNCHANGED <<metricQ, consumerDone>>

-----------------------------------------------------------------------------
(* The scheduler loop.  sensorsMu is held for writing by reloadConfig from *)
(* ReloadLock to ReloadPublish; the read sections are single steps.        *)

SchedFrame ==
    UNCHANGED <<config, sensors, sensorVars, metricVars, workerVars,
                signalVars, reloadVars>>

SensorsMuHeld == rpc \in {"each", "update"}

\* A test of ctx.Done and the read section after it are one step: only the
\* signal goroutine cancels, and never while it holds sensorsMu.
SchedCancelled ==
    /\ spc \in {"top", "each"}
    /\ cancelled
    /\ scur' = <<>> /\ spass' = "high" /\ sidx' = 1
    /\ spc' = "closeLow"
    /\ SchedFrame /\ UNCHANGED queueVars

\* RLock; copy(currentSensors, safeSensors); RUnlock.
SchedSnapshot ==
    /\ spc = "top"
    /\ ~cancelled /\ ~SensorsMuHeld
    /\ scur' = sensors
    /\ spc' = IF sensors = <<>> THEN "sleep" ELSE "each"
    /\ SchedFrame /\ UNCHANGED <<spass, sidx, queueVars>>

\* (mutant) each pass runs one past the end of its snapshot
PastEnd ==
    \/ /\ sidx <= Len(scur)
       /\ sidx' = sidx + 1 /\ spc' = "each"
       /\ UNCHANGED <<spass, scur>>
    \/ /\ sidx > Len(scur)
       /\ spass' = "high" /\ sidx' = 1 /\ spc' = "sleep" /\ scur' = <<>>

\* (mutant) the snapshot is taken once, before the loop
OneSnapshot ==
    \/ /\ sidx < Len(scur)
       /\ sidx' = sidx + 1 /\ spc' = "each"
       /\ UNCHANGED <<spass, scur>>
    \/ /\ sidx >= Len(scur)
       /\ spass' = (IF spass = "high" THEN "low" ELSE "high")
       /\ sidx' = 1 /\ spc' = "each"
       /\ UNCHANGED scur

\* On to the next sensor, to the low-priority pass, or to the sleep.
SchedNext ==
    \/ /\ sidx < Len(scur)
       /\ sidx' = sidx + 1 /\ spc' = "each"
       /\ UNCHANGED <<spass, scur>>
    \/ /\ sidx >= Len(scur) /\ spass = "high"
       /\ spass' = "low" /\ sidx' = 1 /\ spc' = "each"
       /\ UNCHANGED scur
    \/ /\ sidx >= Len(scur) /\ spass = "low"
       /\ spass' = "high" /\ sidx' = 1 /\ spc' = "sleep" /\ scur' = <<>>

\* stillActive, computed under RLock.
SchedActive ==
    /\ spc = "each"
    /\ ~cancelled /\ ~SensorsMuHeld
    /\ scur[sidx] \in Range(sensors)
    /\ spc' = "send"
    /\ SchedFrame /\ UNCHANGED <<spass, scur, sidx, queueVars>>

SchedRemoved ==
    /\ spc = "each"
    /\ ~cancelled /\ ~SensorsMuHeld
    /\ scur[sidx] \notin Range(sensors)
    /\ SchedNext
    /\ SchedFrame /\ UNCHANGED queueVars

\* A non-blocking send to the queue of this pass, if the priority matches.
\* A full queue drops the sensor silently.
Enqueue(q, cap, ss) == IF Len(q) < cap THEN Append(q, ss) ELSE q

SchedSend ==
    /\ spc = "send"
    /\ LET ss == scur[sidx]
       IN  IF low[ss] # (spass = "low")
             THEN UNCHANGED <<highQ, lowQ>>
             ELSE IF spass = "high"
               THEN highQ' = Enqueue(highQ, HighCap, ss) /\ UNCHANGED lowQ
               ELSE lowQ' = Enqueue(lowQ, LowCap, ss) /\ UNCHANGED highQ
    /\ SchedNext
    /\ SchedFrame /\ UNCHANGED <<highOpen, lowOpen>>

\* The timer of the sleep fires, or ctx.Done is seen first.
SchedWake ==
    /\ spc = "sleep"
    /\ spc' \in IF cancelled THEN {"top", "closeLow"} ELSE {"top"}
    /\ SchedFrame /\ UNCHANGED <<spass, scur, sidx, queueVars>>

\* The deferred closes run in reverse order: low first, then high.
SchedCloseLow ==
    /\ spc = "closeLow"
    /\ lowOpen' = FALSE
    /\ spc' = "closeHigh"
    /\ SchedFrame /\ UNCHANGED <<highQ, highOpen, lowQ, spass, scur, sidx>>

SchedCloseHigh ==
    /\ spc = "closeHigh"
    /\ highOpen' = FALSE
    /\ spc' = "done"
    /\ SchedFrame /\ UNCHANGED <<highQ, lowQ, lowOpen, spass, scur, sidx>>

SchedStep ==
    \/ SchedCancelled \/ SchedSnapshot \/ SchedActive \/ SchedRemoved
    \/ SchedSend \/ SchedWake \/ SchedCloseLow \/ SchedCloseHigh

-----------------------------------------------------------------------------
(* Signals.  signal.Notify never blocks: a full sigChan loses the signal.  *)

SignalFrame == UNCHANGED <<queueVars, metricVars, workerVars, schedVars>>

Notify(sig) == sigs' = IF Len(sigs) < SigCap THEN Append(sigs, sig) ELSE sigs

SendHup ==
    /\ hups > 0
    /\ hups' = hups - 1
    /\ Notify("HUP")
    /\ SignalFrame
    /\ UNCHANGED <<config, sensors, terms, cancelled, sensorVars, reloadVars>>

SendTerm ==
    /\ terms > 0
    /\ terms' = terms - 1
    /\ Notify("TERM")
    /\ SignalFrame
    /\ UNCHANGED <<config, sensors, hups, cancelled, sensorVars, reloadVars>>

\* SIGTERM or SIGINT: cancel() and leave the loop.
ReceiveTerm ==
    /\ rpc = "idle"
    /\ sigs # <<>> /\ Head(sigs) = "TERM"
    /\ sigs' = Tail(sigs)
    /\ cancelled' = TRUE
    /\ rpc' = "gone"
    /\ SignalFrame
    /\ UNCHANGED <<config, sensors, hups, terms, rnew, ridx, rupd, sensorVars>>

\* SIGHUP: LoadConfig fails and the current configuration is kept, or it
\* returns a configuration.
ReceiveHup ==
    /\ rpc = "idle"
    /\ sigs # <<>> /\ Head(sigs) = "HUP"
    /\ sigs' = Tail(sigs)
    /\ \/ UNCHANGED <<rpc, rnew>>
       \/ \E c \in LoadConfig(made) : rnew' = c /\ rpc' = "lock"
    /\ SignalFrame
    /\ UNCHANGED <<config, sensors, hups, terms, cancelled, ridx, rupd, sensorVars>>

\* sensorsMu.Lock(), the global parameters and producer.UpdateConfig.
ReloadLock ==
    /\ rpc = "lock"
    /\ config' = rnew
    /\ rpc' = "each"
    /\ SignalFrame
    /\ UNCHANGED <<sensors, rnew, ridx, rupd, sensorVars, signalVars>>

\* (mutant) every reload builds its sensors anew
ForgetExisting(name) == {}

\* existingMap: the last SafeSensor of the running list with that name.
Existing(name) == {i \in DOMAIN sensors : def[sensors[i]].name = name}
ExistingMap(name) ==
    sensors[CHOOSE i \in Existing(name) : \A j \in Existing(name) : j <= i]

NewDef == rnew.sensors[ridx]

\* ss.Mutex.Lock() on the SafeSensor of that name: waits for its cycle.
ReloadAcquire ==
    /\ rpc = "each" /\ ridx <= Len(rnew.sensors)
    /\ Existing(NewDef.name) # {}
    /\ Unlocked(ExistingMap(NewDef.name))
    /\ lock' = [lock EXCEPT ![ExistingMap(NewDef.name)] = Reload]
    /\ rpc' = "update"
    /\ SignalFrame
    /\ UNCHANGED <<config, sensors, made, def, fails, low, rnew, ridx, rupd, signalVars>>

\* ss.Sensor = s, the enrichment, Unlock and append.
ReloadUpdate ==
    /\ rpc = "update"
    /\ LET ss == ExistingMap(NewDef.name)
       IN  /\ def' = [def EXCEPT ![ss] = NewDef]
           /\ lock' = Released(ss)
           /\ rupd' = Append(rupd, ss)
    /\ ridx' = ridx + 1
    /\ rpc' = "each"
    /\ SignalFrame
    /\ UNCHANGED <<config, sensors, made, fails, low, rnew, signalVars>>

\* NewSafeSensor: high priority, no failures, unlocked.
ReloadCreate ==
    /\ rpc = "each" /\ ridx <= Len(rnew.sensors)
    /\ Existing(NewDef.name) = {}
    /\ made' = made + 1
    /\ def' = [def EXCEPT ![made + 1] = NewDef]
    /\ fails' = [fails EXCEPT ![made + 1] = 0]
    /\ low' = [low EXCEPT ![made + 1] = FALSE]
    /\ rupd' = Append(rupd, made + 1)
    /\ ridx' = ridx + 1
    /\ SignalFrame
    /\ UNCHANGED <<config, sensors, lock, rpc, rnew, signalVars>>

\* (mutant) sensors the new configuration drops stay in the list
KeepDropped == rupd \o SelectSeq(sensors, LAMBDA ss : ss \notin Range(rupd))

\* The list that replaces safeSensors.
UpdatedSensors == rupd

\* (mutant) the reload starts over instead of going back to the signals
RetryReload ==
    /\ rpc = "each" /\ ridx > Len(rnew.sensors)
    /\ sensors' = UpdatedSensors
    /\ rpc' = "lock" /\ ridx' = 1 /\ rupd' = <<>>
    /\ SignalFrame /\ UNCHANGED <<config, rnew, sensorVars, signalVars>>

\* safeSensors = updatedSensors; the deferred Unlock.
ReloadPublish ==
    /\ rpc = "each" /\ ridx > Len(rnew.sensors)
    /\ sensors' = UpdatedSensors
    /\ rpc' = "idle" /\ rnew' = EmptyConfig /\ ridx' = 1 /\ rupd' = <<>>
    /\ SignalFrame /\ UNCHANGED <<config, sensorVars, signalVars>>

SignalStep ==
    \/ ReceiveTerm \/ ReceiveHup \/ ReloadLock
    \/ ReloadAcquire \/ ReloadUpdate \/ ReloadCreate \/ ReloadPublish

-----------------------------------------------------------------------------
\* Every goroutine has returned; the process is about to exit.
Terminated ==
    /\ consumerDone /\ spc = "done" /\ rpc = "gone"
    /\ UNCHANGED vars

Next ==
    \/ \E w \in Workers : WorkerStep(w)
    \/ Consume \/ ConsumerReturn \/ CloseMetrics
    \/ SchedStep
    \/ SendHup \/ SendTerm \/ SignalStep
    \/ Terminated

Spec == Init /\ [][Next]_vars

(***************************************************************************)
(* Every goroutine runs (weak fairness), and a query ends by its timeout.  *)
(* Strong fairness for the two waits whose condition comes and goes: the   *)
(* blocked senders of a Go channel form a FIFO queue, and a waiter starved *)
(* for 1 ms makes a sync.Mutex refuse TryLock and hand itself over.        *)
(***************************************************************************)
Fairness ==
    /\ \A w \in Workers : WF_vars(WorkerStep(w)) /\ SF_vars(Publish(w))
    /\ WF_vars(Consume) /\ WF_vars(ConsumerReturn) /\ WF_vars(CloseMetrics)
    /\ WF_vars(SchedStep)
    /\ WF_vars(SignalStep) /\ SF_vars(ReloadAcquire)

FairSpec == Spec /\ Fairness

-----------------------------------------------------------------------------
(* Properties.                                                             *)

Made == 1 .. made                            \* the allocated SafeSensors

SensorsType ==
    /\ config \in Configs
    /\ made \in 0 .. MaxHandles
    /\ sensors \in Seq(Made)
    /\ def \in [Handles -> SensorDefs \cup {Unmade}]
    /\ fails \in [Handles -> 0 .. MaxFailures]
    /\ low \in [Handles -> BOOLEAN]
    /\ lock \in [Handles -> Workers \cup {Free, Reload}]

QueuesType ==
    /\ highQ \in Seq(Made) /\ highOpen \in BOOLEAN
    /\ lowQ \in Seq(Made) /\ lowOpen \in BOOLEAN

MetricsType ==
    /\ metricQ \in 0 .. MetricCap /\ metricOpen \in BOOLEAN
    /\ consumerDone \in BOOLEAN

WorkersType ==
    /\ wpc \in [Workers -> {"top", "wait", "peek", "start", "cycle",
                            "unlock", "done"}]
    /\ wss \in [Workers -> Made \cup {NoSS}]
    /\ wheld \in [Workers -> Made \cup {NoSS}]
    /\ wleft \in [Workers -> 0 .. MaxMetrics]
    /\ \A w \in Workers :
          /\ wpc[w] \in {"start", "cycle", "unlock"} => wss[w] # NoSS
          /\ wpc[w] = "peek" => wheld[w] # NoSS

SchedType ==
    /\ spc \in {"top", "each", "send", "sleep", "closeLow", "closeHigh", "done"}
    /\ spass \in {"high", "low"}
    /\ scur \in Seq(Made)
    /\ sidx \in Nat \ {0}
    /\ spc \in {"each", "send"} => sidx <= Len(scur)
    /\ spc \notin {"each", "send"} => sidx = 1 /\ spass = "high" /\ scur = <<>>

SignalsType ==
    /\ sigs \in Seq({"HUP", "TERM"})
    /\ hups \in 0 .. MaxHups /\ terms \in 0 .. MaxTerms
    /\ cancelled \in BOOLEAN

\* The handles the rest of a reload may still allocate fit the bound.
ReloadType ==
    /\ rpc \in {"idle", "lock", "each", "update", "gone"}
    /\ rupd \in Seq(Made)
    /\ rpc \in {"idle", "lock", "gone"} => ridx = 1 /\ rupd = <<>>
    /\ rpc \in {"idle", "gone"} => rnew = EmptyConfig
    /\ rpc \in {"lock", "each", "update"} =>
          /\ rnew \in Configs
          /\ ridx \in 1 .. Len(rnew.sensors) + 1
          /\ made + Len(rnew.sensors) + 1 - ridx <= MaxHandles
    /\ rpc = "update" => /\ ridx <= Len(rnew.sensors)
                         /\ Existing(NewDef.name) # {}

\* Every variable has its type, every handle in a list, a queue or a hand is
\* an allocated SafeSensor, a goroutine that uses a sensor has one in hand,
\* and the loops over a list stand inside it.
TypeOK ==
    /\ SensorsType /\ QueuesType /\ MetricsType /\ WorkersType
    /\ SchedType /\ SignalsType /\ ReloadType

\* Worker w is between TryLock and Unlock of SafeSensor h.
InCycle(w, h) == wpc[w] \in {"cycle", "unlock"} /\ wss[w] = h

\* No two workers run the query cycle of one SafeSensor at the same time,
\* however often the scheduler queued it ("a mutex to prevent concurrent
\* runs", processor.go): the cycle's maps are not safe for two goroutines.
OneCyclePerSensor ==
    \A v, w \in Workers, h \in Handles :
        InCycle(v, h) /\ InCycle(w, h) => v = w

\* A reload never changes the definition of a sensor under a running cycle:
\* the cycle indexes newStates by the monitors of one definition.
StableDefinition ==
    [][\A w \in Workers, h \in Handles :
           InCycle(w, h) /\ InCycle(w, h)' => def'[h] = def[h]]_vars

\* No goroutine sends on a closed channel (a panic): metricChan stays open
\* while a worker can still publish, the queues while the scheduler
\* dispatches, and metricChan is closed after the last worker returned.
NoSendOnClosed ==
    /\ (\E w \in Workers : wpc[w] # "done") => metricOpen
    /\ spc \in {"each", "send"} => highOpen /\ lowOpen
    /\ consumerDone => metricQ = 0

LimitsInForce == {c.maxFails : c \in Configs}

\* The priority tells the failures: a low-priority sensor has failed at
\* least as often in a row as the smallest limit a configuration sets, and
\* one that reached the largest is low, whatever reloads change between.
PriorityFollowsFails ==
    \A h \in Handles :
        /\ low[h] => \E n \in LimitsInForce : fails[h] >= n
        /\ ~low[h] => \E n \in LimitsInForce : fails[h] < n

\* Outside a reload the SafeSensors are the sensors of the configuration in
\* force, in order and each under its own definition.
ListMatchesConfig ==
    rpc \in {"idle", "lock", "gone"} =>
        /\ Len(sensors) = Len(config.sensors)
        /\ \A i \in DOMAIN sensors : def[sensors[i]] = config.sensors[i]

\* A reload keeps the SafeSensor, hence the priority, the failures and the
\* caches, of every sensor both configurations name ("updating active
\* sensors without losing priority state or metric caches", README.md).
ReloadKeepsState ==
    [][sensors' # sensors =>
         \A i \in DOMAIN sensors, j \in DOMAIN sensors' :
             def[sensors[i]].name = def[sensors'[j]].name
                 => sensors'[j] = sensors[i]]_vars

Named(h) == \E i \in DOMAIN config.sensors : config.sensors[i].name = def[h].name

\* A sensor that the configuration in force does not name any more is
\* polled only finitely often after the reload.
RetiredSensorsFade ==
    \A h \in Handles :
        <>[](h <= made /\ ~Named(h)) => <>[](\A w \in Workers : ~InCycle(w, h))

\* The scheduler is about to drop h: its queue is full.
Dropping(h) ==
    /\ spc = "send" /\ scur[sidx] = h /\ spass = "high"
    /\ Len(highQ) = HighCap

\* The polling goes on whatever reloads, full queues and a full metric channel
\* do: cycles go on being completed, no worker stays in one for good, every
\* sensor in the high-priority queue comes to a worker, and a high-priority
\* sensor of the list is in a cycle again and again, unless it meets a full
\* queue again and again (the same sensor may be dropped every time).
PollingGoesOn ==
    /\ []<>(cancelled \/ sensors = <<>> \/ \E w \in Workers : wpc[w] = "unlock")
    /\ \A w \in Workers : wpc[w] = "cycle" ~> wpc[w] = "unlock"
    /\ \A h \in Handles :
          h \in Range(highQ) ~>
              cancelled \/ \E w \in Workers : wpc[w] = "start" /\ wss[w] = h
    /\ \A h \in Handles :
          []<>(\/ cancelled \/ h \notin Range(sensors)
               \/ low[h] \/ Dropping(h)
               \/ \E w \in Workers : InCycle(w, h))

\* A reload ends, though it waits for cycles while it holds sensorsMu.
ReloadFinishes == rpc = "lock" ~> rpc = "idle"

\* After a cancellation the scheduler, the workers and the consumer return,
\* and every published metric has been taken from the channel.
ShutdownCompletes ==
    cancelled ~> (spc = "done" /\ WorkersDone /\ consumerDone /\ metricQ = 0)
=============================================================================
