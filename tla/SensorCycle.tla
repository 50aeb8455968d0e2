---------------------------- MODULE SensorCycle ----------------------------
(***************************************************************************)
(* internal/monitor/processor.go: one query cycle of a sensor after        *)
(* another (ProcessSensor, under the sensor's mutex).  A cycle starts a    *)
(* goroutine per SNMP or plugin monitor, waits for all of them, and then   *)
(* goes through the monitors in their order: it runs system commands,      *)
(* evaluates op monitors over what it has gathered, publishes, and updates *)
(* the cache.  A value is known by its origin: the monitor, the cycle,     *)
(* whether it is a number that was answered or a placeholder (0, for a     *)
(* failed query or an answer that is no number), and which values an op    *)
(* was computed from.  Vectors are left out.                               *)
(***************************************************************************)
EXTENDS Integers, Sequences, FiniteSets

CONSTANTS
    Monitors,       \* the sensor's monitors: [kind, name, group, send,
                    \* muted, deps]; muted: the plugin has NoValueOnError;
                    \* deps: the variables of an op, as keys
    NoGroup,        \* the group of a monitor without group_id
    Nil,            \* a nil *MonitorState
    Limit,          \* MaxSimultaneousQueries
    MaxCycles       \* bound: cycles

Kinds == {"snmp", "plugin", "system", "op"}

ASSUME LimitAssumption == Limit \in Nat \ {0}
ASSUME CyclesAssumption == MaxCycles \in Nat

Ids == DOMAIN Monitors
Names == {Monitors[i].name : i \in Ids}

\* currentVals is keyed by "name" or by "name_gid_group".
Base(n) == [name |-> n, group |-> NoGroup]
Key(i) == [name |-> Monitors[i].name, group |-> Monitors[i].group]
Keys == {Base(n) : n \in Names} \cup {Key(i) : i \in Ids}

ASSUME MonitorsAssumption ==
    /\ Len(Monitors) \in Nat /\ Ids = 1 .. Len(Monitors)
    /\ \A i \in Ids :
          /\ Monitors[i].kind \in Kinds
          /\ Monitors[i].muted => Monitors[i].kind = "plugin"
          /\ Monitors[i].deps \subseteq [name : Names, group : {k.group : k \in Keys}]

Origins == [mon : Ids, cycle : 1 .. MaxCycles, real : BOOLEAN]
States == [mon : Ids, cycle : 1 .. MaxCycles, real : BOOLEAN, uses : SUBSET Origins]

ASSUME NilAssumption == Nil \notin States

Origin(s) == [mon |-> s.mon, cycle |-> s.cycle, real |-> s.real]

Queries == {i \in Ids : Monitors[i].kind \in {"snmp", "plugin"}}

VARIABLES
    pc,             \* "idle", "queries" (up to wg.Wait), "sequence"
    cycle,          \* cycles started
    late,           \* the cycle has taken 90 % of its timeout
    ctx,            \* sensorCtx: "open", "expired" or "cancelled"
    stopped,        \* the daemon's context is cancelled
    query,          \* the goroutine of each query monitor
    sem,            \* slots of the semaphore in use
    answer,         \* what came of each monitor (errorsList, and skips)
    newStates,      \* newStates
    hasError,       \* hasError
    next,           \* the monitor the sequential loop is at
    vals,           \* currentVals
    out,            \* the metrics published in this cycle
    cache,          \* ss.Cache
    failure         \* hadFailure of the last cycle

goroutines == <<query, sem, answer, newStates, hasError>>
clock == <<late, ctx, stopped>>
vars == <<pc, cycle, clock, goroutines, next, vals, out, cache, failure>>

Init ==
    /\ pc = "idle" /\ cycle = 0
    /\ late = FALSE /\ ctx = "open" /\ stopped = FALSE
    /\ query = [i \in Queries |-> "done"] /\ sem = 0
    /\ answer = [i \in Ids |-> "none"]
    /\ newStates = [i \in Ids |-> Nil] /\ hasError = FALSE
    /\ next = 1
    /\ vals = [k \in Keys |-> Nil] /\ out = <<>>
    /\ cache = [n \in Names |-> Nil]
    /\ failure = FALSE

\* The new state of monitor i: an answer, the placeholder, an op's result.
Answered(i) == [mon |-> i, cycle |-> cycle, real |-> TRUE, uses |-> {}]
Zero(i) == [mon |-> i, cycle |-> cycle, real |-> FALSE, uses |-> {}]
Computed(i, used) ==
    [mon |-> i, cycle |-> cycle, real |-> TRUE, uses |-> {Origin(s) : s \in used}]

-----------------------------------------------------------------------------
(* Time and shutdown.                                                      *)

BecomeLate ==
    /\ pc # "idle" /\ ~late
    /\ late' = TRUE
    /\ UNCHANGED <<pc, cycle, ctx, stopped, goroutines, next, vals, out,
                   cache, failure>>

Expire ==
    /\ pc # "idle" /\ late /\ ctx = "open"
    /\ ctx' = "expired"
    /\ UNCHANGED <<pc, cycle, late, stopped, goroutines, next, vals, out,
                   cache, failure>>

Shutdown ==
    /\ ~stopped
    /\ stopped' = TRUE
    /\ ctx' = IF ctx = "open" THEN "cancelled" ELSE ctx
    /\ UNCHANGED <<pc, cycle, late, goroutines, next, vals, out, cache, failure>>

\* (mutant) queries watch the daemon's context and not the sensor's
OnlyShutdown == stopped

CtxDone == ctx # "open"

-----------------------------------------------------------------------------
(* The cycle up to wg.Wait.                                                *)

\* currentVals starts with the cache, and the goroutines are spawned.
Start ==
    /\ pc = "idle" /\ cycle < MaxCycles
    /\ pc' = "queries"
    /\ cycle' = cycle + 1
    /\ late' = FALSE
    /\ ctx' = IF stopped THEN "cancelled" ELSE "open"
    /\ query' = [i \in Queries |-> "waiting"]
    /\ answer' = [i \in Ids |-> "none"]
    /\ newStates' = [i \in Ids |-> Nil]
    /\ hasError' = FALSE
    /\ vals' = [k \in Keys |-> IF k.group = NoGroup THEN cache[k.name] ELSE Nil]
    /\ out' = <<>>
    /\ UNCHANGED <<stopped, sem, next, cache, failure>>

\* (mutant) the semaphore has one slot too many
SpareSlot == sem <= Limit

SlotFree == sem < Limit

\* sem <- struct{}{}
Acquire(i) ==
    /\ query[i] = "waiting"
    /\ SlotFree
    /\ query' = [query EXCEPT ![i] = "running"]
    /\ sem' = sem + 1
    /\ UNCHANGED <<pc, cycle, clock, answer, newStates, hasError, next, vals,
                   out, cache, failure>>

\* <-sensorCtx.Done(): no result, and no error either.
Skip(i) ==
    /\ query[i] = "waiting"
    /\ CtxDone
    /\ query' = [query EXCEPT ![i] = "done"]
    /\ answer' = [answer EXCEPT ![i] = "skipped"]
    /\ UNCHANGED <<pc, cycle, clock, sem, newStates, hasError, next, vals,
                   out, cache, failure>>

\* (mutant) results are collected in the order in which they arrive
ArrivalSlot(i) == Cardinality({j \in Queries : query[j] = "done"}) + 1

\* newStates[idx] = res
Slot(i) == i

\* (mutant) the placeholder is published for every failed plugin
AlwaysZero(i) == Zero(i)

\* A failed query is published as 0, unless its plugin has NoValueOnError.
OnFailure(i) == IF Monitors[i].muted THEN Nil ELSE Zero(i)

\* (mutant) an OID the agent does not expose counts as a failure
AnyError(a) == a \in {"failed", "unavailable"}

\* The errors that set hasError: not "object not found", "non-numeric" or
\* "invalid OID" of an agent that did answer.
CountsAsError(a) == a = "failed"

\* parseRawOutput drops the error of ParseFloat, and an empty OctetString is
\* decoded as "0": an answer without a number is published as 0.
Result(i, a) ==
    CASE a = "value" -> Answered(i)
      [] a = "no number" -> Zero(i)
      [] a = "failed" -> OnFailure(i)
      [] OTHER -> Nil

Return(i, a) ==
    /\ query[i] = "running"
    /\ query' = [query EXCEPT ![i] = "done"]
    /\ sem' = sem - 1
    /\ answer' = [answer EXCEPT ![i] = a]
    /\ newStates' = [newStates EXCEPT ![Slot(i)] = Result(i, a)]
    /\ hasError' = (hasError \/ CountsAsError(a))
    /\ UNCHANGED <<pc, cycle, clock, next, vals, out, cache, failure>>

\* The device answers, or the query fails of its own; "no sample" is an
\* ErrNoSample of a plugin, "unavailable" one of the three SNMP errors for an
\* OID.  snmp_rate, the one plugin with NoValueOnError, formats a number.
Answer(i) ==
    \/ \E a \in {"value", "unavailable", "failed"} : Return(i, a)
    \/ Monitors[i].kind = "plugin" /\ Return(i, "no sample")
    \/ ~Monitors[i].muted /\ Return(i, "no number")

\* The device is silent: the query ends with its context.
Abort(i) == CtxDone /\ Return(i, "failed")

\* wg.Wait()
Wait ==
    /\ pc = "queries"
    /\ \A i \in Queries : query[i] = "done"
    /\ pc' = "sequence" /\ next' = 1
    /\ UNCHANGED <<cycle, clock, goroutines, vals, out, cache, failure>>

-----------------------------------------------------------------------------
(* The sequential loop.                                                    *)

\* (mutant) the new state is kept under the group's key only
RememberGroup(i, s) == [vals EXCEPT ![Key(i)] = s]

\* Under the group's key, and under the base name.
Remember(i, s) == [vals EXCEPT ![Key(i)] = s, ![Base(Monitors[i].name)] = s]

\* outputMetrics and the cache update of monitor i with its new state.
Deliver(i, s) ==
    /\ vals' = Remember(i, s)
    /\ out' = IF Monitors[i].send THEN Append(out, [mon |-> i, state |-> s]) ELSE out
    /\ cache' = [cache EXCEPT ![Monitors[i].name] = s]

Nothing == UNCHANGED <<vals, out, cache>>

Turn(kinds) ==
    /\ pc = "sequence"
    /\ next \in Ids
    /\ Monitors[next].kind \in kinds
    /\ next' = next + 1
    /\ UNCHANGED <<pc, cycle, clock, query, sem, newStates, failure>>

TakeQuery ==
    /\ Turn({"snmp", "plugin"})
    /\ IF newStates[next] = Nil THEN Nothing ELSE Deliver(next, newStates[next])
    /\ UNCHANGED <<answer, hasError>>

\* SolveSystemCommand: the first line with text, which may be no number, "0"
\* if there is none, or "0" and an error.  A command that finds its context
\* done does not run.
RunSystem ==
    /\ Turn({"system"})
    /\ \/ /\ ~CtxDone
          /\ \E a \in {"value", "no number"} :
                /\ Deliver(next, Result(next, a))
                /\ answer' = [answer EXCEPT ![next] = a]
          /\ UNCHANGED hasError
       \/ /\ Deliver(next, Zero(next))
          /\ answer' = [answer EXCEPT ![next] = "failed"]
          /\ hasError' = TRUE

\* A variable of an op: by that key, else with the op's group appended.
Lookup(k, i) ==
    IF k \in Keys /\ vals[k] # Nil THEN vals[k]
    ELSE LET g == [name |-> k.name, group |-> Monitors[i].group]
         IN  IF k.group = NoGroup /\ g \in Keys THEN vals[g] ELSE Nil

Inputs(i) == {Lookup(k, i) : k \in Monitors[i].deps}

\* No result if a dependency is missing or the expression has no finite value.
EvaluateOp ==
    /\ Turn({"op"})
    /\ \/ Nil \notin Inputs(next) /\ Deliver(next, Computed(next, Inputs(next)))
       \/ Nothing
    /\ UNCHANGED <<answer, hasError>>

\* (mutant) an error counts only in a cycle that is late as well
LateError == late /\ hasError

HadFailure == late \/ hasError

\* The end of the cycle; priority and counters follow hadFailure (PollDaemon).
Finish ==
    /\ pc = "sequence"
    /\ next \notin Ids
    /\ pc' = "idle"
    /\ failure' = HadFailure
    /\ UNCHANGED <<cycle, clock, goroutines, next, vals, out, cache>>

Next ==
    \/ BecomeLate \/ Expire \/ Shutdown
    \/ Start
    \/ \E i \in Queries : Acquire(i) \/ Skip(i) \/ Answer(i) \/ Abort(i)
    \/ Wait \/ TakeQuery \/ RunSystem \/ EvaluateOp \/ Finish

Spec == Init /\ [][Next]_vars

\* Goroutines run and timers fire; no device is obliged to answer.
Fairness ==
    /\ WF_vars(BecomeLate) /\ WF_vars(Expire)
    /\ \A i \in Queries : WF_vars(Acquire(i) \/ Skip(i)) /\ WF_vars(Abort(i))
    /\ WF_vars(Wait \/ TakeQuery \/ RunSystem \/ EvaluateOp \/ Finish)

FairSpec == Spec /\ Fairness

-----------------------------------------------------------------------------
(* Properties.                                                             *)

Answers == {"none", "value", "no number", "unavailable", "no sample", "failed",
            "skipped"}

\* Types; the semaphore holds one slot per running query, at most Limit.
TypeOK ==
    /\ pc \in {"idle", "queries", "sequence"} /\ cycle \in 0 .. MaxCycles
    /\ late \in BOOLEAN /\ stopped \in BOOLEAN
    /\ ctx \in {"open", "expired", "cancelled"}
    /\ query \in [Queries -> {"waiting", "running", "done"}]
    /\ sem = Cardinality({i \in Queries : query[i] = "running"}) /\ sem <= Limit
    /\ answer \in [Ids -> Answers]
    /\ \A i \in Ids : newStates[i] = Nil \/ newStates[i] \in States
    /\ hasError \in BOOLEAN /\ failure \in BOOLEAN
    /\ next \in 1 .. Len(Monitors) + 1
    /\ \A k \in Keys : vals[k] = Nil \/ vals[k] \in States
    /\ \A n \in Names : cache[n] = Nil \/ cache[n] \in States
    /\ \A j \in DOMAIN out : out[j].mon \in Ids /\ out[j].state \in States

\* However the queries finish, a cycle publishes its monitors in the order
\* of the configuration, each once, with its own value of this cycle.
PublishedInOrder ==
    /\ \A j \in DOMAIN out : out[j].state.mon = out[j].mon /\ out[j].state.cycle = cycle
    /\ \A j, k \in DOMAIN out : j < k => out[j].mon < out[k].mon

\* What a cycle publishes, or computes with, in place of a number that its
\* own queries did not get is a failure that counts against the sensor, or
\* an answer that is no number; it is never a counter plugin, a missing OID
\* or a query that was skipped.
ZeroAccountedFor ==
    \A j \in DOMAIN out : \A o \in {Origin(out[j].state)} \cup out[j].state.uses :
        o.cycle = cycle /\ ~o.real =>
            /\ ~Monitors[o.mon].muted
            /\ answer[o.mon] = "no number" \/ (answer[o.mon] = "failed" /\ hasError)

\* Monitor i has a value in this cycle: an answer, or the placeholder.
HasValue(i) ==
    \/ answer[i] = "value" \/ answer[i] = "no number"
    \/ answer[i] = "failed" /\ ~Monitors[i].muted

\* An op falls back to a value of an earlier cycle only for a variable that
\* no query or command before it has delivered in this cycle.
OldOnlyIfMissing ==
    \A j \in DOMAIN out : \A u \in out[j].state.uses :
        u.cycle < cycle =>
            ~\E i \in 1 .. out[j].mon - 1 :
                Monitors[i].name = Monitors[u.mon].name /\ HasValue(i)

\* A cycle that dropped a monitor for lack of time, or met a real failure,
\* counts against the sensor: only the daemon's shutdown excuses a skip.
FailureIsSeen ==
    [][pc = "sequence" /\ pc' = "idle" /\ ~failure' =>
          \A i \in Ids : answer[i] # "failed" /\ (answer[i] = "skipped" => stopped)]_vars

\* A cycle in time, of a device that answers, never counts against it,
\* whatever OIDs it lacks and whatever counters have no sample yet.
OnlyFailuresCount ==
    [][pc = "sequence" /\ pc' = "idle" /\ failure' =>
          late \/ \E i \in Ids : answer[i] = "failed"]_vars

\* A cycle ends although its devices never answer.
CycleEnds == pc # "idle" ~> pc = "idle"

\* An op reads the monitors of its own group where they have a value ("Also
\* map by base name for same-group lookup", processor.go).
OpOwnGroup ==
    \A j \in DOMAIN out : \A u \in out[j].state.uses :
        LET op == Monitors[out[j].mon]
            own == {i \in 1 .. out[j].mon - 1 :
                       /\ Monitors[i].name = Monitors[u.mon].name
                       /\ Monitors[i].group = op.group
                       /\ HasValue(i)}
        IN  Base(Monitors[u.mon].name) \in op.deps /\ own # {}
                => Monitors[u.mon].group = op.group
=============================================================================
