# A TLA+ specification of redborder-monitor

redborder-monitor polls network devices (SNMP, plugins, shell commands),
computes metrics and sends them to stdout, Kafka and an HTTP endpoint. This
directory models its control in TLA+, checks small instances with TLC and
proves with TLAPS, for every instance, every invariant and every action property that holds, and
the refinement. `PROJECT.json` lists the components, the runs, the source lines every
definition stands for, the mutants that show each property can fail, the
findings, the hazards and the theorems.

## Inventory of the system

Paths without a directory are in `src/internal/monitor/`; `main.go` is
`src/cmd/redborder-monitor/main.go`.

| Component | State | Operations | What makes it correct |
|---|---|---|---|
| Scheduler, `main.go:271-364` | snapshot of `safeSensors`, position, the two queues | snapshot under `sensorsMu`, `stillActive`, non-blocking sends by priority, sleep, close of both queues | polls every sensor of the list, forgets removed ones, never blocks, never sends on what it closed |
| Worker pool, `main.go:216-269` | sensor in hand, low sensor put aside | two selects, the "strict priority check", `ProcessSensor` | one cycle per sensor; high priority first; returns at shutdown |
| Metric channel and its consumer, `main.go:189-207, 265-269` | `metricChan` | blocking sends, `range`, `close` | no send after the close, nothing left behind at the end |
| Signals and reload, `main.go:144-160, 390-492` | `sigChan`, `ctx`, `config`, `safeSensors` | SIGHUP: `reloadConfig`; SIGTERM, SIGINT: `cancel` | the list is that of the configuration, sensors that stay keep their state, running cycles are undisturbed, a reload ends, a shutdown is obeyed |
| `SafeSensor`, `processor.go:64-175` | definition, mutex, cache, priority, failures, counters, statistics | accessors, atomics, `statsMu` | priority agrees with the failures |
| Query cycle, `processor.go:232-438` | per cycle: `newStates`, `currentVals`, errors, semaphore | a goroutine per query, deadline, sequential loop, `outputMetrics`, verdict | right order, right values, every 0 accounted for, the right cycles count as failed, it ends |
| Ops, `processor.go:504-635`, `evaluator.go` | none | variables, lookup by group, shunting yard, RPN | arithmetic precedence; the inputs are those of the op's group and cycle |
| Counter rates, `rate.go` | last reading per monitor and OID | swap, wrap, reset, `max_rate` | the rate is what the agent counted |
| Producer, `producer.go` | `config`, client, url, Kafka writer under `mu`; batch queue, stop and done channels | `Produce`, `sendHTTP`, batcher, `UpdateConfig`, `Close` | each metric is settled once, in order, to its endpoint; `mu` is never held for good |
| Vectors, `processor.go:504-798` | cache of the last states | `split`, `split_op`, op index by index, de-duplication by time | no sample lost, indices not mixed, a mean of what was read |
| Statistics, `stats.go` | atomic counters, active list | `GetStats`, `ResetStats` | the counters account for the metrics |
| Start-up and IPC, `main.go:116-200, 438-518`, `ipc.go` | `config`, `ipcListener`, socket files, the probe's test file | `startIPC`, `DefaultSocketPath`, `queryStatus` | one configuration in force; a daemon that is up has its socket and is found |
| govc sessions, `plugins.go:308-712` | `govcSessionCache` under `govcCacheMu`, sessions at the vCenter | `getVMwareClient`, the retry of `GovcPlugin` | the retry after a recognised loss finds a valid session; logins are shared; a query ends |
| Configuration, `config.go` | none (the MIB catalogue is global) | `LoadConfig`, `StripComments` | a failed load changes nothing |
| Other plugins, SNMP, system commands, `plugins.go`, `snmp.go`, `system.go` | MIB catalogue | queries | they end by the context; errors are classified |
| Logging, info, help, `log.go`, `info.go`, `main.go:374-388, 546-687` | none | output | not modelled |

Interaction: the scheduler reads `safeSensors` under `sensorsMu` and feeds two
bounded queues; workers lock a sensor's mutex (`TryLock`) and run its cycle;
a cycle sends its metrics on the bounded `metricChan` and blocks while it is
full; one consumer hands them to `Produce`, which takes `mu` for reading; a
batcher goroutine or one goroutine per metric posts them. `reloadConfig` takes
`sensorsMu`, then `mu` (in `UpdateConfig`, which waits for the batcher and for
Kafka), then the mutex of each sensor, waiting for its cycle.

Hard parts: this chain of waits; the reload against cycles, dispatch and
batches; the closing of channels at shutdown; full queues, which drop; signals,
which can be lost; queries that end in any order, by a deadline or never; values
kept from one cycle to the next; sessions that all monitors of a vCenter share
and delete for each other; a process that ends anywhere and leaves its files.

## The modules

| Module | Models | Instance for TLC |
|---|---|---|
| `PollDaemon` | `main.go`'s goroutines, and `ProcessSensor` as far as they can see it | `MCPollDaemon` |
| `PollDaemonProofs` | theorems about `PollDaemon` | |
| `MetricDelivery` | the abstract promise of the producer | |
| `MetricProducer` | `producer.go`; refines `MetricDelivery` | `MCMetricProducer` |
| `MetricProducerProofs` | theorems about `MetricProducer` | |
| `SensorCycle` | cycles of one sensor, inside `ProcessSensor` | `MCSensorCycle` |
| `SensorCycleProofs` | theorems about `SensorCycle` | |
| `CounterRate` | `rate.go` for one monitor, with the agent | itself |
| `CounterRateProofs` | theorems about `CounterRate` | |
| `ExpressionGrammar` | what an expression means, by its grammar | |
| `Evaluator` | `evaluator.go`, loop by loop | itself |
| `EvaluatorProofs` | theorems about `Evaluator` and the grammar | |
| `VectorOutput` | split vectors, ops over them, what is published | `MCVectorOutput` |
| `VectorOutputProofs` | theorems about `VectorOutput` | |
| `GovcSession` | the shared vCenter sessions of `plugins.go` | `MCGovcSession` |
| `GovcSessionProofs` | theorems about `GovcSession` | |
| `DaemonLife` | start-up, reload, `ipc.go`, status client, end of the process | `MCDaemonLife` |
| `DaemonLifeProofs` | theorems about `DaemonLife` | |

**PollDaemon.** A `SafeSensor` is a handle, allocated in order. The program
counters name the places between two communications of a goroutine:
`wpc` is "top" (before step 1 of the worker), "wait" (step 2), "peek" (a low
sensor in hand, before the priority check), "start" (before `TryLock`),
"cycle", "unlock" (the cycle is over, the mutex still held) and "done"; `spc`
and `rpc` do the same for the scheduler and the signal goroutine. A read
section of `sensorsMu` is one step, the write section of `reloadConfig` is many,
with `SensorsMuHeld` as the guard of the readers. The cycle itself is reduced
to what the others see: some number of blocking sends, then failure or success.
`Fail` and `Succeed` read the limit that is in force when the cycle ends, as
the code does. `main` leaves 500 ms after the cancellation whatever the others do;
this only cuts a behaviour short, so the shutdown properties say what
the goroutines do if they are given the time.

**SensorCycle** looks inside the cycle. A value is its origin (monitor, cycle,
a number or a placeholder, inputs of an op). The properties compare origins, so they
need no numbers. A placeholder is the 0 of a failed query, and also the 0 that `parseRawOutput` makes of an
answer that is no number, since it drops the error of `ParseFloat` (`processor.go:638`): the "no number" of
`Answer` and `RunSystem`, which covers an empty OctetString (`snmp.go:460`), a command
without output (`system.go:42`), and text of a plugin or a command. It sets no error. It works under the sensor's mutex, which `PollDaemon` shows to be
exclusive (`OneCyclePerSensor`) and to protect the definition
(`StableDefinition`). These two are the assumptions under which `SensorCycle` has
one cycle at a time over a constant list of monitors.

**MetricProducer.** A metric is its number with the URL configured at its
`Produce` call. `upc` is where `UpdateConfig` or `Close` stands while it holds `mu`;
`Produce` and the start of a `sendHTTP` goroutine need `mu` for reading,
the batcher needs nothing. `Confs` stands for the settings the comparisons of
`UpdateConfig` tell apart. `main` calls `Close` after the goroutine that
reloads has returned, so no update follows it. The HTTP server and kafka-go
are external: a post succeeds or fails, a Kafka message leaves the writer sooner
or later. The refinement maps `pending` to the metrics in the queue, the
batch, the post and the single goroutines, and `lost` to what is in no count.

**CounterRate.** The agent counts, restarts and changes its width at any
moment; every reading carries, for the properties only, the agent's true total
and life. `Reply` and `Stamp` are two steps because the code takes the time
after the answer. `Retarget` is a reload that moves the sensor to another
device between two cycles: the readings stay, so the next rate may be between
two devices, and `ResetBounded` bounds it as it does a reset.

**Evaluator** takes the tokens of an expression one by one, so that every list of
tokens is an expression. A value is the term it was computed by, which is all
that precedence, order and parentheses can change; the grammar of
`ExpressionGrammar` says which term is right, without an algorithm: it has an operator for each rule, which
takes the terms of the parts and gives those of the whole, and `Terms` is the one function over all stretches of the
expression that obeys the rules. Ill-formed
input with balanced parentheses is not refused by the code in every case (`a b +`
has a value), and no property says so.

**VectorOutput** runs the sequential loop of `ProcessSensor` over one sensor's
monitors; its cycles are exclusive by `OneCyclePerSensor`. A value carries the samples it was computed
from, for the properties only. A failed query of a split monitor is the list of one
part, 0 at the present time, as in the code; while it is in the
cache a real 0 with an older time is withheld. A hole in the cached vector
makes its index news in the next cycle. Groups, which share a cache
entry by name, are in `SensorCycle`.

**GovcSession.** A session is its number at its vCenter. `pc` is where a query stands:
before the cache ("get"), in `govmomi.NewClient` with the lock ("login"), in the calls
that find the object ("resolve") and read it ("fetch"), and before the deletion
("evict"). `Refused`, `Breaks` and `Abort` are the errors of a call, sorted as the texts in
`GovcPlugin` sort them; a wrong password counts as a lost session there,
so it is tried twice. "hidden" is the error of a call after one that lost the session and was passed over, whose
text `GovcPlugin` does not recognise (`Misses`, `NoStores`); "datastores" is where the `disk_usage` of a host
(`DiskUsage`) reads them one by one. Objects already found are kept with the session and
never forgotten; `GetCached` therefore may go to "fetch" at once.

**DaemonLife.** The steps of `main` from `LoadConfig` to `startIPC` against
`reloadConfig`, which the signal goroutine may run from `signal.Notify` on. The
two probe the run directory by creating `.test_write` and removing it, and so
does the status client, a process of its own. `Exit` may happen anywhere and leaves
socket files and test file as they are. The socket a file names belongs to the last
that bound it. Every file the daemon reads is a good one (with another, `LoadConfig`
fails and the start-up ends, or the reload changes nothing), and the run directory
exists and is writable.

## Runs

| Run | Instance | Question |
|---|---|---|
| `poll_reload` | 2 workers, 2 configurations, 1 reload, 2 failures, 3 handles | exclusion, reload and priority |
| `poll_live` | 2 workers, 1 sensor that a reload drops or names again, `metricChan` of 1, 1 SIGTERM | closing and termination; the reload's chain of waits ends; removed sensors fade |
| `poll_progress` | 2 workers, 2 sensors of which a reload adds or drops one, queue and `metricChan` of 1 | the polling goes on, sensor by sensor |
| `producer` | 4 metrics, 2 updates over 4 settings, batches of 2, queue of one batch, `Close` | delivery, order, refinement, no blocking |
| `sensor_cycle` | 2 cycles, 5 monitors of all kinds, 2 slots | values, what a 0 stands for, verdict, termination |
| `counter_rate` | moduli 3 and 5, 6 increments, 4 ticks, 2 restarts | wrap, reset, gap, `max_rate` |
| `evaluator` | all lists of up to 7 tokens over `x ( ) + - *` | value by the grammar, conservation of tokens |
| `vector_output` | 3 cycles, a scalar, vectors with times, holes and a mean, an op over them | publication, alignment, mean |
| `govc` | 3 monitors, 2 on one vCenter (one a `disk_usage`) and 1 on another, one query each | loss of a session and retry, logins, termination |
| `daemon_life` | 2 edits, 2 SIGHUPs, 2 starts, 1 status query, configurations with and without a path | start-up against reload, crash and restart, client |
| `op_groups`, `ipc_socket` | the smallest that show it | a statement of the repository that the code does not keep (below) |

Why the bounds are enough. The queues of 1000 become queues of 1 or 2, so that
full and empty are both common; two workers are what it takes to race for a
sensor, and no action looks at a third. One reload meets every position of
every goroutine, since signals come at any moment; two configurations change
the definition, the membership and the failure limit of a sensor. `poll_progress` has no failed cycle
(`MaxFailures` is 0), hence nothing in the low-priority queue, to keep the liveness check small; its queue
is full with one sensor while the other is dispatched. The
producer's four metrics fill a batch, the queue behind it, and overflow it; two
updates go there and back, and every pair of settings (with batches, without,
another endpoint, none) is reached. Two cycles are what a value kept from the
cycle before needs. The two moduli keep their order, and one agent's life can
exceed both, so wraps, double wraps and resets all occur. Seven tokens hold two
operators of different precedence with a sign and a pair of parentheses, as in
`x * ( x - x )` or `x - - x * x`, and three operators without parentheses; `/` takes the branches of
`*` everywhere but in the arithmetic, where a division by zero gives NaN. Three cycles let a
vector shrink and grow again over a cache. Two queries on one key race for its session, the
third logs in elsewhere with the same lock held, and a session may end as often as it was
opened. Two starts give a predecessor's stale file, two SIGHUPs one reload in the start-up and one
after it. What the bounds cut
off for the daemon's safety, the theorems cover.

`CHECK_DEADLOCK FALSE` stands where the bound on callers (calls of `Produce`,
cycles, the clock) lets the model stop; `PollDaemon`'s runs check deadlock, and a
finished daemon stutters in `Terminated`. `MaxFailures` forbids a further
failed cycle instead of leaving the count to grow; the priority has changed
long before. Symmetry over workers is used only in `poll_reload`, which has
no liveness property.

### Fairness

Goroutines are scheduled (weak fairness of each), timers fire, and a query ends
by its context, as the code passes one to every query; no device is obliged to
answer, no signal to come, no metric to be produced. Two waits need strong
fairness because their condition comes and goes. A sender blocked on a channel
waits in a FIFO queue of the Go runtime (`SF(Publish)`). A `Lock` of a
`sync.Mutex` that has waited for 1 ms puts the mutex into starvation mode, where
`TryLock` fails and the waiter gets it next (`SF(ReloadAcquire)`). The
HTTP client has a timeout and kafka-go gives up after its retries, hence
the weak fairness of `BatcherSent`, `SenderEnd` and `KafkaDeliver`. A system
command is assumed to end: its shell is killed at the deadline, but a
grandchild holding the pipe would delay `Run` (`system.go:28`).

In `GovcSession` nothing has to answer: only the context ends a call, and since
each `Abort` is enabled for as long as the query is in a call, weak fairness of it is all that
is asked of vCenter. `govcCacheMu` is a `sync.Mutex`, hence `SF(TakeLock)`, as above; the wait for
it does not watch the context, so a query ends after the logins before it, each of which ends by its own.

### What does not hold

Two statements of the repository have a run that refutes them.

* `op_groups`: "same-group lookup" (`processor.go:380`). An op of one group reads
  the value of another group's monitor of that name.
* `ipc_socket`: "Update IPC listener if socket path changed" (`main.go:438`).
  The old path is read from `config` after it was overwritten (`main.go:418, 443`), so the
  listener never moves, while the status client looks where the file says.

Other behaviours that follow from the models and that no property states:

* A worker that put a low-priority sensor aside runs it after one high-priority
  sensor, with more of them queued (`main.go:251-262`; the comment at 218 calls the priority strict).
* A sensor that one reload drops and the next names again has two SafeSensors, and
  may have two cycles at once: the exclusion is per SafeSensor.
* Sensors without a name, or of one name, become one SafeSensor at a reload
  (`main.go:454-479`). `ListMatchesConfig` is checked of distinct names.
* `sigChan` holds two signals; a third during a reload is lost, be it SIGTERM.
* The first rate after a reload that changes the address is between two devices (`rate.go:110`).
* An answer that is no number is published as 0, and the cycle counts as good. `processor.go:465-466` says of a plugin
  whose agent "returned non-numeric text" not to "publish a misleading 0", but only errors are skipped: `SNMPWalkPlugin`
  drops the error that says so (`snmp.go:432`), `GovcPlugin` returns text such as "poweredOn" for its
  default metric without one (`plugins.go:481, 623`), and `parseRawOutput` drops that of `ParseFloat`
  (`processor.go:638`). `ZeroAccountedFor` names the case as "no number".
* A full queue may drop the same sensor every time, and the low-priority queue may never get its turn:
  `PollingGoesOn` promises a turn to what is in the high-priority queue, and cycles to a high-priority sensor only if
  it finds room from some time on.
* A session lost in `DefaultDatacenter` (`plugins.go:426`), in a later one of the searches for a VM, or at a host's datastores
  (`plugins.go:531`) ends in an error that `plugins.go:363` does not recognise, or in a sum over
  fewer datastores. The dead session stays cached and there is no retry; the query is published as 0 and counts as
  failed. The next query that meets the loss in a call whose error is kept deletes the entry. Hence `RetryFindsSession` speaks of the
  retry, and not of every expiry.
* An op may be computed from the cached 0 of an earlier, failed cycle, in a cycle that counts as good: `ZeroAccountedFor` is about
  the zeros of the cycle itself.
* Two probes of the run directory that meet, or one that was killed,
  send daemon and client to different sockets (the `clash` of `ClientFinds`).

## Theorems

`PollDaemonProofs`: for every set of workers, set of configurations,
capacity and bound. Assumptions: the capacities are naturals (those of
`metricChan` and `sigChan` positive), a configuration is a sequence of sensors
and a positive limit, which `main.go:130-134` and `:424-428` see to, and a
worker is not one of the two other owners a mutex can have.

* `TypeCorrect`: `TypeOK` is inductive as it stands. For that it carries more
  than types: a goroutine that uses a sensor has one, the loops stand inside their lists, the
  reload's name is still found when it updates, and a pending reload fits
  the handles left. The lemma about the last position of a name
  (`ExistingMapType`) rests on the finite-set theorems.
* `MutualExclusion` (`OneCyclePerSensor`) and `DefinitionStability`
  (`StableDefinition`): exclusion alone is not inductive. `CycleInv` adds who owns
  the mutex: a worker in its cycle, and the reload while it updates. Both
  theorems follow from it.
* `ChannelSafety` (`NoSendOnClosed`): `ClosingInv` says what has ended when a channel is
  closed, and is needed since `NoSendOnClosed` alone forgets that a closed
  channel stays closed and a worker that returned stays away.
* `WaitsHaveAnEnd`: the reload waits for a sensor's mutex only while a worker is in its cycle, and a worker for
  `metricChan` only while the consumer is there and has something to take. `OwnerInv` says that a mutex that
  is not free has an owner who is running, so that no step leaves one locked behind. This is the part of
  `ReloadFinishes` and `ShutdownCompletes` that needs no fairness.
* `PriorityCorrect` (`PriorityFollowsFails`) is inductive together with the
  types, because `Fail` compares with a limit of some configuration.
* `ReloadMatches` (`ListMatchesConfig`) and `ReloadKeeps` (`ReloadKeepsState`) have the
  hypothesis `DistinctNames`: the sensors of every configuration have names of their own.
  Without it both are false, since `existingMap` has one entry for a name. `ListInv` says
  that the list keeps the names apart, that at rest it defines the configuration, and what a
  reload on its way has collected: the new sensors so far, each in the SafeSensor that
  already had its name.

`MetricProducerProofs`: every safety property of `MetricProducer`, for every set
of settings, queue capacity and number of calls. Assumptions: a setting is a
record with a natural batch size (`ConfsAssumption`), the queue holds at least a
batch (`FactorAssumption`; the code's factor is 10) and the two bounds are naturals.

* `NothingLeftBehind` (`NothingStranded`) rests on `BatcherInv`, inductive with
  `Types`: what the batcher holds follows from where it stands (a post in "send",
  nothing in "none", less than a batch otherwise), a last flush leaves the queue
  empty, and it is told to stop only under `mu`, so no `Produce` refills it.
* `Accounts` sorts every step by what it does to the counters: it accepts,
  refuses, settles, loses or keeps. From this follow that nothing is counted twice
  (`NotOvercounted`, which with `Types` and `BatcherInv` is the inductive
  `ProducerInv`), hence the bound on the goroutines in `ProducerTypes` (`TypeOK`),
  `Accounted` (`LostOnlyWithoutClient`), and `Implementation`
  (`ImplementsDelivery`), where the five map to the actions of `MetricDelivery`.
* `OrderKept` (`BatchInOrder`): `OrderInv` orders the post, the batch and the queue,
  each in itself and before the next, and bounds their numbers by the
  calls of `Produce` made, so that a new metric comes last.
* `EndpointKept` (`BatchGoesWhereProduced`): `EndpointInv` adds why a metric
  accepted now suits the batcher. While `mu` is free or `UpdateConfig` only
  changes Kafka, the batcher's endpoint is the configured one.

* `UpdateAdvances`: what the holder of `mu` waits for only shrinks. `HoldLeft` counts the metrics in the queue (a
  receive, a flush and a post away), in the batch and in the post, the Kafka messages, the single posts and the
  sections left; while `mu` is held every step lowers it or frees `mu`. `StoppedInv` says that the batcher waited for has
  been told to stop and has an endpoint. With the fairness of the batcher, the posts and the writer this is `UpdateReturns`.

`EvaluatorProofs`: any set of operators and any bound on the tokens.

* `YardConserves` (`Conserved`): `YardInv` adds the types of the items and that what is in the yard stands
  at a place of the expression; a "(" on the stack stands for one there, so that dropping
  it loses no operand or operator. The lemmas say what appending to a sequence and removing its last item do to
  the places it holds.
* `GrammarUnambiguous`: an expression has one term at most. `NodeInduction` goes over the stretches of an expression by
  their size, as a least counterexample; `TermsRule` is the equation of the grammar. What has a term at a level has a shape
  (`HasShape`: its parentheses match, no prefix closes what it does not open, signs and operators stand
  where they may), and the shapes leave one place where a sum or a product can be split (`OneSplit`).
* `YardMeansArithmetic` (`MeansArithmetic`) needs three more invariants beside `YardInv`. `ParenInv`: the "(" on the stack are
  as many as the tokens taken have left open. `PrevInv`: between two tokens `prevWasOpOrStart` is
  false exactly after an operand or a ")". `MeaningInv` speaks of every expression with a meaning that begins with the tokens taken, and says
  how far the yard is with it: the operators on the stack cut what was taken into frames, the
  queue evaluates (`Run`) to one term for each frame that has its left operand, every
  such term is one the grammar gives its stretch at the level of its frame (`Frames`), and either an operand is expected (`Expecting`) or one
  is held (`Holding`). Each turn of a loop moves this along by one rule of the grammar: the operator that binds first is the
  one whose split the stretch allows. At the end the stack of terms holds the meaning alone. An expression
  without one is another matter: there the property, like the code, asks for matching parentheses only.
* `YardEnds`: `StepsLeft` falls with every step, so that no loop runs forever.

`GovcSessionProofs`: any monitors, any assignment of keys, any number of queries.

* `GovcTypes` (`TypeOK`) includes that there is no third attempt.
* `RetryHasSession` (`RetryFindsSession`): the second attempt ends in a lost session, recognised or passed over, only if
  a session of its key ended after the deletion. The invariant says that from the deletion on, as long as no
  session of the key ends, what the cache holds and what the query works with is valid; this
  survives the deletions and logins of others because a login happens
  under the lock and only where there is no entry.
* `LoginOnce` (`OneLogin`): sessions opened are at most the deletions plus one if there is an entry,
  and whoever logs in holds the lock over an empty entry.
* `QueriesAdvance`: a query has twelve steps left at most and each of its steps leaves fewer, the retry included; the lock
  is held by a login alone. `LockInv` says that a deletion follows a first attempt, so there is no third.

`DaemonLifeProofs`: any configurations, any bounds.

* `Serves` (`ServesWhenUp`) is inductive with `Types`, which say what each of the two
  goroutines has in hand at each step; `Bind` deletes before it binds.
* `OneConfig` (`OneConfigInForce`): `ConfigInv` follows the sensors and the outputs through the
  steps of a reload and of the start-up, in any interleaving of the two.

* `ClientFindsDaemon` (`ClientFinds`): `ProbeInv` says that until two probes meet there is one at a
  time, with its test file; `PathInv` that as long as the file names the same socket every path in
  use, of the start-up, of a reload and of the listener, is the one a probe finds now. A client that
  dials then dials the listener's path.

`SensorCycleProofs`: every safety and action property of `SensorCycle` that holds, for any monitors,
slots and cycles. Assumptions: the monitors are a sequence, only a plugin has `NoValueOnError`
(as in the code, which returns it from plugins only), and the absent value `Nil` is no state.

* `CycleInv` is what the phases of a cycle leave behind: a query that is not done has no answer, and
  one with a value has its state (`AnswerInv`); the semaphore counts the running queries (`SlotsInv`); an
  error is recorded exactly when a query failed (`ErrorInv`); what is published is sound and by monitors
  before the one at turn (`OutInv`); `vals` holds a value of an earlier cycle only under
  a base name that nothing before this turn has delivered (`ValsInv`); and every placeholder of this cycle that
  is kept or was computed with has its failure, or its answer that is no number (`ZerosInv`, which
  needs that what came of a monitor stands for the rest of the cycle, `AnswersStand`).
* From it follow `CycleTypes` (`TypeOK`), `OrderOfMonitors` (`PublishedInOrder`), `ZerosAccountedFor`
  (`ZeroAccountedFor`), `CacheOnlyIfMissing` (`OldOnlyIfMissing`), and the two verdicts, `FailuresSeen`
  (`FailureIsSeen`) and `NothingElseCounts` (`OnlyFailuresCount`).
* `CycleAdvances`: a cycle has at most 2 * queries + monitors + 5 steps, and each leaves fewer. `SlotsComeBack`: a
  query that finds no slot waits for one that runs, by the count of `SlotsInv`. The two are what `CycleEnds` has beside its fairness.

`CounterRateProofs`: any moduli, multiplier and `max_rate`.

* `RateCorrect` (`RateIsIncrease`), `ResetsBounded` (`ResetBounded`) and `CountingResumes` (`CountsAgain`)
  follow from `CounterInv`: a reading shows the agent's count modulo its width, the kept reading, the one
  in hand and the agent come one after the other in the lives of the agent, and the rate is that of the readings
  it names. The arithmetic is in `RemainderDifference`: two counts less than a modulus apart differ
  by their remainders, plus one modulus if these go backwards.

`VectorOutputProofs`: any monitors, lists and expressions. Assumptions: monitors and the variables of an op are
sequences, only ops have variables, and a list is a non-empty sequence of holes and samples with integer
times (`strings.Split` gives one part at least; a single value is always a number, 0 if its text is none).

* `SamplesPublished` (`NoSampleLost`): what is withheld is compared with the cache, which the property does
  not mention, so `CacheInv` says that every cached value was published at its time or later. It needs
  that every time is an integer, also those of ops, whose time is that of the first vector among
  the inputs (`ItemTimeType`, with the least position of a set of positions).
* `OpsAligned` (`OpAligned`) has two hypotheses on the configuration: `DistinctMonitors` (names differ) and
  `OpsLast` (the variables of an op are monitors before it that are no ops). An op before
  its variable takes the value of the cycle before, by the order of the loop, and the samples of an op over ops are of
  other monitors than its variables; the property is about neither. `SamplesInv`
  says that a measured value is the one sample of its monitor and index, and `TurnsInv`
  that what was delivered had its turn, so that no later turn touches the variables of an op.

* `MeansInRange` (`MeanInRange`) needs `DistinctMonitors`, since two monitors of one name may have different
  totals, and `IntegerResults`: an op over integers gives an integer or none. The sum is defined by recursion over
  the list, and the library's induction rules, which take an operator as a parameter, are out of reach of SMT and Zenon; `SumsExist`,
  `SumIsLast`, `SmallestValue` and `SumBounds` go instead by the least place at which they would fail,
  which `LeastPosition` takes from the well-foundedness of the subsets of a finite set.

Only model-checked: the liveness properties (`PollingGoesOn`, `ReloadFinishes`, `RetiredSensorsFade`, `ShutdownCompletes`,
`UpdateReturns`, `AllSettled`, `CycleEnds`, `QueryEnds`), since fairness and ENABLED are beyond TLAPS 1.4.5. The
variants and waits proved above are what these properties rest on apart from fairness: that steps use up what is left, and that
the one waited for is there. They do not say that a step is taken.

## Not modelled

Logging, help and info output; parsing of JSON, comments, MIBs and the characters of expressions;
the protocols of SNMP, govc, Redfish and IPMI; formatting and compression; the
memory figures of the status; the enrichment maps. What the stats and reset commands
return: each counter is an atomic of its own, and a reset between two reads of `GetStats` mixes
old and new by design; `GetStats` also reads a sensor's definition without its mutex while a
reload may replace it. TCP addresses for IPC. The Kafka counters, since an
asynchronous write is counted as sent before anything is known of it. Single posts
without batches may overtake each other; the code promises no order there. The data
race on `MaxSNMPFails` and `MaxSimultaneousQueries` (a reload writes them without
synchronisation): a running cycle sees the old value or the new. The MIB catalogue,
global state of gosmi that `LoadConfig` replaces while cycles run. Of the vCenter answers only that there is one:
the arithmetic on them has no state. Which datastores `disk_usage` adds up is not told apart.

## Plan

Done, in this order: `PollDaemon`, its proofs, `MetricDelivery` and
`MetricProducer` with its proofs, `CounterRate`, `SensorCycle`, `Evaluator`, `VectorOutput`,
`GovcSession`, `DaemonLife`, and the proofs of `Evaluator`, `GovcSession`, `DaemonLife`, `CounterRate`,
`SensorCycle` and `VectorOutput`.

Then `MeansArithmetic` by an invariant that relates the stack of operators to the grammar, and the variants and waits
that the liveness properties rest on.

Next, most important first:

1. A composition of `PollDaemon` and `MetricProducer` over `metricChan`, where a
   consumer blocked on `mu` backs up into cycles and the reload that holds `mu` waits for
   them. Each half of that chain is proved (`WaitsHaveAnEnd`, `UpdateAdvances`).
2. Variants for the daemon's own loops: what a shutdown has left, and that a queued sensor keeps its place.
