--------------------------- MODULE MetricProducer ---------------------------
(***************************************************************************)
(* internal/monitor/producer.go: Produce, called by the one consumer of    *)
(* metricChan; the batcher goroutine; the sendHTTP goroutines of the mode  *)
(* without batches; UpdateConfig, called by reloadConfig; and Close.       *)
(* A metric is its number in the order of Produce calls, with the URL      *)
(* configured at that call.  Stdout and the counters of Kafka are left     *)
(* out; the kafka-go writer and the HTTP server are external.              *)
(***************************************************************************)
EXTENDS Integers, Sequences

CONSTANTS
    Confs,          \* the output settings: [url, batch, broker], where url is
                    \* the endpoint with its mode, timer and connection
                    \* settings, broker the broker with its topic and timeout
    NoUrl,          \* the empty http_endpoint
    NoBroker,       \* the empty kafka_broker
    QueueFactor,    \* capacity of httpBatchChan in batches (10)
    MaxProduced,    \* bound: calls of Produce
    MaxUpdates      \* bound: calls of UpdateConfig

ASSUME FactorAssumption == QueueFactor \in Nat \ {0}
ASSUME BoundAssumption == MaxProduced \in Nat /\ MaxUpdates \in Nat
ASSUME ConfsAssumption ==
    \A c \in Confs : DOMAIN c = {"url", "batch", "broker"} /\ c.batch \in Nat

Urls == {c.url : c \in Confs} \cup {NoUrl}
Metrics == [id : 1 .. MaxProduced, url : Urls]

VARIABLES
    conf,       \* p.config, as far as the outputs depend on it
    client,     \* httpURL while httpClient is set, NoUrl while it is nil
    writer,     \* the kafkaWriter's broker, NoBroker while it is nil
    upc, unew,  \* UpdateConfig or Close holding mu: where it stands, argument
    updates,    \* calls of UpdateConfig left
    closed,     \* Close has been called
    produced, accepted,         \* Produce calls, those routed to HTTP
    queue,      \* httpBatchChan
    bpc,        \* batcher goroutine: program counter ("none": not running)
    bresume,    \* where it goes on after a flush
    batch, toSend,              \* the batch collected, the batch being posted
    burl, bmax, bstop,          \* its url and maxBatch; stopChan closed
    spawned, posting,           \* sendHTTP before reading url, in client.Do
    sent, failed,               \* metricsSentHTTP, metricsFailedHTTP
    kq                          \* messages in the Kafka writer

confVars    == <<conf, client, writer>>
updateVars  == <<upc, unew, updates, closed>>
countVars   == <<produced, accepted, sent, failed>>
batcherVars == <<bpc, bresume, batch, toSend, burl, bmax, bstop>>
senderVars  == <<spawned, posting>>
vars == <<confVars, updateVars, countVars, queue, batcherVars, senderVars,
          kq>>

\* mu is held for writing.
Locked == upc # "idle"

\* httpBatchChan # nil: a batcher runs that nobody has told to stop.
Batching == bpc # "none" /\ ~bstop

\* startHTTPBatcher starts a goroutine for this client and setting.
Batches(c) == c.url # NoUrl /\ c.batch > 1

Init ==
    /\ conf \in Confs
    /\ client = conf.url
    /\ writer = conf.broker
    /\ upc = "idle" /\ unew = conf /\ updates = MaxUpdates /\ closed = FALSE
    /\ produced = 0 /\ accepted = 0
    /\ queue = <<>> /\ batch = <<>> /\ toSend = <<>>
    /\ bpc = IF Batches(conf) THEN "collect" ELSE "none"
    /\ bresume = "collect" /\ bstop = FALSE
    /\ burl = conf.url /\ bmax = conf.batch
    /\ spawned = 0 /\ posting = 0
    /\ sent = 0 /\ failed = 0
    /\ kq = 0

-----------------------------------------------------------------------------
(* Produce, under RLock.                                                   *)

\* An asynchronous WriteMessages refuses the message or only queues it.
WriteKafka == kq' \in IF writer = NoBroker THEN {kq} ELSE {kq, kq + 1}

\* (mutant) a full queue drops the metric without counting it
DropUncounted == UNCHANGED failed

\* The metric that finds the batch queue full.
Refused == failed' = failed + 1

RouteHTTP(m) ==
    \/ /\ client = NoUrl
       /\ UNCHANGED <<accepted, queue, spawned, failed>>
    \/ /\ client # NoUrl
       /\ accepted' = accepted + 1
       /\ \/ /\ Batching /\ Len(queue) < QueueFactor * bmax
             /\ queue' = Append(queue, m)
             /\ UNCHANGED <<spawned, failed>>
          \/ /\ Batching /\ Len(queue) >= QueueFactor * bmax
             /\ Refused
             /\ UNCHANGED <<queue, spawned>>
          \/ /\ ~Batching
             /\ spawned' = spawned + 1
             /\ UNCHANGED <<queue, failed>>

Produce ==
    /\ ~Locked
    /\ produced < MaxProduced
    /\ produced' = produced + 1
    /\ WriteKafka
    /\ RouteHTTP([id |-> produced + 1, url |-> conf.url])
    /\ UNCHANGED <<confVars, updateVars, sent, batcherVars, posting>>

-----------------------------------------------------------------------------
(* The sendHTTP goroutines.                                                *)

\* Under RLock: client and URL of this moment, not of the Produce call.
SenderStart ==
    /\ ~Locked
    /\ spawned > 0 /\ client # NoUrl
    /\ spawned' = spawned - 1
    /\ posting' = posting + 1
    /\ UNCHANGED <<confVars, updateVars, countVars, queue, batcherVars,
                   kq>>

\* The client has been withdrawn: the metric is dropped uncounted.
SenderGone ==
    /\ ~Locked
    /\ spawned > 0 /\ client = NoUrl
    /\ spawned' = spawned - 1
    /\ UNCHANGED <<confVars, updateVars, countVars, queue, batcherVars,
                   posting, kq>>

\* client.Do returns, with an accepted status or an error.
SenderEnd ==
    /\ posting > 0
    /\ posting' = posting - 1
    /\ \/ sent' = sent + 1 /\ UNCHANGED failed
       \/ failed' = failed + 1 /\ UNCHANGED sent
    /\ UNCHANGED <<confVars, updateVars, produced, accepted, queue,
                   batcherVars, spawned, kq>>

-----------------------------------------------------------------------------
(* The batcher goroutine.                                                  *)

\* (mutant) the batch is flushed one metric late
OverFull(b) == Len(b) > bmax

Full(b) == Len(b) >= bmax

\* (mutant) flush forgets to reset the batch
KeepBatch(b) == b

\* "batch = nil" in flush.
AfterFlush(b) == <<>>

\* flush(): hand batch b to sendHTTPBatch, then go on at pc.
Flush(b, pc) ==
    /\ toSend' = b
    /\ batch' = AfterFlush(b)
    /\ bpc' = "send"
    /\ bresume' = pc

\* A metric is received, while collecting or while draining.
BatcherReceive ==
    /\ bpc \in {"collect", "drain"}
    /\ queue # <<>>
    /\ queue' = Tail(queue)
    /\ LET b == Append(batch, Head(queue))
       IN  IF Full(b) THEN Flush(b, bpc)
                      ELSE batch' = b /\ UNCHANGED <<bpc, bresume, toSend>>
    /\ UNCHANGED <<confVars, updateVars, countVars, burl, bmax, bstop,
                   senderVars, kq>>

BatcherTick ==
    /\ bpc = "collect"
    /\ batch # <<>>
    /\ Flush(batch, "collect")
    /\ UNCHANGED <<confVars, updateVars, countVars, queue, burl, bmax, bstop,
                   senderVars, kq>>

BatcherStop ==
    /\ bpc = "collect"
    /\ bstop
    /\ bpc' = "drain"
    /\ UNCHANGED <<confVars, updateVars, countVars, queue, bresume, batch,
                   toSend, burl, bmax, bstop, senderVars, kq>>

\* (mutant) the stop does not drain the queue
SkipDrain == TRUE

Drained == queue = <<>>

\* The default of the drain loop: a last flush, then close(doneChan).
BatcherDrained ==
    /\ bpc = "drain"
    /\ Drained
    /\ IF batch = <<>> THEN bpc' = "none" /\ UNCHANGED <<bresume, batch, toSend>>
                       ELSE Flush(batch, "none")
    /\ UNCHANGED <<confVars, updateVars, countVars, queue, burl, bmax, bstop,
                   senderVars, kq>>

\* (mutant) client and url are read from p, under mu, as sendHTTP does
PostableUnlocked == ~Locked /\ toSend # <<>> /\ burl # NoUrl

\* sendHTTPBatch posts a batch that is not empty to the url it was given.
Postable == toSend # <<>> /\ burl # NoUrl

\* (mutant) a failed batch counts as one failed metric
FailOnce(b) == failed' = failed + 1

\* "for range batch { IncMetricsFailedHTTP() }"
FailBatch(b) == failed' = failed + Len(b)

\* sendHTTPBatch returns: the whole batch is sent, or has failed.
BatcherSent ==
    /\ bpc = "send"
    /\ Postable
    /\ \/ sent' = sent + Len(toSend) /\ UNCHANGED failed
       \/ FailBatch(toSend) /\ UNCHANGED sent
    /\ toSend' = <<>>
    /\ bpc' = bresume
    /\ UNCHANGED <<confVars, updateVars, produced, accepted, queue, bresume,
                   batch, burl, bmax, bstop, senderVars, kq>>

BatcherStep ==
    BatcherReceive \/ BatcherTick \/ BatcherStop \/ BatcherDrained \/ BatcherSent

-----------------------------------------------------------------------------
(* UpdateConfig and Close, under Lock.                                     *)

\* (mutant) a new endpoint alone does not restart the batcher
BatchChanged(c) == c.batch # conf.batch

HttpChanged(c) == c.url # conf.url \/ c.batch # conf.batch

\* mu.Lock(); the comparisons; p.config = newConfig.  The goroutine that
\* reloads has returned before main closes the producer.
UpdateConfig ==
    /\ upc = "idle" /\ updates > 0 /\ ~closed
    /\ updates' = updates - 1
    /\ \E c \in Confs :
          /\ unew' = c
          /\ conf' = c
          /\ upc' = IF c.broker # conf.broker
                      THEN IF HttpChanged(c) THEN "kafka+http" ELSE "kafka"
                      ELSE IF HttpChanged(c) THEN "http" ELSE "idle"
    /\ UNCHANGED <<client, writer, closed, countVars, queue, batcherVars,
                   senderVars, kq>>

\* kafkaWriter.Close() flushes what is queued; then the new writer.
UpdateKafka ==
    /\ upc \in {"kafka", "kafka+http"}
    /\ kq = 0
    /\ writer' = unew.broker
    /\ upc' = IF upc = "kafka" THEN "idle" ELSE "http"
    /\ UNCHANGED <<conf, client, unew, updates, closed, countVars, queue,
                   batcherVars, senderVars, kq>>

\* stopHTTPBatcherLocked: close(stopChan), then wait for doneChan.
UpdateStop ==
    /\ upc \in {"http", "close"}
    /\ bstop' = (bpc # "none")
    /\ upc' = IF upc = "http" THEN "wait" ELSE "closewait"
    /\ UNCHANGED <<confVars, unew, updates, closed, countVars, queue, bpc,
                   bresume, batch, toSend, burl, bmax, senderVars, kq>>

\* doneChan is closed: the new client, and a batcher for it.
UpdateHTTP ==
    /\ upc = "wait"
    /\ bpc = "none"
    /\ client' = unew.url
    /\ bstop' = FALSE
    /\ burl' = unew.url /\ bmax' = unew.batch
    /\ bpc' = IF Batches(unew) THEN "collect" ELSE "none"
    /\ upc' = "idle"
    /\ UNCHANGED <<conf, writer, unew, updates, closed, countVars, queue,
                   bresume, batch, toSend, senderVars, kq>>

Close ==
    /\ upc = "idle" /\ ~closed
    /\ upc' = "close" /\ closed' = TRUE
    /\ UNCHANGED <<confVars, unew, updates, countVars, queue, batcherVars,
                   senderVars, kq>>

\* The batcher is gone: no client, and the Kafka writer is flushed.
CloseEnd ==
    /\ upc = "closewait"
    /\ bpc = "none" /\ kq = 0
    /\ client' = NoUrl /\ writer' = NoBroker
    /\ bstop' = FALSE
    /\ upc' = "idle"
    /\ UNCHANGED <<conf, unew, updates, closed, countVars, queue, bpc, bresume,
                   batch, toSend, burl, bmax, senderVars, kq>>

-----------------------------------------------------------------------------
(* The kafka-go writer (external): each queued message is delivered, or    *)
(* given up after its retries, which only its logger hears of.             *)
KafkaDeliver ==
    /\ kq > 0
    /\ kq' = kq - 1
    /\ UNCHANGED <<confVars, updateVars, countVars, queue, batcherVars,
                   senderVars>>

Next ==
    \/ Produce
    \/ SenderStart \/ SenderGone \/ SenderEnd
    \/ BatcherStep
    \/ UpdateConfig \/ UpdateKafka \/ UpdateStop \/ UpdateHTTP
    \/ Close \/ CloseEnd
    \/ KafkaDeliver

Spec == Init /\ [][Next]_vars

\* Goroutines run, the ticker fires, and the HTTP client and the Kafka
\* writer answer or time out.  Nothing obliges Produce or the two calls of
\* main to happen.
Fairness ==
    /\ WF_vars(BatcherReceive \/ BatcherStop \/ BatcherDrained \/ BatcherSent)
    /\ WF_vars(BatcherTick)
    /\ WF_vars(SenderStart \/ SenderGone) /\ WF_vars(SenderEnd)
    /\ WF_vars(UpdateKafka \/ UpdateStop \/ UpdateHTTP \/ CloseEnd)
    /\ WF_vars(KafkaDeliver)

FairSpec == Spec /\ Fairness

-----------------------------------------------------------------------------
(* Properties.                                                             *)

\* Types; the batch in hand is never full, and a posted one never too large.
TypeOK ==
    /\ conf \in Confs /\ unew \in Confs
    /\ client \in Urls /\ updates \in 0 .. MaxUpdates
    /\ upc \in {"idle", "kafka", "kafka+http", "http", "wait", "close",
                "closewait"}
    /\ closed \in BOOLEAN /\ writer \in {c.broker : c \in Confs} \cup {NoBroker}
    /\ produced \in 0 .. MaxProduced /\ accepted \in 0 .. produced
    /\ queue \in Seq(Metrics) /\ batch \in Seq(Metrics) /\ toSend \in Seq(Metrics)
    /\ bpc \in {"none", "collect", "send", "drain"}
    /\ bresume \in {"none", "collect", "drain"} /\ bstop \in BOOLEAN
    /\ burl \in Urls /\ bmax \in Nat
    /\ bpc # "none" => Len(batch) < bmax /\ Len(toSend) <= bmax
    /\ spawned \in 0 .. MaxProduced /\ posting \in 0 .. MaxProduced
    /\ sent \in Nat /\ failed \in Nat
    /\ kq \in Nat

\* What the batcher has in hand and in its queue, oldest first.
InBatcher == toSend \o batch \o queue

\* Metrics leave in the order they were produced, none twice: across a
\* flush, a full batch, the drain and the restart of the batcher.
BatchInOrder ==
    \A i, j \in DOMAIN InBatcher : i < j => InBatcher[i].id < InBatcher[j].id

\* A batch goes to the endpoint configured when its metrics were produced,
\* whether the configuration changes before or while they wait.
BatchGoesWhereProduced ==
    \A i \in DOMAIN InBatcher : InBatcher[i].url = burl

\* No metric stays behind in the queue of a batcher that has ended.
NothingStranded == bpc = "none" => InBatcher = <<>>

pendingHTTP == Len(InBatcher) + spawned + posting
lostHTTP == accepted - sent - failed - pendingHTTP

\* Every metric routed to HTTP is counted once as sent or failed, or is on
\* its way; it vanishes from the counts only while no endpoint is set.
LostOnlyWithoutClient == [][lostHTTP' # lostHTTP => client = NoUrl]_vars

Delivery == INSTANCE MetricDelivery WITH
    pending  <- pendingHTTP,
    lost     <- lostHTTP,
    endpoint <- client # NoUrl

\* The producer settles metrics as MetricDelivery allows.
ImplementsDelivery == Delivery!Spec

\* UpdateConfig and Close, which hold mu and so block the consumer and the
\* reload, return: they wait for the batcher's drain and for Kafka's writer.
UpdateReturns == Locked ~> ~Locked

\* Metrics routed to HTTP are all settled, also those of a batch that never
\* fills, whatever reconfiguration and shutdown do meanwhile.
AllSettled ==
    \A n \in 1 .. MaxProduced : accepted >= n ~> accepted - pendingHTTP >= n
=============================================================================
