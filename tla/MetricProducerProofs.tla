------------------------ MODULE MetricProducerProofs ------------------------
(* Proofs about MetricProducer: what the batcher holds, what the counters  *)
(* account for, that the producer implements MetricDelivery, and what a    *)
(* holder of mu waits for.                                                 *)
EXTENDS MetricProducer, SequenceTheorems, TLAPS

\* Types of the variables; the rest of TypeOK bounds them further.
Types ==
    /\ conf \in Confs /\ unew \in Confs
    /\ client \in Urls /\ updates \in 0 .. MaxUpdates
    /\ upc \in {"idle", "kafka", "kafka+http", "http", "wait", "close",
                "closewait"}
    /\ closed \in BOOLEAN /\ writer \in {c.broker : c \in Confs} \cup {NoBroker}
    /\ produced \in 0 .. MaxProduced /\ accepted \in 0 .. produced
    /\ queue \in Seq(Metrics) /\ batch \in Seq(Metrics) /\ toSend \in Seq(Metrics)
    /\ bpc \in {"none", "collect", "send", "drain"}
    /\ bresume \in {"none", "collect", "drain"} /\ bstop \in BOOLEAN
    /\ burl \in Urls /\ bmax \in Nat
    /\ spawned \in Nat /\ posting \in Nat
    /\ sent \in Nat /\ failed \in Nat
    /\ kq \in Nat

\* Where the batcher stands tells what it holds: a batch being posted, none
\* left after the last flush; it drains only when told to stop, which
\* happens under mu.
BatcherInv ==
    /\ bpc = "send" <=> toSend # <<>>
    /\ bpc = "none" => toSend = <<>> /\ batch = <<>> /\ queue = <<>>
    /\ bpc # "none" => Len(batch) < bmax /\ Len(toSend) <= bmax
    /\ bpc = "drain" => bstop
    /\ bpc = "send" /\ bresume # "collect" => bstop
    /\ bpc = "send" /\ bresume = "none" => batch = <<>> /\ queue = <<>>
    /\ bstop => upc \in {"wait", "closewait"}

\* The operators on sequences keep types and lengths.
LEMMA Lengths ==
    ASSUME Types
    PROVE  /\ Len(queue) \in Nat /\ Len(batch) \in Nat /\ Len(toSend) \in Nat
           /\ InBatcher \in Seq(Metrics)
           /\ Len(InBatcher) = Len(toSend) + Len(batch) + Len(queue)
  BY ConcatProperties, LenProperties DEF Types, InBatcher

\* Appending a metric adds one to the length, receiving one removes it.
LEMMA QueueSteps ==
    ASSUME NEW S, NEW s \in Seq(S)
    PROVE  /\ \A x \in S : Append(s, x) \in Seq(S) /\ Len(Append(s, x)) = Len(s) + 1
                           /\ Append(s, x) # <<>>
           /\ s # <<>> => /\ Head(s) \in S /\ Tail(s) \in Seq(S)
                          /\ Len(Tail(s)) = Len(s) - 1
           /\ Len(s) \in Nat /\ (Len(s) = 0 <=> s = <<>>)
  BY AppendProperties, HeadTailProperties, LenProperties, EmptySeq

\* The initial state is typed.
LEMMA TypesInit == Init => Types
  <1> SUFFICES ASSUME Init PROVE Types
    OBVIOUS
  <1>1. /\ conf \in Confs /\ conf.url \in Urls /\ conf.batch \in Nat
        /\ conf.broker \in {c.broker : c \in Confs}
    BY ConfsAssumption DEF Init, Urls
  <1>2. queue \in Seq(Metrics) /\ batch \in Seq(Metrics) /\ toSend \in Seq(Metrics)
    BY EmptySeq DEF Init
  <1>3. /\ updates \in 0 .. MaxUpdates /\ produced \in 0 .. MaxProduced
        /\ accepted \in 0 .. produced
        /\ spawned \in Nat /\ posting \in Nat /\ sent \in Nat /\ failed \in Nat
        /\ kq \in Nat
    BY BoundAssumption DEF Init
  <1>4. /\ bpc \in {"none", "collect", "send", "drain"}
        /\ bresume \in {"none", "collect", "drain"} /\ bstop \in BOOLEAN
        /\ upc \in {"idle", "kafka", "kafka+http", "http", "wait", "close",
                    "closewait"}
        /\ closed \in BOOLEAN
    BY DEF Init
  <1>5. QED
    BY <1>1, <1>2, <1>3, <1>4 DEF Init, Types

\* No step of the producer breaks the types.
LEMMA TypesStep == Types /\ [Next]_vars => Types'
  <1> SUFFICES ASSUME Types, [Next]_vars PROVE Types'
    OBVIOUS
  <1> USE DEF confVars, updateVars, countVars, batcherVars, senderVars
  <1>1. CASE Produce
    <2> DEFINE m == [id |-> produced + 1, url |-> conf.url]
    <2>1. m \in Metrics
      BY <1>1, BoundAssumption DEF Produce, Metrics, Types, Urls
    <2>2. kq' \in Nat
      BY <1>1 DEF Produce, WriteKafka, Types
    <2>3. /\ accepted' \in 0 .. produced'
          /\ produced' \in 0 .. MaxProduced
      BY <1>1, BoundAssumption DEF Produce, RouteHTTP, Types
    <2>4. queue' \in Seq(Metrics)
      <3>1. Append(queue, m) \in Seq(Metrics)
        BY <2>1, QueueSteps DEF Types
      <3>2. queue' = queue \/ queue' = Append(queue, m)
        BY <1>1 DEF Produce, RouteHTTP
      <3>3. QED
        BY <3>1, <3>2 DEF Types
    <2>5. spawned' \in Nat /\ failed' \in Nat
      BY <1>1 DEF Produce, RouteHTTP, Refused, Types
    <2>6. QED
      BY <1>1, <2>2, <2>3, <2>4, <2>5 DEF Produce, Types
  <1>2. CASE SenderStart \/ SenderGone \/ SenderEnd \/ KafkaDeliver
    <2>1. /\ spawned' \in Nat /\ posting' \in Nat /\ kq' \in Nat
          /\ sent' \in Nat /\ failed' \in Nat
      <3>1. CASE SenderStart
        BY <3>1 DEF SenderStart, Types
      <3>2. CASE SenderGone
        BY <3>2 DEF SenderGone, Types
      <3>3. CASE SenderEnd
        BY <3>3 DEF SenderEnd, Types
      <3>4. CASE KafkaDeliver
        BY <3>4 DEF KafkaDeliver, Types
      <3>5. QED
        BY <1>2, <3>1, <3>2, <3>3, <3>4
    <2>2. UNCHANGED <<confVars, updateVars, produced, accepted, queue,
                      batcherVars>>
      BY <1>2 DEF SenderStart, SenderGone, SenderEnd, KafkaDeliver
    <2>3. QED
      BY <2>1, <2>2 DEF Types
  <1>3. CASE BatcherReceive
    <2>1. /\ Tail(queue) \in Seq(Metrics)
          /\ Append(batch, Head(queue)) \in Seq(Metrics)
      BY <1>3, QueueSteps DEF BatcherReceive, Types
    <2>2. /\ batch' \in Seq(Metrics) /\ toSend' \in Seq(Metrics)
          /\ bpc' \in {"none", "collect", "send", "drain"}
          /\ bresume' \in {"none", "collect", "drain"}
      BY <1>3, <2>1, EmptySeq DEF BatcherReceive, Flush, AfterFlush, Types
    <2>3. QED
      BY <1>3, <2>1, <2>2 DEF BatcherReceive, Types
  <1>4. CASE BatcherTick \/ BatcherStop \/ BatcherDrained
    BY <1>4, EmptySeq
    DEF BatcherTick, BatcherStop, BatcherDrained, Flush, AfterFlush, Types
  <1>5. CASE BatcherSent
    <2>1. Len(toSend) \in Nat
      BY LenProperties DEF Types
    <2>2. QED
      BY <1>5, <2>1, EmptySeq DEF BatcherSent, FailBatch, Types
  <1>6. CASE UpdateConfig
    BY <1>6, BoundAssumption DEF UpdateConfig, Types
  <1>7. CASE UpdateKafka \/ UpdateStop
    BY <1>7 DEF UpdateKafka, UpdateStop, Types
  <1>8. CASE UpdateHTTP
    BY <1>8, ConfsAssumption DEF UpdateHTTP, Types, Urls
  <1>9. CASE Close \/ CloseEnd
    BY <1>9 DEF Close, CloseEnd, Types, Urls
  <1>10. CASE UNCHANGED vars
    BY <1>10 DEF vars, Types
  <1>11. QED
    BY <1>1, <1>2, <1>3, <1>4, <1>5, <1>6, <1>7, <1>8, <1>9, <1>10
    DEF Next, BatcherStep

-----------------------------------------------------------------------------
\* What the batcher holds depends on its own variables, the queue and mu.
LEMMA BatcherFrame ==
    ASSUME BatcherInv, UNCHANGED <<queue, batcherVars>>, bstop => upc' = upc
    PROVE  BatcherInv'
  BY DEF BatcherInv, batcherVars

\* A batcher starts with nothing in hand.
LEMMA BatcherInit == Init => BatcherInv
  <1> SUFFICES ASSUME Init PROVE BatcherInv
    OBVIOUS
  <1>1. Batches(conf) => bmax \in Nat /\ bmax > 1
    BY ConfsAssumption DEF Init, Batches
  <1>2. Len(<<>>) = 0
    OBVIOUS
  <1>3. QED
    BY <1>1, <1>2 DEF Init, BatcherInv

\* No step leaves the batcher with a metric it will not come back to.
LEMMA BatcherStepInv == Types /\ BatcherInv /\ [Next]_vars => BatcherInv'
  <1> SUFFICES ASSUME Types, BatcherInv, [Next]_vars PROVE BatcherInv'
    OBVIOUS
  <1> USE DEF confVars, updateVars, countVars, batcherVars, senderVars
  <1>0. bmax \in Nat /\ Len(batch) \in Nat /\ Len(<<>>) = 0
    BY LenProperties DEF Types
  <1>1. CASE Produce
    <2>1. ~bstop /\ UNCHANGED batcherVars /\ UNCHANGED upc
      BY <1>1 DEF Produce, Locked, BatcherInv
    <2>2. bpc = "none" => UNCHANGED queue
      BY <1>1 DEF Produce, RouteHTTP, Batching
    <2>3. QED
      BY <2>1, <2>2 DEF BatcherInv
  <1>2. CASE SenderStart \/ SenderGone \/ SenderEnd \/ KafkaDeliver
    BY <1>2, BatcherFrame DEF SenderStart, SenderGone, SenderEnd, KafkaDeliver
  <1>3. CASE BatcherReceive
    <2> DEFINE b == Append(batch, Head(queue))
    <2>1. /\ Head(queue) \in Metrics
          /\ b \in Seq(Metrics) /\ Len(b) = Len(batch) + 1 /\ b # <<>>
      BY <1>3, QueueSteps DEF BatcherReceive, Types
    <2> HIDE DEF b
    <2>2. CASE Full(b)
      <3>1. /\ toSend' = b /\ batch' = <<>> /\ bpc' = "send" /\ bresume' = bpc
            /\ bpc \in {"collect", "drain"} /\ UNCHANGED <<bmax, bstop, upc>>
        BY <1>3, <2>2 DEF BatcherReceive, Flush, AfterFlush, b
      <3>2. QED
        BY <3>1, <2>1, <1>0 DEF BatcherInv
    <2>3. CASE ~Full(b)
      <3>1. /\ batch' = b /\ bpc \in {"collect", "drain"}
            /\ UNCHANGED <<bpc, bresume, toSend, bmax, bstop, upc>>
        BY <1>3, <2>3 DEF BatcherReceive, b
      <3>2. Len(b) < bmax
        BY <2>3, <2>1, <1>0 DEF Full
      <3>3. QED
        BY <3>1, <3>2 DEF BatcherInv
    <2>4. QED
      BY <2>2, <2>3
  <1>4. CASE BatcherTick
    BY <1>4, <1>0 DEF BatcherTick, Flush, AfterFlush, BatcherInv
  <1>5. CASE BatcherStop
    BY <1>5 DEF BatcherStop, BatcherInv
  <1>6. CASE BatcherDrained
    BY <1>6, <1>0 DEF BatcherDrained, Drained, Flush, AfterFlush, BatcherInv
  <1>7. CASE BatcherSent
    <2>1. bresume \in {"none", "collect", "drain"}
      BY DEF Types
    <2>2. QED
      BY <1>7, <1>0, <2>1 DEF BatcherSent, BatcherInv
  <1>8. CASE UpdateConfig
    BY <1>8, BatcherFrame DEF UpdateConfig, BatcherInv
  <1>9. CASE UpdateKafka
    BY <1>9, BatcherFrame DEF UpdateKafka, BatcherInv
  <1>10. CASE UpdateStop
    BY <1>10 DEF UpdateStop, BatcherInv
  <1>11. CASE UpdateHTTP
    <2>1. Batches(unew) => unew.batch \in Nat /\ unew.batch > 1
      BY ConfsAssumption DEF Types, Batches
    <2>2. QED
      BY <1>11, <1>0, <2>1 DEF UpdateHTTP, BatcherInv
  <1>12. CASE Close
    BY <1>12, BatcherFrame DEF Close, BatcherInv
  <1>13. CASE CloseEnd
    BY <1>13 DEF CloseEnd, BatcherInv
  <1>14. CASE UNCHANGED vars
    BY <1>14, BatcherFrame DEF vars
  <1>15. QED
    BY <1>1, <1>2, <1>3, <1>4, <1>5, <1>6, <1>7, <1>8, <1>9, <1>10, <1>11,
       <1>12, <1>13, <1>14
    DEF Next, BatcherStep

\* A batcher that has ended leaves no metric behind: whatever main's two
\* calls and Produce do while it drains (producer.go, stopHTTPBatcherLocked).
THEOREM NothingLeftBehind == Spec => []NothingStranded
  <1>1. Types /\ BatcherInv => NothingStranded
    <2> SUFFICES ASSUME BatcherInv, bpc = "none" PROVE InBatcher = <<>>
      BY DEF NothingStranded
    <2>1. toSend = <<>> /\ batch = <<>> /\ queue = <<>>
      BY DEF BatcherInv
    <2>2. <<>> \o <<>> = <<>>
      OBVIOUS
    <2>3. QED
      BY <2>1, <2>2 DEF InBatcher
  <1>2. Spec => [](Types /\ BatcherInv)
    BY TypesInit, TypesStep, BatcherInit, BatcherStepInv, PTL DEF Spec
  <1>3. QED
    BY <1>1, <1>2, PTL

-----------------------------------------------------------------------------
\* What is on its way, as a sum, before and after a step.
LEMMA PendingIs ==
    ASSUME Types, Types'
    PROVE  /\ pendingHTTP = Len(toSend) + Len(batch) + Len(queue) + spawned + posting
           /\ pendingHTTP' = Len(toSend') + Len(batch') + Len(queue')
                                 + spawned' + posting'
           /\ Len(toSend) \in Nat /\ Len(batch) \in Nat /\ Len(queue) \in Nat
           /\ pendingHTTP \in Nat /\ pendingHTTP' \in Nat
  <1>1. /\ Len(queue) \in Nat /\ Len(batch) \in Nat /\ Len(toSend) \in Nat
        /\ Len(InBatcher) = Len(toSend) + Len(batch) + Len(queue)
    BY Lengths
  <1>2. /\ Len(queue') \in Nat /\ Len(batch') \in Nat /\ Len(toSend') \in Nat
        /\ Len(InBatcher') = Len(toSend') + Len(batch') + Len(queue')
    BY ConcatProperties, LenProperties DEF Types, InBatcher
  <1>3. /\ spawned \in Nat /\ posting \in Nat
        /\ spawned' \in Nat /\ posting' \in Nat
    BY DEF Types
  <1>4. QED
    BY <1>1, <1>2, <1>3 DEF pendingHTTP

\* The five things a step can do to the accounts.
Accepts ==
    /\ client # NoUrl /\ accepted' = accepted + 1
    /\ pendingHTTP' = pendingHTTP + 1
    /\ UNCHANGED <<sent, failed, client>>
Refuses ==
    /\ client # NoUrl /\ accepted' = accepted + 1 /\ failed' = failed + 1
    /\ pendingHTTP' = pendingHTTP
    /\ UNCHANGED <<sent, client>>
Settles ==
    /\ \E n \in 1 .. pendingHTTP :
          /\ pendingHTTP' = pendingHTTP - n
          /\ \/ sent' = sent + n /\ UNCHANGED failed
             \/ failed' = failed + n /\ UNCHANGED sent
    /\ UNCHANGED <<accepted, client>>
Loses ==
    /\ client = NoUrl /\ pendingHTTP > 0
    /\ pendingHTTP' = pendingHTTP - 1
    /\ UNCHANGED <<accepted, sent, failed, client>>
Keeps ==
    /\ pendingHTTP' = pendingHTTP
    /\ UNCHANGED <<accepted, sent, failed>>

\* Every step of the producer is one of them.
LEMMA Accounts ==
    Types /\ BatcherInv /\ [Next]_vars =>
        Accepts \/ Refuses \/ Settles \/ Loses \/ Keeps
  <1> SUFFICES ASSUME Types, BatcherInv, [Next]_vars
               PROVE  Accepts \/ Refuses \/ Settles \/ Loses \/ Keeps
    OBVIOUS
  <1> USE DEF confVars, updateVars, countVars, batcherVars, senderVars
  <1>0. /\ pendingHTTP = Len(toSend) + Len(batch) + Len(queue) + spawned + posting
        /\ pendingHTTP' = Len(toSend') + Len(batch') + Len(queue')
                              + spawned' + posting'
        /\ Len(toSend) \in Nat /\ Len(batch) \in Nat /\ Len(queue) \in Nat
        /\ pendingHTTP \in Nat /\ pendingHTTP' \in Nat
    BY TypesStep, PendingIs
  <1>00. /\ spawned \in Nat /\ posting \in Nat /\ sent \in Nat /\ failed \in Nat
         /\ accepted \in Nat /\ Len(<<>>) = 0
    BY DEF Types
  <1>1. CASE Produce
    <2> DEFINE m == [id |-> produced + 1, url |-> conf.url]
    <2>1. /\ RouteHTTP(m)
          /\ UNCHANGED <<toSend, batch, posting, sent, client>>
      BY <1>1 DEF Produce
    <2>2. m \in Metrics
      BY <1>1, BoundAssumption DEF Produce, Metrics, Types, Urls
    <2>3. Len(Append(queue, m)) = Len(queue) + 1
      BY <2>2, QueueSteps DEF Types
    <2> HIDE DEF m
    <2>4. CASE client = NoUrl
      BY <2>1, <2>4, <1>0, <1>00 DEF RouteHTTP, Keeps
    <2>5. CASE client # NoUrl /\ queue' = Append(queue, m)
               /\ accepted' = accepted + 1 /\ UNCHANGED <<spawned, failed>>
      BY <2>1, <2>3, <2>5, <1>0, <1>00 DEF Accepts
    <2>6. CASE client # NoUrl /\ failed' = failed + 1
               /\ accepted' = accepted + 1 /\ UNCHANGED <<spawned, queue>>
      BY <2>1, <2>6, <1>0, <1>00 DEF Refuses
    <2>7. CASE client # NoUrl /\ spawned' = spawned + 1
               /\ accepted' = accepted + 1 /\ UNCHANGED <<failed, queue>>
      BY <2>1, <2>7, <1>0, <1>00 DEF Accepts
    <2>8. QED
      BY <2>1, <2>4, <2>5, <2>6, <2>7 DEF RouteHTTP, Refused
  <1>2. CASE SenderStart
    BY <1>2, <1>0, <1>00 DEF SenderStart, Keeps
  <1>3. CASE SenderGone
    BY <1>3, <1>0, <1>00 DEF SenderGone, Loses
  <1>4. CASE SenderEnd
    <2>1. pendingHTTP' = pendingHTTP - 1 /\ 1 \in 1 .. pendingHTTP
      BY <1>4, <1>0, <1>00 DEF SenderEnd
    <2>2. QED
      BY <1>4, <2>1 DEF SenderEnd, Settles
  <1>5. CASE BatcherReceive
    <2> DEFINE b == Append(batch, Head(queue))
    <2>1. /\ Len(b) = Len(batch) + 1
          /\ Len(Tail(queue)) = Len(queue) - 1
      BY <1>5, QueueSteps DEF BatcherReceive, Types
    <2>2. Len(toSend) = 0
      BY <1>5, <1>00 DEF BatcherReceive, BatcherInv
    <2>3. /\ queue' = Tail(queue)
          /\ \/ toSend' = b /\ batch' = <<>>
             \/ batch' = b /\ toSend' = toSend
          /\ UNCHANGED <<spawned, posting, accepted, sent, failed>>
      BY <1>5 DEF BatcherReceive, Flush, AfterFlush
    <2> HIDE DEF b
    <2>4. Len(queue') = Len(queue) - 1
      BY <2>1, <2>3
    <2>5. Len(toSend') + Len(batch') = Len(batch) + 1
      <3>1. CASE toSend' = b /\ batch' = <<>>
        BY <2>1, <3>1, <1>0, <1>00
      <3>2. CASE batch' = b /\ toSend' = toSend
        BY <2>1, <2>2, <3>2, <1>0
      <3>3. QED
        BY <2>3, <3>1, <3>2
    <2>6. Len(toSend') \in Nat /\ Len(batch') \in Nat
      BY <2>3, <2>1, <1>0, <1>00
    <2>7. UNCHANGED <<spawned, posting, accepted, sent, failed>>
      BY <2>3
    <2>8. pendingHTTP' = pendingHTTP
      BY <2>2, <2>4, <2>5, <2>6, <2>7, <1>0, <1>00
    <2>9. QED
      BY <2>7, <2>8 DEF Keeps
  <1>6. CASE BatcherTick \/ BatcherDrained
    <2>1. Len(toSend) = 0
      BY <1>6, <1>00 DEF BatcherTick, BatcherDrained, BatcherInv
    <2>2. /\ UNCHANGED <<queue, spawned, posting, accepted, sent, failed>>
          /\ \/ toSend' = batch /\ batch' = <<>>
             \/ UNCHANGED <<toSend, batch>>
      BY <1>6 DEF BatcherTick, BatcherDrained, Flush, AfterFlush
    <2>3. QED
      BY <2>1, <2>2, <1>0, <1>00 DEF Keeps
  <1>7. CASE BatcherSent
    <2> DEFINE n == Len(toSend)
    <2>1. n > 0
      BY <1>7, <1>0, QueueSteps DEF BatcherSent, Postable, Types
    <2>2. pendingHTTP' = pendingHTTP - n /\ n \in 1 .. pendingHTTP
      BY <1>7, <2>1, <1>0, <1>00 DEF BatcherSent
    <2>3. QED
      BY <1>7, <2>2 DEF BatcherSent, FailBatch, Settles
  <1>8. CASE BatcherStop \/ UpdateConfig \/ UpdateKafka \/ UpdateStop
             \/ UpdateHTTP \/ Close \/ CloseEnd \/ KafkaDeliver
    BY <1>8, <1>0
    DEF BatcherStop, UpdateConfig, UpdateKafka, UpdateStop, UpdateHTTP, Close,
        CloseEnd, KafkaDeliver, Keeps
  <1>9. CASE UNCHANGED vars
    BY <1>9, <1>0 DEF vars, Keeps
  <1>10. QED
    BY <1>1, <1>2, <1>3, <1>4, <1>5, <1>6, <1>7, <1>8, <1>9
    DEF Next, BatcherStep

-----------------------------------------------------------------------------
\* No metric is counted twice: what is settled or on its way was accepted.
NotOvercounted == sent + failed + pendingHTTP <= accepted

\* Nothing is counted or on its way initially.
LEMMA NotOvercountedInit == Init => NotOvercounted
  <1> SUFFICES ASSUME Init PROVE NotOvercounted
    OBVIOUS
  <1>1. Types
    BY TypesInit
  <1>2. pendingHTTP = 0
    BY <1>1, Lengths DEF Init, pendingHTTP
  <1>3. QED
    BY <1>2 DEF Init, NotOvercounted

\* None of the five things a step does counts a metric twice.
LEMMA NotOvercountedStep ==
    Types /\ BatcherInv /\ NotOvercounted /\ [Next]_vars => NotOvercounted'
  <1> SUFFICES ASSUME Types, BatcherInv, NotOvercounted, [Next]_vars
               PROVE  NotOvercounted'
    OBVIOUS
  <1>1. pendingHTTP \in Nat /\ pendingHTTP' \in Nat
    BY TypesStep, PendingIs
  <1>2. sent \in Nat /\ failed \in Nat /\ accepted \in Nat
    BY DEF Types
  <1>3. CASE Accepts
    BY <1>1, <1>2, <1>3 DEF Accepts, NotOvercounted
  <1>4. CASE Refuses
    BY <1>1, <1>2, <1>4 DEF Refuses, NotOvercounted
  <1>5. CASE Settles
    BY <1>1, <1>2, <1>5 DEF Settles, NotOvercounted
  <1>6. CASE Loses
    BY <1>1, <1>2, <1>6 DEF Loses, NotOvercounted
  <1>7. CASE Keeps
    BY <1>1, <1>2, <1>7 DEF Keeps, NotOvercounted
  <1>8. QED
    BY <1>3, <1>4, <1>5, <1>6, <1>7, Accounts

\* The inductive invariant of the producer.
ProducerInv == Types /\ BatcherInv /\ NotOvercounted

\* Its three parts are inductive together.
LEMMA ProducerInvariant == Spec => []ProducerInv
  <1>1. Init => ProducerInv
    BY TypesInit, BatcherInit, NotOvercountedInit DEF ProducerInv
  <1>2. ProducerInv /\ [Next]_vars => ProducerInv'
    BY TypesStep, BatcherStepInv, NotOvercountedStep DEF ProducerInv
  <1>3. QED
    BY <1>1, <1>2, PTL DEF Spec

\* Types, and the bounds on a batch and on the goroutines that post, for
\* every set of settings, queue and number of calls.
THEOREM ProducerTypes == Spec => []TypeOK
  <1>1. ProducerInv => TypeOK
    <2> SUFFICES ASSUME ProducerInv PROVE TypeOK
      OBVIOUS
    <2>1. /\ Len(toSend) \in Nat /\ Len(batch) \in Nat /\ Len(queue) \in Nat
          /\ pendingHTTP = Len(toSend) + Len(batch) + Len(queue) + spawned + posting
      BY Lengths DEF ProducerInv, pendingHTTP
    <2>2. spawned \in 0 .. MaxProduced /\ posting \in 0 .. MaxProduced
      BY <2>1, BoundAssumption DEF ProducerInv, Types, NotOvercounted
    <2>3. bpc # "none" => Len(batch) < bmax /\ Len(toSend) <= bmax
      BY DEF ProducerInv, BatcherInv
    <2>4. QED
      BY <2>2, <2>3 DEF ProducerInv, Types, TypeOK
  <1>2. QED
    BY <1>1, ProducerInvariant, PTL

\* A metric vanishes from the counts only while no endpoint is set: the
\* batcher and a full queue account for every metric (producer.go, Produce).
THEOREM Accounted == Spec => LostOnlyWithoutClient
  <1> DEFINE Step == lostHTTP' # lostHTTP => client = NoUrl
  <1>1. ASSUME ProducerInv, [Next]_vars PROVE Step
    <2>1. pendingHTTP \in Nat /\ pendingHTTP' \in Nat
      BY <1>1, TypesStep, PendingIs DEF ProducerInv
    <2>2. sent \in Nat /\ failed \in Nat /\ accepted \in Nat
      BY <1>1 DEF ProducerInv, Types
    <2>3. CASE Loses
      BY <2>3 DEF Loses
    <2>4. CASE Accepts \/ Refuses \/ Keeps
      BY <2>1, <2>2, <2>4 DEF Accepts, Refuses, Keeps, lostHTTP
    <2>5. CASE Settles
      BY <2>1, <2>2, <2>5 DEF Settles, lostHTTP
    <2>6. QED
      BY <1>1, <2>3, <2>4, <2>5, Accounts DEF ProducerInv
  <1>2. ProducerInv /\ [Next]_vars => [Step]_vars
    BY <1>1
  <1>3. Spec => [][Step]_vars
    BY <1>2, ProducerInvariant, PTL DEF Spec
  <1>4. QED
    BY <1>3 DEF LostOnlyWithoutClient

\* The producer implements MetricDelivery: each step accepts, refuses,
\* settles or loses metrics, changes the endpoint, or is a stutter.
THEOREM Implementation == Spec => ImplementsDelivery
  <1>1. Init => Delivery!Init
    <2> SUFFICES ASSUME Init PROVE Delivery!Init
      OBVIOUS
    <2>1. pendingHTTP = 0
      BY TypesInit, Lengths DEF Init, pendingHTTP
    <2>2. QED
      BY <2>1 DEF Init, lostHTTP, Delivery!Init
  <1>2. ProducerInv /\ [Next]_vars => [Delivery!Next]_(Delivery!vars)
    <2> SUFFICES ASSUME ProducerInv, [Next]_vars
                 PROVE  [Delivery!Next]_(Delivery!vars)
      OBVIOUS
    <2>1. pendingHTTP \in Nat /\ pendingHTTP' \in Nat
      BY TypesStep, PendingIs DEF ProducerInv
    <2>2. /\ sent \in Nat /\ failed \in Nat /\ accepted \in Nat
      BY DEF ProducerInv, Types
    <2>3. CASE Accepts
      <3>1. lostHTTP' = lostHTTP
        BY <2>1, <2>2, <2>3 DEF Accepts, lostHTTP
      <3>2. QED
        BY <2>3, <3>1 DEF Accepts, Delivery!Next, Delivery!Accept
    <2>4. CASE Refuses
      <3>1. lostHTTP' = lostHTTP
        BY <2>1, <2>2, <2>4 DEF Refuses, lostHTTP
      <3>2. QED
        BY <2>4, <3>1 DEF Refuses, Delivery!Next, Delivery!Refuse
    <2>5. CASE Settles
      <3>1. lostHTTP' = lostHTTP
        BY <2>1, <2>2, <2>5 DEF Settles, lostHTTP
      <3>2. QED
        BY <2>5, <3>1 DEF Settles, Delivery!Next, Delivery!Settle
    <2>6. CASE Loses
      <3>1. lostHTTP' = lostHTTP + 1
        BY <2>1, <2>2, <2>6 DEF Loses, lostHTTP
      <3>2. QED
        BY <2>6, <3>1 DEF Loses, Delivery!Next, Delivery!Lose
    <2>7. CASE Keeps
      <3>1. lostHTTP' = lostHTTP
        BY <2>1, <2>2, <2>7 DEF Keeps, lostHTTP
      <3>2. QED
        BY <2>7, <3>1 DEF Keeps, Delivery!Next, Delivery!Reconfigure
    <2>8. QED
      BY <2>3, <2>4, <2>5, <2>6, <2>7, Accounts DEF ProducerInv
  <1>3. QED
    BY <1>1, <1>2, ProducerInvariant, PTL DEF Spec, ImplementsDelivery, Delivery!Spec

-----------------------------------------------------------------------------
\* Order and endpoint of the metrics a batcher holds.
AllTo(s, u)  == \A i \in DOMAIN s : s[i].url = u
UpTo(s, n)   == \A i \in DOMAIN s : s[i].id <= n
Ordered(s)   == \A i, j \in DOMAIN s : i < j => s[i].id < s[j].id
Before(s, t) == \A i \in DOMAIN s, j \in DOMAIN t : s[i].id < t[j].id

\* The queue, the batch and the post follow each other.
OrderInv ==
    /\ Ordered(toSend) /\ Ordered(batch) /\ Ordered(queue)
    /\ Before(toSend, batch) /\ Before(toSend, queue) /\ Before(batch, queue)
    /\ UpTo(toSend, produced) /\ UpTo(batch, produced) /\ UpTo(queue, produced)

\* While metrics can reach a batcher its endpoint is the configured one;
\* UpdateConfig changes the configuration first and the batcher last.
EndpointInv ==
    /\ AllTo(toSend, burl) /\ AllTo(batch, burl) /\ AllTo(queue, burl)
    /\ bpc # "none" /\ upc \in {"idle", "kafka"} => burl = conf.url
    /\ upc \in {"kafka", "kafka+http", "http", "wait"} => unew = conf

\* An empty sequence satisfies all of them.
LEMMA EmptyIs ==
    ASSUME NEW s, NEW u, NEW n
    PROVE  /\ AllTo(<<>>, u) /\ UpTo(<<>>, n) /\ Ordered(<<>>)
           /\ Before(<<>>, s) /\ Before(s, <<>>)
  BY DEF AllTo, UpTo, Ordered, Before

\* What Append (Produce, the batcher's receive) does to the predicates.
LEMMA AppendIs ==
    ASSUME NEW s \in Seq(Metrics), NEW m \in Metrics
    PROVE  LET a == Append(s, m)
           IN  /\ \A u : AllTo(s, u) /\ m.url = u => AllTo(a, u)
               /\ \A n : UpTo(s, n) /\ m.id <= n => UpTo(a, n)
               /\ Ordered(s) /\ Before(s, <<m>>) => Ordered(a)
               /\ \A t : Before(t, s) /\ Before(t, <<m>>) => Before(t, a)
               /\ \A t : Before(s, t) /\ Before(<<m>>, t) => Before(a, t)
  <1> DEFINE a == Append(s, m)
  <1>1. /\ DOMAIN s = 1 .. Len(s) /\ Len(s) \in Nat
        /\ DOMAIN a = 1 .. Len(s) + 1
        /\ \A i \in 1 .. Len(s) : a[i] = s[i]
        /\ a[Len(s) + 1] = m
    BY AppendProperties, LenProperties
  <1>2. DOMAIN <<m>> = {1} /\ <<m>>[1] = m
    OBVIOUS
  <1> HIDE DEF a
  <1>3. \A i \in DOMAIN a : \/ i \in DOMAIN s /\ a[i] = s[i]
                            \/ i = Len(s) + 1 /\ a[i] = m
    BY <1>1
  <1>4. \A u : AllTo(s, u) /\ m.url = u => AllTo(a, u)
    BY <1>3 DEF AllTo
  <1>5. \A n : UpTo(s, n) /\ m.id <= n => UpTo(a, n)
    BY <1>3 DEF UpTo
  <1>6. Ordered(s) /\ Before(s, <<m>>) => Ordered(a)
    BY <1>1, <1>2 DEF Ordered, Before
  <1>7. \A t : Before(t, s) /\ Before(t, <<m>>) => Before(t, a)
    BY <1>2, <1>3 DEF Before
  <1>8. \A t : Before(s, t) /\ Before(<<m>>, t) => Before(a, t)
    BY <1>2, <1>3 DEF Before
  <1>9. QED
    BY <1>4, <1>5, <1>6, <1>7, <1>8 DEF a

\* What taking the head (the batcher's receive) does to them.
LEMMA TailIs ==
    ASSUME NEW s \in Seq(Metrics), s # <<>>
    PROVE  /\ Head(s) \in Metrics /\ Tail(s) \in Seq(Metrics)
           /\ \A u : AllTo(s, u) => AllTo(Tail(s), u) /\ Head(s).url = u
           /\ \A n : UpTo(s, n) => UpTo(Tail(s), n) /\ Head(s).id <= n
           /\ Ordered(s) => Ordered(Tail(s)) /\ Before(<<Head(s)>>, Tail(s))
           /\ \A t : Before(t, s) => Before(t, Tail(s)) /\ Before(t, <<Head(s)>>)
  <1>1. /\ Head(s) \in Metrics /\ Tail(s) \in Seq(Metrics)
        /\ DOMAIN s = 1 .. Len(s) /\ Len(s) \in Nat /\ Len(s) > 0
        /\ DOMAIN Tail(s) = 1 .. Len(s) - 1
        /\ \A i \in 1 .. Len(s) - 1 : Tail(s)[i] = s[i + 1]
    BY HeadTailProperties, LenProperties, EmptySeq
  <1>2. Head(s) = s[1] /\ 1 \in DOMAIN s
    BY <1>1
  <1>3. \A i \in DOMAIN Tail(s) : i + 1 \in DOMAIN s /\ 1 < i + 1
                                  /\ Tail(s)[i] = s[i + 1]
    BY <1>1
  <1>4. DOMAIN <<Head(s)>> = {1} /\ <<Head(s)>>[1] = s[1]
    BY <1>2
  <1>5. \A u : AllTo(s, u) => AllTo(Tail(s), u) /\ Head(s).url = u
    BY <1>2, <1>3 DEF AllTo
  <1>6. \A n : UpTo(s, n) => UpTo(Tail(s), n) /\ Head(s).id <= n
    BY <1>2, <1>3 DEF UpTo
  <1>7. Ordered(s) => Ordered(Tail(s))
    BY <1>1 DEF Ordered
  <1>8. Ordered(s) => Before(<<Head(s)>>, Tail(s))
    BY <1>2, <1>3, <1>4 DEF Ordered, Before
  <1>9. \A t : Before(t, s) => Before(t, Tail(s)) /\ Before(t, <<Head(s)>>)
    BY <1>2, <1>3, <1>4 DEF Before
  <1>10. QED
    BY <1>1, <1>5, <1>6, <1>7, <1>8, <1>9

\* A metric numbered after all others comes after them.
LEMMA NextIs ==
    ASSUME NEW s \in Seq(Metrics), NEW n \in Nat, UpTo(s, n),
           NEW m \in Metrics, m.id = n + 1
    PROVE  UpTo(s, n + 1) /\ Before(s, <<m>>)
  <1>1. \A i \in DOMAIN s : s[i].id \in Int /\ s[i].id <= n
    <2> SUFFICES ASSUME NEW i \in DOMAIN s PROVE s[i].id \in Int /\ s[i].id <= n
      OBVIOUS
    <2>1. s[i] \in Metrics
      BY ElementOfSeq, LenProperties
    <2>2. QED
      BY <2>1 DEF Metrics, UpTo
  <1>2. DOMAIN <<m>> = {1} /\ <<m>>[1] = m
    OBVIOUS
  <1>3. QED
    BY <1>1, <1>2 DEF UpTo, Before

\* The order of what the batcher holds survives every step.
LEMMA OrderStep ==
    ProducerInv /\ OrderInv /\ [Next]_vars => OrderInv'
  <1> SUFFICES ASSUME ProducerInv, OrderInv, [Next]_vars PROVE OrderInv'
    OBVIOUS
  <1> USE DEF confVars, updateVars, countVars, batcherVars, senderVars
  <1>1. CASE Produce
    <2> DEFINE m == [id |-> produced + 1, url |-> conf.url]
    <2>1. m \in Metrics /\ m.id = produced' /\ produced \in Nat
      BY <1>1, BoundAssumption DEF Produce, Metrics, Types, Urls, ProducerInv
    <2>2. /\ produced' = produced + 1 /\ UNCHANGED <<batch, toSend>>
          /\ queue' = queue \/ queue' = Append(queue, m)
      BY <1>1 DEF Produce, RouteHTTP
    <2>3. /\ queue \in Seq(Metrics) /\ batch \in Seq(Metrics) /\ toSend \in Seq(Metrics)
      BY DEF ProducerInv, Types
    <2>4. /\ UpTo(toSend, produced') /\ UpTo(batch, produced')
          /\ UpTo(queue, produced')
          /\ Before(toSend, <<m>>) /\ Before(batch, <<m>>) /\ Before(queue, <<m>>)
      <3> HIDE DEF m
      <3>1. m.id = produced + 1
        BY <2>1, <2>2
      <3>2. QED
        BY <2>1, <2>2, <2>3, <3>1, NextIs DEF OrderInv
    <2> HIDE DEF m
    <2>5. UpTo(queue', produced') /\ Ordered(queue')
          /\ Before(toSend, queue') /\ Before(batch, queue')
      <3>1. m.id <= produced'
        BY <2>1, <2>2
      <3>2. QED
        BY <2>1, <2>2, <2>3, <2>4, <3>1, AppendIs DEF OrderInv
    <2>6. QED
      BY <2>2, <2>4, <2>5 DEF OrderInv
  <1>2. CASE BatcherReceive
    <2> DEFINE h == Head(queue)
               t == Tail(queue)
               b == Append(batch, h)
    <2>1. queue \in Seq(Metrics) /\ queue # <<>> /\ batch \in Seq(Metrics)
      BY <1>2 DEF BatcherReceive, ProducerInv, Types
    <2>2. /\ h \in Metrics /\ h.id <= produced /\ UpTo(t, produced) /\ Ordered(t)
          /\ Before(<<h>>, t) /\ Before(batch, t) /\ Before(batch, <<h>>)
      BY <2>1, TailIs DEF OrderInv
    <2> HIDE DEF h, t
    <2>3. UpTo(b, produced) /\ Ordered(b) /\ Before(b, t)
      BY <2>1, <2>2, AppendIs DEF OrderInv
    <2> HIDE DEF b
    <2>4. /\ toSend = <<>> /\ queue' = t /\ produced' = produced
          /\ \/ toSend' = b /\ batch' = <<>>
             \/ toSend' = toSend /\ batch' = b
      BY <1>2 DEF BatcherReceive, Flush, AfterFlush, ProducerInv, BatcherInv, b, h, t
    <2>5. QED
      BY <2>2, <2>3, <2>4, EmptyIs DEF OrderInv
  <1>3. CASE BatcherTick \/ BatcherDrained
    <2>1. /\ toSend = <<>> /\ UNCHANGED <<queue, produced>>
          /\ \/ toSend' = batch /\ batch' = <<>>
             \/ UNCHANGED <<toSend, batch>>
      BY <1>3 DEF BatcherTick, BatcherDrained, Flush, AfterFlush, ProducerInv, BatcherInv
    <2>2. QED
      BY <2>1, EmptyIs DEF OrderInv
  <1>4. CASE BatcherSent
    BY <1>4, EmptyIs DEF BatcherSent, OrderInv
  <1>5. CASE \/ SenderStart \/ SenderGone \/ SenderEnd \/ BatcherStop
             \/ UpdateConfig \/ UpdateKafka \/ UpdateStop \/ UpdateHTTP
             \/ Close \/ CloseEnd \/ KafkaDeliver \/ UNCHANGED vars
    BY <1>5
    DEF SenderStart, SenderGone, SenderEnd, BatcherStop, UpdateConfig,
        UpdateKafka, UpdateStop, UpdateHTTP, Close, CloseEnd, KafkaDeliver,
        vars, OrderInv
  <1>6. QED
    BY <1>1, <1>2, <1>3, <1>4, <1>5 DEF Next, BatcherStep

\* So does the agreement of the batcher's endpoint with its metrics.
LEMMA EndpointStep ==
    ProducerInv /\ EndpointInv /\ [Next]_vars => EndpointInv'
  <1> SUFFICES ASSUME ProducerInv, EndpointInv, [Next]_vars PROVE EndpointInv'
    OBVIOUS
  <1> USE DEF confVars, updateVars, countVars, batcherVars, senderVars
  <1>1. CASE Produce
    <2> DEFINE m == [id |-> produced + 1, url |-> conf.url]
    <2>1. m \in Metrics /\ m.url = conf.url /\ queue \in Seq(Metrics)
      BY <1>1, BoundAssumption DEF Produce, Metrics, Types, Urls, ProducerInv
    <2>2. /\ UNCHANGED <<conf, unew, upc, burl, bpc, batch, toSend>> /\ upc = "idle"
          /\ queue' = queue \/ (Batching /\ queue' = Append(queue, m))
      BY <1>1 DEF Produce, RouteHTTP, Locked
    <2> HIDE DEF m
    <2>3. AllTo(queue', burl)
      BY <2>1, <2>2, AppendIs DEF EndpointInv, Batching
    <2>4. QED
      BY <2>2, <2>3 DEF EndpointInv
  <1>2. CASE BatcherReceive
    <2> DEFINE h == Head(queue)
               t == Tail(queue)
               b == Append(batch, h)
    <2>1. queue \in Seq(Metrics) /\ queue # <<>> /\ batch \in Seq(Metrics)
      BY <1>2 DEF BatcherReceive, ProducerInv, Types
    <2>2. h \in Metrics /\ h.url = burl /\ AllTo(t, burl)
      BY <2>1, TailIs DEF EndpointInv
    <2> HIDE DEF h, t
    <2>3. AllTo(b, burl)
      BY <2>1, <2>2, AppendIs DEF EndpointInv
    <2> HIDE DEF b
    <2>4. /\ queue' = t /\ UNCHANGED <<conf, unew, upc, burl>> /\ bpc # "none"
          /\ \/ toSend' = b /\ batch' = <<>>
             \/ toSend' = toSend /\ batch' = b
      BY <1>2 DEF BatcherReceive, Flush, AfterFlush, b, h, t
    <2>5. QED
      BY <2>2, <2>3, <2>4, EmptyIs DEF EndpointInv
  <1>3. CASE BatcherTick \/ BatcherDrained \/ BatcherStop \/ BatcherSent
    <2>1. /\ UNCHANGED <<queue, conf, unew, upc, burl>> /\ bpc # "none"
          /\ \/ toSend' = batch /\ batch' = <<>>
             \/ UNCHANGED <<toSend, batch>>
             \/ toSend' = <<>> /\ UNCHANGED batch
      BY <1>3 DEF BatcherTick, BatcherDrained, BatcherStop, BatcherSent, Flush, AfterFlush
    <2>2. QED
      BY <2>1, EmptyIs DEF EndpointInv
  <1>4. CASE UpdateConfig
    <2>1. PICK c \in Confs :
            /\ unew' = c /\ conf' = c
            /\ upc' \in {"idle", "kafka", "kafka+http", "http"}
            /\ upc' \in {"idle", "kafka"} => c.url = conf.url
      BY <1>4 DEF UpdateConfig, HttpChanged
    <2>2. upc = "idle" /\ UNCHANGED <<queue, batcherVars>>
      BY <1>4 DEF UpdateConfig
    <2>3. QED
      BY <2>1, <2>2 DEF EndpointInv
  <1>5. CASE UpdateHTTP
    <2>1. /\ conf' = conf /\ unew' = unew /\ unew = conf /\ burl' = unew.url
          /\ upc' = "idle"
      BY <1>5 DEF UpdateHTTP, EndpointInv
    <2>2. /\ queue' = <<>> /\ batch' = <<>> /\ toSend' = <<>>
      BY <1>5 DEF UpdateHTTP, ProducerInv, BatcherInv
    <2>3. QED
      BY <2>1, <2>2, EmptyIs DEF EndpointInv
  <1>6. CASE UpdateKafka
    BY <1>6 DEF UpdateKafka, EndpointInv
  <1>7. CASE UpdateStop \/ Close \/ CloseEnd
    BY <1>7 DEF UpdateStop, Close, CloseEnd, EndpointInv
  <1>8. CASE SenderStart \/ SenderGone \/ SenderEnd \/ KafkaDeliver \/ UNCHANGED vars
    BY <1>8
    DEF SenderStart, SenderGone, SenderEnd, KafkaDeliver, vars, EndpointInv
  <1>9. QED
    BY <1>1, <1>2, <1>3, <1>4, <1>5, <1>6, <1>7, <1>8 DEF Next, BatcherStep

\* The i-th metric of the batcher is one of the post, the batch or the queue.
LEMMA InBatcherIs ==
    ASSUME Types
    PROVE  /\ DOMAIN InBatcher = 1 .. Len(toSend) + Len(batch) + Len(queue)
           /\ \A i \in DOMAIN InBatcher :
                LET j == i - Len(toSend)
                    k == i - Len(toSend) - Len(batch)
                IN  \/ i \in DOMAIN toSend /\ InBatcher[i] = toSend[i]
                    \/ i > Len(toSend) /\ j \in DOMAIN batch
                       /\ InBatcher[i] = batch[j]
                    \/ i > Len(toSend) + Len(batch) /\ k \in DOMAIN queue
                       /\ InBatcher[i] = queue[k]
  <1> DEFINE front == toSend \o batch
  <1>1. /\ DOMAIN toSend = 1 .. Len(toSend) /\ Len(toSend) \in Nat
        /\ DOMAIN batch = 1 .. Len(batch) /\ Len(batch) \in Nat
        /\ DOMAIN queue = 1 .. Len(queue) /\ Len(queue) \in Nat
    BY LenProperties DEF Types
  <1>2. /\ front \in Seq(Metrics) /\ Len(front) = Len(toSend) + Len(batch)
        /\ \A i \in 1 .. Len(front) :
              front[i] = IF i <= Len(toSend) THEN toSend[i]
                                             ELSE batch[i - Len(toSend)]
    BY ConcatProperties DEF Types
  <1> HIDE DEF front
  <1>3. /\ front \o queue \in Seq(Metrics)
        /\ Len(front \o queue) = Len(front) + Len(queue)
        /\ \A i \in 1 .. Len(front) + Len(queue) :
              (front \o queue)[i] = IF i <= Len(front) THEN front[i]
                                                       ELSE queue[i - Len(front)]
    BY <1>2, ConcatProperties DEF Types
  <1>4. InBatcher = front \o queue
    BY DEF InBatcher, front
  <1>5. DOMAIN InBatcher = 1 .. Len(toSend) + Len(batch) + Len(queue)
    BY <1>2, <1>3, <1>4, LenProperties
  <1>6. ASSUME NEW i \in DOMAIN InBatcher
        PROVE  LET j == i - Len(toSend)
                   k == i - Len(toSend) - Len(batch)
               IN  \/ i \in DOMAIN toSend /\ InBatcher[i] = toSend[i]
                   \/ i > Len(toSend) /\ j \in DOMAIN batch
                      /\ InBatcher[i] = batch[j]
                   \/ i > Len(toSend) + Len(batch) /\ k \in DOMAIN queue
                      /\ InBatcher[i] = queue[k]
    <2>1. i \in Int /\ 1 <= i /\ i <= Len(toSend) + Len(batch) + Len(queue)
      BY <1>1, <1>5
    <2>2. CASE i <= Len(toSend)
      BY <2>1, <2>2, <1>1, <1>2, <1>3, <1>4
    <2>3. CASE i > Len(toSend) /\ i <= Len(front)
      BY <2>1, <2>3, <1>1, <1>2, <1>3, <1>4
    <2>4. CASE i > Len(front)
      <3>1. InBatcher[i] = queue[i - Len(front)] /\ i - Len(front) \in DOMAIN queue
        BY <2>1, <2>4, <1>1, <1>2, <1>3, <1>4
      <3>2. i - Len(front) = i - Len(toSend) - Len(batch)
        BY <2>1, <1>1, <1>2
      <3>3. QED
        BY <2>1, <2>4, <3>1, <3>2, <1>1, <1>2
    <2>5. QED
      BY <2>1, <2>2, <2>3, <2>4, <1>1, <1>2
  <1>7. QED
    BY <1>5, <1>6

\* Metrics leave in the order of their Produce calls across every flush,
\* drain and restart of the batcher (producer.go, startHTTPBatcher).
THEOREM OrderKept == Spec => []BatchInOrder
  <1>1. Init => OrderInv
    BY EmptyIs DEF Init, OrderInv
  <1>2. ProducerInv /\ OrderInv => BatchInOrder
    <2> SUFFICES ASSUME Types, OrderInv,
                        NEW i \in DOMAIN InBatcher, NEW j \in DOMAIN InBatcher,
                        i < j
                 PROVE  InBatcher[i].id < InBatcher[j].id
      BY DEF ProducerInv, BatchInOrder
    <2>1. /\ DOMAIN toSend = 1 .. Len(toSend) /\ Len(toSend) \in Nat
          /\ DOMAIN batch = 1 .. Len(batch) /\ Len(batch) \in Nat
          /\ i \in Int /\ j \in Int
      BY InBatcherIs, LenProperties DEF Types
    <2>2. CASE i \in DOMAIN toSend /\ InBatcher[i] = toSend[i]
      BY <2>1, <2>2, InBatcherIs DEF OrderInv, Ordered, Before
    <2>3. CASE /\ i > Len(toSend) /\ i - Len(toSend) \in DOMAIN batch
               /\ InBatcher[i] = batch[i - Len(toSend)]
      BY <2>1, <2>3, InBatcherIs DEF OrderInv, Ordered, Before
    <2>4. CASE /\ i > Len(toSend) + Len(batch)
               /\ i - Len(toSend) - Len(batch) \in DOMAIN queue
               /\ InBatcher[i] = queue[i - Len(toSend) - Len(batch)]
      BY <2>1, <2>4, InBatcherIs DEF OrderInv, Ordered
    <2>5. QED
      BY <2>2, <2>3, <2>4, InBatcherIs
  <1>3. QED
    BY <1>1, <1>2, OrderStep, ProducerInvariant, PTL DEF Spec

\* A batch is posted to the endpoint configured when its metrics were
\* produced, although the configuration changes while they wait
\* (producer.go, UpdateConfig and sendHTTPBatch).
THEOREM EndpointKept == Spec => []BatchGoesWhereProduced
  <1>1. Init => EndpointInv
    BY EmptyIs DEF Init, EndpointInv
  <1>2. ProducerInv /\ EndpointInv => BatchGoesWhereProduced
    BY InBatcherIs DEF ProducerInv, EndpointInv, AllTo, BatchGoesWhereProduced
  <1>3. QED
    BY <1>1, <1>2, EndpointStep, ProducerInvariant, PTL DEF Spec

-----------------------------------------------------------------------------
(* What UpdateConfig and Close wait for with mu.                           *)

\* The batcher they wait for was told to stop, and has an endpoint to post to.
StoppedInv ==
    /\ upc \in {"wait", "closewait"} => bpc = "none" \/ bstop
    /\ bpc # "none" => burl # NoUrl

\* The loops the batcher has before it, after what it posts now.
Place(pc) == IF pc = "collect" THEN 2 ELSE IF pc = "drain" THEN 1 ELSE 0
BatcherLeft == IF bpc = "send" THEN 1 + Place(bresume) ELSE Place(bpc)

\* The sections the holder of mu has before it.
Stage(step) ==
    CASE step = "kafka+http" -> 4
      [] step = "kafka" -> 3
      [] step \in {"http", "close"} -> 2
      [] step \in {"wait", "closewait"} -> 1
      [] OTHER -> 0

\* What can happen before mu is free: every metric is received and flushed,
\* every message and every single post ends.
BatcherWork == 3 * Len(queue) + 2 * Len(batch) + BatcherLeft
HoldLeft == BatcherWork + kq + posting + Stage(upc)

\* Nothing is told to stop at first.
LEMMA StoppedInit == Init => StoppedInv
  BY DEF Init, StoppedInv, Batches

\* No step forgets the stop or leaves a batcher without an endpoint.
LEMMA StoppedStep == Types /\ StoppedInv /\ [Next]_vars => StoppedInv'
  <1> SUFFICES ASSUME Types, StoppedInv, [Next]_vars PROVE StoppedInv'
    OBVIOUS
  <1> USE DEF confVars, updateVars, countVars, batcherVars, senderVars
  <1>1. CASE Produce \/ SenderStart \/ SenderGone \/ SenderEnd \/ KafkaDeliver
    BY <1>1 DEF Produce, SenderStart, SenderGone, SenderEnd, KafkaDeliver, StoppedInv
  <1>2. CASE BatcherStep
    <2>1. bpc # "none" /\ UNCHANGED <<upc, bstop, burl>>
      BY <1>2
      DEF BatcherStep, BatcherReceive, BatcherTick, BatcherStop, BatcherDrained, BatcherSent
    <2>2. QED
      BY <2>1 DEF StoppedInv
  <1>3. CASE UpdateConfig \/ UpdateKafka \/ Close
    <2>1. upc' \notin {"wait", "closewait"} /\ UNCHANGED <<bpc, burl>>
      BY <1>3 DEF UpdateConfig, UpdateKafka, Close
    <2>2. QED
      BY <2>1 DEF StoppedInv
  <1>4. CASE UpdateStop
    BY <1>4 DEF UpdateStop, StoppedInv
  <1>5. CASE UpdateHTTP
    BY <1>5 DEF UpdateHTTP, Batches, StoppedInv
  <1>6. CASE CloseEnd
    BY <1>6 DEF CloseEnd, StoppedInv
  <1>7. CASE UNCHANGED vars
    BY <1>7 DEF vars, StoppedInv
  <1>8. QED
    BY <1>1, <1>2, <1>3, <1>4, <1>5, <1>6, <1>7 DEF Next

\* The parts of the sum are natural numbers.
LEMMA HoldParts ==
    ASSUME Types
    PROVE  /\ Len(queue) \in Nat /\ Len(batch) \in Nat
           /\ BatcherLeft \in 0 .. 3 /\ Stage(upc) \in 0 .. 4
           /\ kq \in Nat /\ posting \in Nat
  <1>1. Len(queue) \in Nat /\ Len(batch) \in Nat
    BY Lengths
  <1>2. BatcherLeft \in 0 .. 3 /\ Stage(upc) \in 0 .. 4
    BY DEF BatcherLeft, Place, Stage
  <1>3. QED
    BY <1>1, <1>2 DEF Types

\* So is the batcher's share.
LEMMA WorkIs == Types => BatcherWork \in Nat
  BY HoldParts DEF BatcherWork

\* Every step of the batcher leaves less to do.
LEMMA BatcherShrinks ==
    ASSUME Types, BatcherInv, BatcherStep
    PROVE  BatcherWork' < BatcherWork
  <1>1. Len(<<>>) = 0 /\ (batch # <<>> => Len(batch) > 0)
    BY QueueSteps DEF Types
  <1>2. CASE BatcherReceive
    <2> DEFINE b == Append(batch, Head(queue))
    <2>1. Len(b) = Len(batch) + 1 /\ Len(queue') = Len(queue) - 1
      BY <1>2, QueueSteps DEF BatcherReceive, Types
    <2> HIDE DEF b
    <2>2. bpc \in {"collect", "drain"}
      BY <1>2 DEF BatcherReceive
    <2>3. CASE Full(b)
      <3>1. batch' = <<>> /\ bpc' = "send" /\ bresume' = bpc
        BY <1>2, <2>3 DEF BatcherReceive, Flush, AfterFlush, b
      <3>2. BatcherLeft' = BatcherLeft + 1
        BY <2>2, <3>1 DEF BatcherLeft, Place
      <3>3. Len(batch') = 0
        BY <1>1, <3>1
      <3>4. QED
        BY <2>1, <3>2, <3>3, HoldParts DEF BatcherWork
    <2>4. CASE ~Full(b)
      <3>1. batch' = b /\ UNCHANGED <<bpc, bresume>>
        BY <1>2, <2>4 DEF BatcherReceive, b
      <3>2. BatcherLeft' = BatcherLeft
        BY <3>1 DEF BatcherLeft, Place
      <3>3. Len(batch') = Len(batch) + 1
        BY <2>1, <3>1
      <3>4. QED
        BY <2>1, <3>2, <3>3, HoldParts DEF BatcherWork
    <2>5. QED
      BY <2>3, <2>4
  <1>3. CASE BatcherTick
    <2>1. batch' = <<>> /\ bpc = "collect" /\ bpc' = "send" /\ bresume' = "collect"
          /\ Len(batch) > 0 /\ queue' = queue
      BY <1>1, <1>3 DEF BatcherTick, Flush, AfterFlush
    <2>2. BatcherLeft' = BatcherLeft + 1 /\ Len(batch') = 0
      BY <1>1, <2>1 DEF BatcherLeft, Place
    <2>3. QED
      BY <2>1, <2>2, HoldParts DEF BatcherWork
  <1>4. CASE BatcherStop
    <2>1. bpc = "collect" /\ bpc' = "drain" /\ UNCHANGED <<queue, batch>>
      BY <1>4 DEF BatcherStop
    <2>2. BatcherLeft' = BatcherLeft - 1
      BY <2>1 DEF BatcherLeft, Place
    <2>3. QED
      BY <2>1, <2>2, HoldParts DEF BatcherWork
  <1>5. CASE BatcherDrained
    <2>1. CASE batch = <<>>
      <3>1. bpc = "drain" /\ bpc' = "none" /\ UNCHANGED <<queue, batch>>
        BY <1>5, <2>1 DEF BatcherDrained
      <3>2. BatcherLeft' = BatcherLeft - 1
        BY <3>1 DEF BatcherLeft, Place
      <3>3. QED
        BY <3>1, <3>2, HoldParts DEF BatcherWork
    <2>2. CASE batch # <<>>
      <3>1. batch' = <<>> /\ bpc = "drain" /\ bpc' = "send" /\ bresume' = "none"
            /\ Len(batch) > 0 /\ queue' = queue
        BY <1>1, <1>5, <2>2 DEF BatcherDrained, Flush, AfterFlush
      <3>2. BatcherLeft' = BatcherLeft /\ Len(batch') = 0
        BY <1>1, <3>1 DEF BatcherLeft, Place
      <3>3. QED
        BY <3>1, <3>2, HoldParts DEF BatcherWork
    <2>3. QED
      BY <2>1, <2>2
  <1>6. CASE BatcherSent
    <2>1. bpc = "send" /\ bpc' = bresume /\ UNCHANGED <<queue, batch>>
          /\ bresume \in {"none", "collect", "drain"}
      BY <1>6 DEF BatcherSent, Types
    <2>2. BatcherLeft' = BatcherLeft - 1
      BY <2>1 DEF BatcherLeft, Place
    <2>3. QED
      BY <2>1, <2>2, HoldParts DEF BatcherWork
  <1>7. QED
    BY <1>2, <1>3, <1>4, <1>5, <1>6 DEF BatcherStep

\* A step taken while mu is held frees it or leaves less to do.
LEMMA HoldShrinks ==
    ASSUME Types, BatcherInv, Next, Locked
    PROVE  ~Locked' \/ HoldLeft' < HoldLeft
  <1> USE DEF confVars, updateVars, countVars, senderVars
  <1>1. ~(Produce \/ SenderStart \/ SenderGone \/ UpdateConfig \/ Close)
    BY DEF Locked, Produce, SenderStart, SenderGone, UpdateConfig, Close
  <1>2. CASE BatcherStep
    <2>1. UNCHANGED <<upc, kq, posting>>
      BY <1>2 DEF BatcherStep, BatcherReceive, BatcherTick, BatcherStop, BatcherDrained, BatcherSent
    <2>2. BatcherWork' < BatcherWork /\ BatcherWork \in Nat
      BY <1>2, BatcherShrinks, WorkIs
    <2>3. Types'
      BY TypesStep
    <2>4. (Types => BatcherWork \in Nat)'
      BY WorkIs, PTL
    <2>5. QED
      BY <2>1, <2>2, <2>3, <2>4, HoldParts DEF HoldLeft
  <1>3. CASE SenderEnd \/ KafkaDeliver
    <2>1. /\ UNCHANGED <<queue, batch, bpc, bresume, upc>>
          /\ \/ kq' = kq - 1 /\ posting' = posting
             \/ kq' = kq /\ posting' = posting - 1
      BY <1>3 DEF SenderEnd, KafkaDeliver, batcherVars
    <2>2. BatcherWork' = BatcherWork /\ BatcherWork \in Nat
      BY <2>1, WorkIs DEF BatcherWork, BatcherLeft
    <2>3. QED
      BY <2>1, <2>2, HoldParts DEF HoldLeft
  <1>4. CASE UpdateKafka \/ UpdateStop
    <2>1. UNCHANGED <<queue, batch, bpc, bresume, kq, posting>>
      BY <1>4 DEF UpdateKafka, UpdateStop, batcherVars
    <2>2. upc' = "idle" \/ Stage(upc') < Stage(upc)
      BY <1>4 DEF UpdateKafka, UpdateStop, Stage
    <2>3. BatcherWork' = BatcherWork /\ BatcherWork \in Nat
      BY <2>1, WorkIs DEF BatcherWork, BatcherLeft
    <2>4. Stage(upc') \in Nat
      BY DEF Stage
    <2>5. QED
      BY <2>1, <2>2, <2>3, <2>4, HoldParts DEF HoldLeft, Locked
  <1>5. CASE UpdateHTTP \/ CloseEnd
    BY <1>5 DEF UpdateHTTP, CloseEnd, Locked
  <1>6. QED
    BY <1>1, <1>2, <1>3, <1>4, <1>5 DEF Next

\* UpdateConfig and Close do not hold mu for good: nobody adds to what they
\* wait for while they do, every step uses some of it up, and the batcher
\* they wait for has been told to stop and can post its batch.
THEOREM UpdateAdvances ==
    Spec => /\ [](HoldLeft \in Nat)
            /\ [](upc \in {"wait", "closewait"} /\ bpc # "none" =>
                    bstop /\ (bpc = "send" => Postable))
            /\ [][Locked => ~Locked' \/ HoldLeft' < HoldLeft]_vars
  <1> DEFINE I == Types /\ BatcherInv /\ StoppedInv
  <1>1. Init => I
    BY TypesInit, BatcherInit, StoppedInit
  <1>2. I /\ [Next]_vars => I'
    BY TypesStep, BatcherStepInv, StoppedStep
  <1>3. I => HoldLeft \in Nat
    BY HoldParts, WorkIs DEF HoldLeft
  <1>4. I => (upc \in {"wait", "closewait"} /\ bpc # "none" =>
                bstop /\ (bpc = "send" => Postable))
    BY DEF BatcherInv, StoppedInv, Postable
  <1>5. I /\ [Next]_vars => [Locked => ~Locked' \/ HoldLeft' < HoldLeft]_vars
    BY HoldShrinks
  <1>6. QED
    BY <1>1, <1>2, <1>3, <1>4, <1>5, PTL DEF Spec
=============================================================================
