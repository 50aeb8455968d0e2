-------------------------- MODULE MCMetricProducer --------------------------
(* Small instances of MetricProducer for TLC. *)
EXTENDS MetricProducer

CONSTANTS u1, u2, k1

\* Batches of two, with Kafka and at another endpoint; no batches; no HTTP.
MCConfs == {[url |-> u1, batch |-> 2, broker |-> k1],
            [url |-> u2, batch |-> 2, broker |-> NoBroker],
            [url |-> u1, batch |-> 1, broker |-> NoBroker],
            [url |-> NoUrl, batch |-> 2, broker |-> NoBroker]}
=============================================================================
