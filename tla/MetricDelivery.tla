--------------------------- MODULE MetricDelivery ---------------------------
(* What MetricProducer promises of the metrics it routes to HTTP: each one *)
(* is settled once, as sent or as failed, in groups that were accepted     *)
(* together or one by one; only a withdrawn endpoint loses a metric.       *)
EXTENDS Naturals

VARIABLES
    pending,    \* accepted, not settled
    sent,       \* what /status reports as sent over HTTP
    failed,     \* what /status reports as failed over HTTP
    lost,       \* neither sent nor failed, and not pending any more
    endpoint    \* TRUE iff an HTTP endpoint is configured

vars == <<pending, sent, failed, lost, endpoint>>

Init == pending = 0 /\ sent = 0 /\ failed = 0 /\ lost = 0 /\ endpoint \in BOOLEAN

Accept ==
    /\ endpoint
    /\ pending' = pending + 1
    /\ UNCHANGED <<sent, failed, lost, endpoint>>

\* The metric is refused at once (the batch queue is full).
Refuse ==
    /\ endpoint
    /\ failed' = failed + 1
    /\ UNCHANGED <<pending, sent, lost, endpoint>>

Settle ==
    \E n \in 1 .. pending :
        /\ pending' = pending - n
        /\ \/ sent' = sent + n /\ UNCHANGED failed
           \/ failed' = failed + n /\ UNCHANGED sent
        /\ UNCHANGED <<lost, endpoint>>

Lose ==
    /\ ~endpoint /\ pending > 0
    /\ pending' = pending - 1 /\ lost' = lost + 1
    /\ UNCHANGED <<sent, failed, endpoint>>

Reconfigure ==
    /\ endpoint' \in BOOLEAN
    /\ UNCHANGED <<pending, sent, failed, lost>>

Next == Accept \/ Refuse \/ Settle \/ Lose \/ Reconfigure

Spec == Init /\ [][Next]_vars
=============================================================================
