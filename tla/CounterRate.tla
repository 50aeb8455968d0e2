---------------------------- MODULE CounterRate ----------------------------
(***************************************************************************)
(* internal/monitor/rate.go: the snmp_rate plugin of one monitor.  A cycle *)
(* of the sensor asks the agent for the counter (Reply), takes the time    *)
(* the answer is back (Stamp), swaps it with the reading kept in the       *)
(* SafeSensor and publishes the rate between the two (Publish).  The agent *)
(* is external: its counter wraps, is reset by a reboot, is withdrawn or   *)
(* does not answer, and a reload can point the sensor at another device,   *)
(* which keeps the reading (main.go).                                      *)
(***************************************************************************)
EXTENDS Integers

CONSTANTS
    Wrap32, Wrap64,     \* 2^32 and 2^64
    Multiplier,         \* the multiplier parameter
    MaxRate,            \* the max_rate parameter, 0: no limit
    MaxTotal,           \* bound: increments counted by an agent
    MaxTime,            \* bound: the clock
    MaxEpochs           \* bound: reboots and retargets

ASSUME WrapAssumption ==
    /\ Wrap32 \in Nat \ {0} /\ Wrap64 \in Nat \ {0} /\ Wrap32 < Wrap64
ASSUME ParamAssumption == Multiplier \in Nat \ {0} /\ MaxRate \in Nat
ASSUME BoundAssumption ==
    MaxTotal \in Nat /\ MaxTime \in Nat /\ MaxEpochs \in Nat

Modulus(bits) == IF bits = 32 THEN Wrap32 ELSE Wrap64

\* A reading: what counterSample holds, and (for the properties only) which
\* life of which agent it is from and what that agent had really counted.
NoSample == [value |-> 0, bits |-> 32, at |-> 0, total |-> 0, epoch |-> 0]

VARIABLES
    now,                        \* the monotonic clock
    total, bits, epoch,         \* the agent: its count, width and life, of
                                \* which another device begins a new one
    pc,                         \* the cycle: "idle", "replied", "stamped"
    cur,                        \* the reading in hand
    kept, prev,                 \* ss.counters[key]: is there one, and which
    counted, last,              \* (properties only) the last reading taken
    outcome,                    \* the last cycle: what the plugin returned
    from, delta, seconds        \* the rate published: between from and prev

agent == <<total, bits, epoch>>
result == <<outcome, from, delta, seconds>>
taken == <<counted, last>>
vars == <<now, agent, pc, cur, kept, prev, taken, result>>

Init ==
    /\ now = 0
    /\ total \in 0 .. MaxTotal /\ bits \in {32, 64} /\ epoch = 0
    /\ pc = "idle" /\ cur = NoSample
    /\ kept = FALSE /\ prev = NoSample
    /\ counted = FALSE /\ last = NoSample
    /\ outcome = "none" /\ from = NoSample /\ delta = 0 /\ seconds = 0

-----------------------------------------------------------------------------
(* The agent and the clock (external).                                     *)

Tick ==
    /\ now < MaxTime
    /\ now' = now + 1
    /\ total' \in total .. MaxTotal
    /\ UNCHANGED <<bits, epoch, pc, cur, kept, prev, taken, result>>

\* The counter starts again, possibly at another width.
Reboot ==
    /\ epoch < MaxEpochs
    /\ epoch' = epoch + 1
    /\ total' = 0
    /\ bits' \in {32, 64}
    /\ UNCHANGED <<now, pc, cur, kept, prev, taken, result>>

\* reloadConfig gives the SafeSensor a definition with another sensor_ip,
\* between two cycles, and leaves ss.counters as they are.
Retarget ==
    /\ pc = "idle" /\ epoch < MaxEpochs
    /\ epoch' = epoch + 1
    /\ total' \in 0 .. MaxTotal /\ bits' \in {32, 64}
    /\ UNCHANGED <<now, pc, cur, kept, prev, taken, result>>

-----------------------------------------------------------------------------
(* SNMPRatePlugin.                                                         *)

NothingPublished == from' = NoSample /\ delta' = 0 /\ seconds' = 0

\* SolveSNMPCounter: the agent's counter at this moment, at its width.
Reply ==
    /\ pc = "idle"
    /\ cur' = [value |-> total % Modulus(bits), bits |-> bits, at |-> 0,
               total |-> total, epoch |-> epoch]
    /\ pc' = "replied"
    /\ outcome' = "none" /\ NothingPublished
    /\ UNCHANGED <<now, agent, kept, prev, taken>>

\* "A failed query doesn't touch the previous reading."
AfterError == kept' = kept

\* No answer, or one that decodeSNMPCounter does not take for a counter.
Fail ==
    /\ pc = "idle"
    /\ AfterError
    /\ outcome' = "error"
    /\ NothingPublished
    /\ UNCHANGED <<now, agent, pc, cur, prev, taken>>

\* cur.at = time.Now()
Stamp ==
    /\ pc = "replied"
    /\ cur' = [cur EXCEPT !.at = now]
    /\ pc' = "stamped"
    /\ UNCHANGED <<now, agent, kept, prev, taken, result>>

\* counterRate's cases: the counter went forward, or wrapped once.
Comparable(a, b) ==
    b.bits = a.bits /\ (b.value >= a.value \/ b.bits = 32)

\* (mutant) a wrap is one short, as if 2^32 - 1 were added
ShortWrap(a, b) ==
    IF b.value >= a.value THEN b.value - a.value
                          ELSE Wrap32 - 1 - a.value + b.value

Delta(a, b) ==
    IF b.value >= a.value THEN b.value - a.value
                          ELSE Wrap32 - a.value + b.value

Forward(a, b) == b.at > a.at

\* (mutant) max_rate is compared before the multiplier is applied
RawTooFast(d, s) == MaxRate > 0 /\ d > MaxRate * s

TooFast(d, s) == MaxRate > 0 /\ d * Multiplier > MaxRate * s

\* (mutant) a reading that gives no rate is not kept
KeepOnReset == IF outcome' = "published" \/ ~kept THEN cur ELSE prev

\* swapCounterSample stores the reading whatever comes of it.
Stored == cur

\* swapCounterSample, counterRate, the multiplier and max_rate.
Publish ==
    /\ pc = "stamped"
    /\ pc' = "idle"
    /\ kept' = TRUE
    /\ \/ /\ kept /\ Forward(prev, cur) /\ Comparable(prev, cur)
          /\ ~TooFast(Delta(prev, cur), cur.at - prev.at)
          /\ outcome' = "published"
          /\ from' = prev
          /\ delta' = Delta(prev, cur)
          /\ seconds' = cur.at - prev.at
       \/ /\ \/ ~kept
             \/ ~Forward(prev, cur) \/ ~Comparable(prev, cur)
             \/ TooFast(Delta(prev, cur), cur.at - prev.at)
          /\ outcome' = "no sample"
          /\ NothingPublished
    /\ prev' = Stored
    /\ counted' = TRUE /\ last' = cur
    /\ UNCHANGED <<now, agent, cur>>

Next == Tick \/ Reboot \/ Retarget \/ Reply \/ Fail \/ Stamp \/ Publish

Spec == Init /\ [][Next]_vars

-----------------------------------------------------------------------------
(* Properties.                                                             *)

Published == outcome = "published"

\* What the agent counted between the two readings of the published rate.
Increase == prev.total - from.total

\* Between two readings of one life of the agent that lie less than a wrap
\* apart, the published rate is what the agent counted: across a Counter32
\* wrap, failed cycles, and reboots before and after.  No rate is negative or
\* divided by no time at all.
RateIsIncrease ==
    Published =>
        /\ delta \in Nat /\ seconds > 0
        /\ from.epoch = prev.epoch /\ Increase < Modulus(prev.bits) => delta = Increase

\* What a reset, or a reload that moves the sensor to another device, can be
\* mistaken for is bounded: a Counter64 by what it has counted since, a
\* Counter32, whose reset looks like a wrap, by max_rate.
ResetBounded ==
    Published /\ from.epoch # prev.epoch =>
        /\ prev.bits = 64 => delta <= prev.total
        /\ MaxRate > 0 => delta * Multiplier <= MaxRate * seconds

\* A reset, a rate too high or a failure costs one cycle: a reading that
\* follows one of the same life, later and within max_rate, is published.
CountsAgain ==
    [][/\ pc = "stamped" /\ pc' = "idle"
       /\ last.epoch = cur.epoch /\ last.bits = cur.bits /\ cur.at > last.at
       /\ cur.value >= last.value
       /\ ~TooFast(cur.value - last.value, cur.at - last.at)
       /\ counted
       => Published']_vars
=============================================================================
