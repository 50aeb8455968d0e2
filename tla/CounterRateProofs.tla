-------------------------- MODULE CounterRateProofs --------------------------
(* Proofs about CounterRate: what is published is what the agent counted,  *)
(* for counters of any width, any parameters and any interleaving with an  *)
(* agent that counts, restarts or is replaced.                             *)
EXTENDS CounterRate, TLAPS

\* A reading shows the agent's count at the width of the counter.
Readings == [value : Nat, bits : {32, 64}, at : Nat, total : Nat, epoch : Nat]
Shown(r) == r.value = r.total % Modulus(r.bits)

\* Reading a is not after one with count t, width b, in life e.
NotAfter(a, t, b, e) ==
    a.epoch <= e /\ (a.epoch = e => a.total <= t /\ a.bits = b)

Types ==
    /\ now \in Nat /\ total \in Nat /\ bits \in {32, 64} /\ epoch \in Nat
    /\ pc \in {"idle", "replied", "stamped"}
    /\ kept \in BOOLEAN /\ counted \in BOOLEAN
    /\ cur \in Readings /\ prev \in Readings /\ from \in Readings
    /\ Shown(cur) /\ Shown(prev) /\ Shown(from)

\* The reading kept, the one in hand and the agent come one after the other.
Ordered ==
    /\ kept => NotAfter(prev, total, bits, epoch)
    /\ pc # "idle" => NotAfter(cur, total, bits, epoch)
    /\ kept /\ pc # "idle" => NotAfter(prev, cur.total, cur.bits, cur.epoch)

\* The rate published is the one counterRate computes from the readings.
RateInv ==
    outcome = "published" =>
        /\ NotAfter(from, prev.total, prev.bits, prev.epoch)
        /\ Forward(from, prev) /\ Comparable(from, prev)
        /\ delta = Delta(from, prev) /\ seconds = prev.at - from.at
        /\ ~TooFast(delta, seconds)

\* Every reading taken is the one kept.
TakenInv == last = prev /\ counted = kept

CounterInv == Types /\ Ordered /\ RateInv /\ TakenInv

-----------------------------------------------------------------------------
(* Counting modulo the width.                                              *)

\* The moduli are positive.
LEMMA ModulusType == \A b : Modulus(b) \in Nat \ {0}
  BY WrapAssumption DEF Modulus

\* A count shown at a width is smaller than it and no more than the count.
LEMMA RemainderBounds ==
    ASSUME NEW m \in Nat \ {0}, NEW x \in Nat
    PROVE  x % m \in Nat /\ x % m < m /\ x % m <= x
  OBVIOUS

\* Less than one wrap apart, two counts differ by what their remainders do,
\* or by that and one wrap.
LEMMA RemainderDifference ==
    ASSUME NEW m \in Nat \ {0}, NEW x \in Nat, NEW y \in Nat,
           x <= y, y - x < m
    PROVE  /\ y % m >= x % m => (y % m) - (x % m) = y - x
           /\ y % m < x % m => (m - (x % m)) + (y % m) = y - x
  <1> DEFINE a == x % m
             b == y % m
             p == x \div m
             q == y \div m
  <1>1. /\ a \in Nat /\ b \in Nat /\ a < m /\ b < m
        /\ p \in Int /\ q \in Int /\ x = m * p + a /\ y = m * q + b
    OBVIOUS
  <1> HIDE DEF a, b, p, q
  <1>2. y - x = m * (q - p) + b - a
    BY <1>1
  <1>3. q - p \in {0, 1}
    <2>1. CASE q - p >= 2
      <3>1. m * (q - p) >= m * 2
        BY <1>1, <2>1
      <3>2. QED
        BY <1>1, <1>2, <3>1
    <2>2. CASE q - p <= -1
      <3>1. m * (q - p) <= m * (-1)
        BY <1>1, <2>2
      <3>2. QED
        BY <1>1, <1>2, <3>1
    <2>3. QED
      BY <1>1, <2>1, <2>2
  <1>4. y - x = b - a \/ y - x = m + b - a
    BY <1>1, <1>2, <1>3
  <1>5. QED
    BY <1>1, <1>4 DEF a, b

-----------------------------------------------------------------------------
(* The invariant.                                                          *)

\* The reading that stands for none is one of count 0.
LEMMA NoSampleType == NoSample \in Readings /\ Shown(NoSample)
  BY ModulusType DEF NoSample, Readings, Shown

\* Nothing has been read yet.
LEMMA CounterInit == Init => CounterInv
  <1> SUFFICES ASSUME Init PROVE CounterInv
    OBVIOUS
  <1>1. Types
    <2>1. now \in Nat /\ total \in Nat /\ bits \in {32, 64} /\ epoch \in Nat
      BY BoundAssumption DEF Init
    <2>2. /\ pc \in {"idle", "replied", "stamped"}
          /\ kept \in BOOLEAN /\ counted \in BOOLEAN
      BY DEF Init
    <2>3. cur = NoSample /\ prev = NoSample /\ from = NoSample
      BY DEF Init
    <2>4. QED
      BY <2>1, <2>2, <2>3, NoSampleType DEF Types
  <1>2. Ordered /\ RateInv /\ TakenInv
    BY DEF Init, Ordered, RateInv, TakenInv
  <1>3. QED
    BY <1>1, <1>2 DEF CounterInv

\* Every step of the agent, the clock and the plugin keeps the invariant.
LEMMA CounterStep == CounterInv /\ [Next]_vars => CounterInv'
  <1> SUFFICES ASSUME CounterInv, [Next]_vars
               PROVE  CounterInv'
    OBVIOUS
  <1> USE DEF CounterInv, agent, result, taken
  <1>1. CASE Tick
    <2>1. Types'
      BY <1>1, BoundAssumption DEF Types, Tick, Shown
    <2>2. total' >= total
      BY <1>1, BoundAssumption DEF Types, Tick
    <2>3. Ordered'
      BY <1>1, <2>2, BoundAssumption DEF Types, Ordered, NotAfter, Readings, Tick
    <2>4. RateInv' /\ TakenInv'
      BY <1>1 DEF RateInv, TakenInv, Tick
    <2>5. QED
      BY <2>1, <2>3, <2>4
  <1>2. CASE Reboot
    <2>1. Types'
      BY <1>2 DEF Types, Reboot, Shown
    <2>2. Ordered'
      BY <1>2 DEF Types, Ordered, NotAfter, Readings, Reboot
    <2>3. RateInv' /\ TakenInv'
      BY <1>2 DEF RateInv, TakenInv, Reboot
    <2>4. QED
      BY <2>1, <2>2, <2>3
  <1>3. CASE Retarget
    <2>1. Types'
      BY <1>3, BoundAssumption DEF Types, Retarget, Shown
    <2>2. Ordered'
      BY <1>3 DEF Types, Ordered, NotAfter, Readings, Retarget
    <2>3. RateInv' /\ TakenInv'
      BY <1>3 DEF RateInv, TakenInv, Retarget
    <2>4. QED
      BY <2>1, <2>2, <2>3
  <1>4. CASE Reply
    <2>1. total % Modulus(bits) \in Nat
      BY ModulusType, RemainderBounds DEF Types
    <2>2. cur' \in Readings /\ Shown(cur')
      BY <1>4, <2>1 DEF Types, Readings, Shown, Reply
    <2>3. Types'
      BY <1>4, <2>2, NoSampleType DEF Types, Reply, NothingPublished, Shown
    <2>4. Ordered'
      BY <1>4 DEF Types, Ordered, NotAfter, Readings, Reply
    <2>5. RateInv' /\ TakenInv'
      BY <1>4 DEF RateInv, TakenInv, Reply
    <2>6. QED
      BY <2>3, <2>4, <2>5
  <1>5. CASE Fail
    <2>1. Types'
      BY <1>5, NoSampleType
      DEF Types, Fail, AfterError, NothingPublished, Shown
    <2>2. Ordered' /\ RateInv' /\ TakenInv'
      BY <1>5 DEF Ordered, RateInv, TakenInv, Fail, AfterError
    <2>3. QED
      BY <2>1, <2>2
  <1>6. CASE Stamp
    <2>1. Types'
      BY <1>6 DEF Types, Readings, Shown, Stamp
    <2>2. Ordered'
      BY <1>6 DEF Types, Ordered, NotAfter, Readings, Stamp
    <2>3. RateInv' /\ TakenInv'
      BY <1>6 DEF RateInv, TakenInv, Stamp
    <2>4. QED
      BY <2>1, <2>2, <2>3
  <1>7. CASE Publish
    <2>1. from' \in Readings /\ Shown(from')
      BY <1>7, NoSampleType DEF Types, Publish, NothingPublished
    <2>2. Types'
      BY <1>7, <2>1 DEF Types, Publish, Stored, Shown
    <2>3. Ordered'
      BY <1>7 DEF Ordered, Publish, Stored
    <2>4. RateInv'
      <3>1. CASE outcome' = "published"
        <4>1. /\ kept /\ Forward(prev, cur) /\ Comparable(prev, cur)
              /\ ~TooFast(Delta(prev, cur), cur.at - prev.at)
              /\ from' = prev /\ delta' = Delta(prev, cur)
              /\ seconds' = cur.at - prev.at /\ prev' = cur
          BY <1>7, <3>1 DEF Publish, Stored
        <4>2. NotAfter(prev, cur.total, cur.bits, cur.epoch)
          BY <1>7, <4>1 DEF Ordered, Publish
        <4>3. QED
          BY <4>1, <4>2 DEF RateInv
      <3>2. QED
        BY <3>1 DEF RateInv
    <2>5. TakenInv'
      BY <1>7 DEF TakenInv, Publish, Stored
    <2>6. QED
      BY <2>2, <2>3, <2>4, <2>5
  <1>8. CASE UNCHANGED vars
    BY <1>8 DEF vars, Types, Ordered, RateInv, TakenInv, Shown
  <1>9. QED
    BY <1>1, <1>2, <1>3, <1>4, <1>5, <1>6, <1>7, <1>8 DEF Next

\* The readings of a run are in order and the rate is computed from them.
LEMMA CounterInvariant == Spec => []CounterInv
  <1>1. Init => CounterInv
    BY CounterInit
  <1>2. CounterInv /\ [Next]_vars => CounterInv'
    BY CounterStep
  <1>3. QED
    BY <1>1, <1>2, PTL DEF Spec

-----------------------------------------------------------------------------
(* The rates.                                                              *)

\* Every published rate is what the agent counted between the two readings,
\* provided they are of one life of it and less than a wrap apart
\* (counterRate and swapCounterSample, rate.go).
THEOREM RateCorrect == Spec => []RateIsIncrease
  <1>1. CounterInv => RateIsIncrease
    <2> SUFFICES ASSUME CounterInv, Published
                 PROVE  /\ delta \in Nat /\ seconds > 0
                        /\ from.epoch = prev.epoch
                           /\ Increase < Modulus(prev.bits)
                             => delta = Increase
      BY DEF RateIsIncrease
    <2> USE DEF CounterInv
    <2>1. /\ from \in Readings /\ prev \in Readings
          /\ Shown(from) /\ Shown(prev)
      BY DEF Types
    <2>2. /\ NotAfter(from, prev.total, prev.bits, prev.epoch)
          /\ Forward(from, prev) /\ Comparable(from, prev)
          /\ delta = Delta(from, prev) /\ seconds = prev.at - from.at
      BY DEF RateInv, Published
    <2>3. seconds > 0
      BY <2>1, <2>2 DEF Forward, Readings
    <2> DEFINE m == Modulus(prev.bits)
    <2>4. m \in Nat \ {0} /\ from.bits = prev.bits
      BY <2>2, ModulusType DEF Comparable
    <2>5. /\ from.value = from.total % m /\ prev.value = prev.total % m
          /\ from.total \in Nat /\ prev.total \in Nat
      BY <2>1, <2>4 DEF Shown, Readings
    <2>6. prev.value < from.value => m = Wrap32
      BY <2>1, <2>2 DEF Comparable, Modulus, Readings
    <2> HIDE DEF m
    <2>7. /\ from.value \in Nat /\ prev.value \in Nat
          /\ from.value < m /\ prev.value < m
      BY <2>4, <2>5, RemainderBounds
    <2>8. delta = IF prev.value >= from.value THEN prev.value - from.value
                  ELSE m - from.value + prev.value
      BY <2>2, <2>6, <2>7 DEF Delta
    <2>9. delta \in Nat
      BY <2>4, <2>7, <2>8
    <2>10. ASSUME from.epoch = prev.epoch, Increase < m
           PROVE  delta = Increase
      <3>1. from.total <= prev.total
        BY <2>2, <2>10 DEF NotAfter
      <3>2. prev.total - from.total < m
        BY <2>10 DEF Increase
      <3> DEFINE a == from.total % m
                 b == prev.total % m
      <3>3. /\ b >= a => b - a = prev.total - from.total
            /\ b < a => (m - a) + b = prev.total - from.total
        BY <2>4, <2>5, <3>1, <3>2, RemainderDifference
      <3>4. from.value = a /\ prev.value = b
        BY <2>5
      <3> HIDE DEF a, b
      <3>5. QED
        BY <2>4, <2>7, <2>8, <3>3, <3>4 DEF Increase
    <2>11. QED
      BY <2>3, <2>9, <2>10 DEF m
  <1>2. QED
    BY <1>1, CounterInvariant, PTL

\* A rate across a reset of the agent is at most what a Counter64 has
\* counted since, or max_rate (counterRate and SNMPRatePlugin, rate.go).
THEOREM ResetsBounded == Spec => []ResetBounded
  <1>1. CounterInv => ResetBounded
    <2> SUFFICES ASSUME CounterInv, Published
                 PROVE  /\ prev.bits = 64 => delta <= prev.total
                        /\ MaxRate > 0 => delta * Multiplier <= MaxRate * seconds
      BY DEF ResetBounded
    <2> USE DEF CounterInv
    <2>1. /\ from \in Readings /\ prev \in Readings
          /\ Shown(from) /\ Shown(prev)
      BY DEF Types
    <2>2. /\ Forward(from, prev) /\ Comparable(from, prev)
          /\ delta = Delta(from, prev) /\ seconds = prev.at - from.at
          /\ ~TooFast(delta, seconds)
      BY DEF RateInv, Published
    <2>3. ASSUME prev.bits = 64 PROVE delta <= prev.total
      <3>1. delta = prev.value - from.value
        BY <2>1, <2>2, <2>3 DEF Comparable, Delta
      <3>2. prev.value <= prev.total
        BY <2>1, ModulusType, RemainderBounds DEF Shown, Readings
      <3>3. QED
        BY <2>1, <3>1, <3>2 DEF Readings
    <2>4. delta \in Int
      BY <2>1, <2>2, WrapAssumption DEF Delta, Readings
    <2>5. seconds \in Int
      BY <2>1, <2>2 DEF Readings
    <2>6. delta * Multiplier \in Int /\ MaxRate * seconds \in Int
      BY <2>4, <2>5, ParamAssumption
    <2>7. MaxRate > 0 => ~(delta * Multiplier > MaxRate * seconds)
      BY <2>2 DEF TooFast
    <2>8. MaxRate > 0 => delta * Multiplier <= MaxRate * seconds
      BY <2>6, <2>7
    <2>9. QED
      BY <2>3, <2>8
  <1>2. QED
    BY <1>1, CounterInvariant, PTL

\* A reading that follows one of the same life of the agent, later and
\* within max_rate, is always published: a reset, a failure or a rate too
\* high costs no second cycle (swapCounterSample, rate.go).
THEOREM CountingResumes == Spec => CountsAgain
  <1> DEFINE Resumes ==
        /\ pc = "stamped" /\ pc' = "idle"
        /\ last.epoch = cur.epoch /\ last.bits = cur.bits /\ cur.at > last.at
        /\ cur.value >= last.value
        /\ ~TooFast(cur.value - last.value, cur.at - last.at)
        /\ counted
        => Published'
  <1>1. CounterInv /\ [Next]_vars => [Resumes]_vars
    <2> SUFFICES ASSUME CounterInv, Next,
                        pc = "stamped", pc' = "idle",
                        last.bits = cur.bits, cur.at > last.at,
                        cur.value >= last.value,
                        ~TooFast(cur.value - last.value, cur.at - last.at),
                        counted
                 PROVE  Published'
      OBVIOUS
    <2>1. Publish
      BY DEF Next, Tick, Reboot, Retarget, Reply, Fail, Stamp
    <2>2. kept /\ last = prev
      BY DEF CounterInv, TakenInv
    <2>3. /\ Forward(prev, cur) /\ Comparable(prev, cur)
          /\ Delta(prev, cur) = cur.value - prev.value
      BY <2>2 DEF Forward, Comparable, Delta
    <2>4. ~TooFast(Delta(prev, cur), cur.at - prev.at)
      BY <2>2, <2>3
    <2>5. outcome' = "published"
      BY <2>1, <2>2, <2>3, <2>4 DEF Publish
    <2>6. QED
      BY <2>5 DEF Published
  <1> HIDE DEF Resumes
  <1>2. Spec => [][Resumes]_vars
    BY <1>1, CounterInvariant, PTL DEF Spec
  <1>3. QED
    BY <1>2 DEF Resumes, CountsAgain
=============================================================================
