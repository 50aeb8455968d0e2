---------------------------- MODULE VectorOutput ----------------------------
(***************************************************************************)
(* internal/monitor/processor.go: vectors.  A monitor with a split         *)
(* parameter reads a list of samples (parseRawOutputWithValue), an op over *)
(* vectors is computed index by index (processOpMonitor), and what is new  *)
(* compared with the cache is published (outputMetrics).  The monitors     *)
(* take their turns in the sequential loop of ProcessSensor; SensorCycle   *)
(* models how their queries run, and groups, which are left out here.      *)
(*                                                                         *)
(* A part of a list is Nil (empty, or no number) or [at, value], with the  *)
(* time Now if it carries none.  Values are integers and sums exact.       *)
(***************************************************************************)
EXTENDS Integers, Sequences, FiniteSets, Functions

CONSTANTS
    Monitors,       \* the sequence of monitors: [kind, name, given, total,
                    \* vars]; kind "scalar", "vector" or "op"; given:
                    \* timestamp_given; total: split_op, or "none"; vars: the
                    \* variables of an op in the order of ExtractVariables
    Readings(_),    \* the lists the device may answer to a monitor
    Expression(_),  \* the value of the op over a function of its variables
    NaN,            \* a result that is not a finite number
    Nil, Now,
    MaxCycles       \* bound: cycles

ASSUME CyclesAssumption == MaxCycles \in Nat
ASSUME MonitorsAssumption ==
    /\ Len(Monitors) \in Nat /\ DOMAIN Monitors = 1 .. Len(Monitors)
    /\ \A i \in DOMAIN Monitors : LET vs == Monitors[i].vars IN
        /\ Monitors[i].kind \in {"scalar", "vector", "op"}
        /\ Monitors[i].total \in {"none", "sum", "mean"}
        /\ Len(vs) \in Nat /\ DOMAIN vs = 1 .. Len(vs)
        /\ Monitors[i].kind # "op" => vs = <<>>

Names == {Monitors[i].name : i \in DOMAIN Monitors}

\* Lists are split into one part at least; a single value is always a number
\* (0 if the text is none).
ASSUME ReadingsAssumption ==
    \A i \in DOMAIN Monitors : \A ps \in Readings(Monitors[i].name) :
        /\ ps \in Seq({Nil} \cup [at : Int \cup {Now}, value : Int]) \ {<<>>}
        /\ Monitors[i].kind = "scalar" => ps[1] # Nil

VARIABLES
    cycle,          \* cycles begun; also the time, in seconds
    next,           \* the monitor whose turn it is
    current,        \* currentVals
    cache,          \* ss.Cache
    fresh,          \* (properties only) the names delivered in this cycle
    sent, held      \* (properties only) what was published, what withheld

history == <<fresh, sent, held>>
vars == <<cycle, next, current, cache, history>>

Init ==
    /\ cycle = 0 /\ next = Len(Monitors) + 1
    /\ current = [n \in Names |-> Nil] /\ cache = [n \in Names |-> Nil]
    /\ fresh = {} /\ sent = {} /\ held = {}

\* A MonitorState: one value or a vector of values and holes, and the total
\* of split_op.  from: the samples a value was computed from.
Scalar(v) == [scalar |-> v, children |-> <<>>, total |-> Nil]
Vector(cs, t) == [scalar |-> Nil, children |-> cs, total |-> t]

\* The places of the list that have a value.
Valid(cs) == {k \in DOMAIN cs : cs[k] # Nil}

Sum(cs) ==
    LET upTo[k \in 0 .. Len(cs)] ==
            IF k = 0 THEN 0
            ELSE upTo[k - 1] + (IF k \in Valid(cs) THEN cs[k].value ELSE 0)
    IN  upTo[Len(cs)]

\* (mutant) holes count for the mean
AllParts(cs) == Len(cs)

Counted(cs) == Cardinality(Valid(cs))

\* res: the sum, or the sum divided by the number of values.
Total(m, cs) ==
    IF m.total = "none" \/ Counted(cs) = 0 THEN Nil
    ELSE [at |-> cycle, sum |-> Sum(cs),
          over |-> IF m.total = "mean" THEN Counted(cs) ELSE 1]

-----------------------------------------------------------------------------
(* parseRawOutputWithValue.                                                *)

\* The time of a part counts only with timestamp_given.
PartTime(m, p) == IF m.given /\ p.at # Now THEN p.at ELSE cycle

\* Part i becomes child i, an unreadable part a hole.
Child(m, i, p) ==
    IF p = Nil THEN Nil
    ELSE [at |-> PartTime(m, p), value |-> p.value,
          from |-> {[name |-> m.name, index |-> i, cycle |-> cycle]}]

Parsed(m, ps) ==
    IF m.kind = "scalar"
    THEN Scalar([at |-> cycle, value |-> ps[1].value,
                 from |-> {[name |-> m.name, index |-> 0, cycle |-> cycle]}])
    ELSE LET cs == [i \in DOMAIN ps |-> Child(m, i, ps[i])]
         IN  Vector(cs, Total(m, cs))

\* A failed query is parsed as the text "0".
Placeholder == <<[at |-> Now, value |-> 0]>>

-----------------------------------------------------------------------------
(* processOpMonitor.                                                       *)

Vectors(m) == {n \in Range(m.vars) : current[n].children # <<>>}

\* The lengths of the vectors: the op has no result if they differ.
Lengths(m) == {Len(current[n].children) : n \in Vectors(m)}

\* (mutant) an element an input lacks is replaced by the one before it
Nearest(n, k) ==
    LET cs == current[n].children
    IN  IF cs = <<>> THEN current[n].scalar
        ELSE IF cs[k] = Nil /\ k > 1 THEN cs[k - 1] ELSE cs[k]

\* The input of index k: the child, or the scalar for every index.
Input(n, k) ==
    IF current[n].children = <<>> THEN current[n].scalar ELSE current[n].children[k]

\* The time of the first vector among the variables, unless it is 0.
ItemTime(m, k) ==
    LET timed == {j \in DOMAIN m.vars :
                    m.vars[j] \in Vectors(m) /\ Input(m.vars[j], k).at # 0}
    IN  IF timed = {} THEN cycle
        ELSE Input(m.vars[CHOOSE j \in timed : \A l \in timed : j <= l], k).at

Complete(m, k) == \A n \in Range(m.vars) : Input(n, k) # Nil

Value(m, k) == Expression([n \in Range(m.vars) |-> Input(n, k).value])

Result(m, k, time) ==
    [at |-> time, value |-> Value(m, k),
     from |-> UNION {Input(n, k).from : n \in Range(m.vars)}]

Evaluated(m) ==
    IF \E n \in Range(m.vars) : n \notin Names \/ current[n] = Nil THEN Nil
    ELSE IF Vectors(m) = {}
    THEN IF ~Complete(m, 0) \/ Value(m, 0) = NaN THEN Nil
         ELSE Scalar(Result(m, 0, cycle))
    ELSE IF Cardinality(Lengths(m)) > 1 THEN Nil
    ELSE LET cs == [k \in 1 .. CHOOSE l \in Lengths(m) : TRUE |->
                        IF ~Complete(m, k) \/ Value(m, k) = NaN THEN Nil
                        ELSE Result(m, k, ItemTime(m, k))]
         IN  Vector(cs, Total(m, cs))

-----------------------------------------------------------------------------
(* outputMetrics, and the turn of a monitor in the sequential loop.        *)

\* (mutant) only a newer sample is published
OnlyNewer(new, old) == new.at > old.at

IsNews(new, old) == new.at > old.at \/ new.value # old.value

\* The cached value a new one is compared with, or Nil.
Cached(n, k) ==
    IF cache[n] = Nil THEN Nil
    ELSE IF k = 0 THEN cache[n].scalar
    ELSE IF k \in DOMAIN cache[n].children THEN cache[n].children[k] ELSE Nil

ShouldSend(m, k, new) ==
    ~m.given \/ Cached(m.name, k) = Nil \/ IsNews(new, Cached(m.name, k))

\* The values of a state by their instance, 0 for the scalar.
Instances(s) == {k \in 0 .. Len(s.children) : IF k = 0 THEN s.scalar # Nil ELSE s.children[k] # Nil}
At(s, k) == IF k = 0 THEN s.scalar ELSE s.children[k]

Metric(m, k, v) == [name |-> m.name, instance |-> k, at |-> v.at, value |-> v.value]

\* A state is published, remembered and cached.  (A total is published in
\* every cycle; send = 0 publishes nothing and caches all the same.)
Deliver(m, s) ==
    LET ks == Instances(s)
        news == {k \in ks : ShouldSend(m, k, At(s, k))}
    IN  /\ sent' = sent \cup {Metric(m, k, At(s, k)) : k \in news}
        /\ held' = held \cup {Metric(m, k, At(s, k)) : k \in ks \ news}
        /\ current' = [current EXCEPT ![m.name] = s]
        /\ cache' = [cache EXCEPT ![m.name] = s]

Turn(kinds) ==
    /\ next \in DOMAIN Monitors
    /\ Monitors[next].kind \in kinds
    /\ next' = next + 1
    /\ UNCHANGED cycle

\* currentVals begins as a copy of the cache.
StartCycle ==
    /\ next > Len(Monitors) /\ cycle < MaxCycles
    /\ cycle' = cycle + 1 /\ next' = 1
    /\ current' = cache
    /\ fresh' = {}
    /\ UNCHANGED <<cache, sent, held>>

\* The device answers.
Answer ==
    /\ Turn({"scalar", "vector"})
    /\ \E ps \in Readings(Monitors[next].name) : Deliver(Monitors[next], Parsed(Monitors[next], ps))
    /\ fresh' = fresh \cup {Monitors[next].name}

\* The query failed.
Fail ==
    /\ Turn({"scalar", "vector"})
    /\ Deliver(Monitors[next], Parsed(Monitors[next], Placeholder))
    /\ fresh' = fresh \cup {Monitors[next].name}

\* There is no state: skipped, or no such object.
Skip ==
    /\ Turn({"scalar", "vector"})
    /\ UNCHANGED <<current, cache, history>>

Compute ==
    /\ Turn({"op"})
    /\ LET m == Monitors[next] IN
        IF Evaluated(m) = Nil THEN UNCHANGED <<current, cache, history>>
        ELSE Deliver(m, Evaluated(m)) /\ fresh' = fresh \cup {m.name}

Next == StartCycle \/ Answer \/ Fail \/ Skip \/ Compute

Spec == Init /\ [][Next]_vars

-----------------------------------------------------------------------------
(* Properties.                                                             *)

\* However lists grow, shrink and lose parts between the cycles, a sample
\* is withheld only if that instance's value was published already, with a
\* time at least as late.
NoSampleLost ==
    \A h \in held : \E s \in sent :
        /\ s.name = h.name /\ s.instance = h.instance
        /\ s.value = h.value /\ s.at >= h.at

Deps(n) == UNION {Range(Monitors[i].vars) : i \in {j \in DOMAIN Monitors : Monitors[j].name = n}}

\* An element of an op's vector is computed from the samples of its own
\* index, one per variable, and all from this cycle if every variable was
\* delivered in it.
OpAligned ==
    \A n \in fresh : Deps(n) # {} =>
        \A k \in Instances(current[n]) : LET f == At(current[n], k).from IN
            /\ {o.name : o \in f} = Deps(n)
            /\ \A o \in f : o.index \in {0, k}
            /\ Deps(n) \subseteq fresh => \A o \in f : o.cycle = cycle

\* A mean lies between the smallest and the largest value it is the mean of,
\* however many parts of the list were unreadable.
MeanInRange ==
    \A i \in DOMAIN Monitors : LET s == current[Monitors[i].name] IN
        Monitors[i].total = "mean" /\ s # Nil /\ s.total # Nil =>
            \E lo, hi \in Valid(s.children) :
                /\ s.children[lo].value * s.total.over <= s.total.sum
                /\ s.total.sum <= s.children[hi].value * s.total.over
=============================================================================
