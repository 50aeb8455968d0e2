------------------------- MODULE VectorOutputProofs -------------------------
(***************************************************************************)
(* Theorems about VectorOutput, for any monitors, lists and expressions.   *)
(***************************************************************************)
EXTENDS VectorOutput, FiniteSetTheorems, TLAPS

-----------------------------------------------------------------------------
(* The invariant of publication: what is cached was published, at its own  *)
(* time or later.                                                          *)

IsState(s) ==
    /\ Len(s.children) \in Nat /\ DOMAIN s.children = 1 .. Len(s.children)
    /\ \A k \in Instances(s) : At(s, k).at \in Int

Types ==
    /\ cycle \in Nat
    /\ cache = [n \in Names |-> cache[n]] /\ current = cache
    /\ \A n \in Names : cache[n] # Nil => IsState(cache[n])

\* Of instance k of monitor n, the value of v was published, at its time or
\* later.
Published(metrics, n, k, v) ==
    \E s \in metrics : /\ s.name = n /\ s.instance = k /\ s.value = v.value
                       /\ s.at \in Int /\ s.at >= v.at

CacheInv ==
    \A n \in Names : cache[n] # Nil =>
        \A k \in Instances(cache[n]) : Published(sent, n, k, At(cache[n], k))

-----------------------------------------------------------------------------
(* Lemmas about the states.                                                *)

\* A bounded non-empty set of positions has a least element.
LEMMA LeastPosition ==
    ASSUME NEW n \in Nat, NEW S \in SUBSET (1 .. n), S # {}
    PROVE  \E i \in S : \A j \in S : i <= j
  <1> DEFINE Below(i) == 1 .. i
             T == {Below(i) : i \in S}
  <1>1. IsFiniteSet(1 .. n)
    BY FS_Interval
  <1>2. IsWellFoundedOn(StrictSubsetOrdering(1 .. n), SUBSET (1 .. n))
    BY <1>1, FS_StrictSubsetOrderingWellFounded, FS_FiniteSubsetsOfFinite
  <1>3. T \subseteq SUBSET (1 .. n) /\ T # {}
    <2>1. \A j \in S : Below(j) \in SUBSET (1 .. n)
      OBVIOUS
    <2>2. QED
      BY <2>1
  <1>4. PICK t \in T : \A u \in T : <<u, t>> \notin StrictSubsetOrdering(1 .. n)
    <2> HIDE DEF T
    <2>1. \E x \in T : \A y \in T : ~ (<<y, x>> \in StrictSubsetOrdering(1 .. n))
      BY <1>2, <1>3, WFMin
    <2>2. QED
      BY <2>1
  <1>5. PICK i \in S : t = Below(i)
    OBVIOUS
  <1>6. ASSUME NEW j \in S, j < i PROVE FALSE
    <2>1. Below(j) \in T
      OBVIOUS
    <2>2. Below(j) \subseteq Below(i) /\ i \in Below(i) /\ i \notin Below(j)
      BY <1>6
    <2>3. <<Below(j), Below(i)>> \in StrictSubsetOrdering(1 .. n)
      BY <1>3, <1>5, <2>1, <2>2 DEF StrictSubsetOrdering
    <2>4. QED
      BY <1>4, <1>5, <2>1, <2>3
  <1>7. QED
    BY <1>6

\* What the reading of a list gives is a state, with a time for every value.
LEMMA ParsedState ==
    ASSUME Types, NEW m, NEW ps \in Seq({Nil} \cup [at : Int \cup {Now}, value : Int])
    PROVE  IsState(Parsed(m, ps))
  <1>1. CASE m.kind = "scalar"
    BY <1>1 DEF Parsed, Scalar, IsState, Instances, At, Types
  <1>2. CASE m.kind # "scalar"
    <2> DEFINE cs == [i \in DOMAIN ps |-> Child(m, i, ps[i])]
    <2>1. Parsed(m, ps) = Vector(cs, Total(m, cs))
      BY <1>2 DEF Parsed
    <2>2. Len(cs) = Len(ps) /\ Len(ps) \in Nat /\ DOMAIN cs = 1 .. Len(ps)
      OBVIOUS
    <2>3. ASSUME NEW i \in DOMAIN ps, cs[i] # Nil PROVE cs[i].at \in Int
      <3>1. cs[i] = Child(m, i, ps[i]) /\ ps[i] # Nil
        BY <2>3 DEF Child
      <3>2. ps[i].at \in Int \cup {Now}
        BY <2>3, <3>1
      <3>3. PartTime(m, ps[i]) \in Int
        BY <3>2 DEF PartTime, Types
      <3>4. QED
        BY <3>1, <3>3 DEF Child
    <2> HIDE DEF cs
    <2>4. QED
      BY <2>1, <2>2, <2>3 DEF Vector, IsState, Instances, At
  <1>3. QED
    BY <1>1, <1>2

LEMMA PlaceholderList ==
    Placeholder \in Seq({Nil} \cup [at : Int \cup {Now}, value : Int])
  BY DEF Placeholder

\* The vectors of an op that is computed have one length.
LEMMA OneLength ==
    ASSUME NEW m, Len(m.vars) \in Nat, DOMAIN m.vars = 1 .. Len(m.vars),
           ~ Cardinality(Lengths(m)) > 1
    PROVE  \A l1, l2 \in Lengths(m) : l1 = l2
  <1>1. IsFiniteSet(1 .. Len(m.vars))
    BY FS_Interval
  <1>2. [j \in 1 .. Len(m.vars) |-> m.vars[j]] \in Surjection(1 .. Len(m.vars), Range(m.vars))
    BY DEF Surjection, Range
  <1>3. IsFiniteSet(Range(m.vars))
    BY <1>1, <1>2, FS_Surjection
  <1>4. IsFiniteSet(Vectors(m))
    <2>1. Vectors(m) \in SUBSET Range(m.vars)
      BY DEF Vectors
    <2>2. QED
      BY <1>3, <2>1, FS_Subset
  <1>5. [n \in Vectors(m) |-> Len(current[n].children)] \in Surjection(Vectors(m), Lengths(m))
    BY DEF Surjection, Lengths
  <1>6. IsFiniteSet(Lengths(m)) /\ Cardinality(Lengths(m)) \in Nat
    BY <1>4, <1>5, FS_Surjection, FS_CardinalityType
  <1>7. ASSUME NEW l1 \in Lengths(m), NEW l2 \in Lengths(m), l1 # l2 PROVE FALSE
    <2>1. IsFiniteSet({l1} \cup {l2}) /\ Cardinality({l1} \cup {l2}) = 2
      <3>1. IsFiniteSet({l1}) /\ Cardinality({l1}) = 1 /\ l2 \notin {l1}
        BY <1>7, FS_Singleton
      <3>2. ASSUME NEW S, IsFiniteSet(S), Cardinality(S) = 1, l2 \notin S
            PROVE  IsFiniteSet(S \cup {l2}) /\ Cardinality(S \cup {l2}) = 1 + 1
        BY <3>2, FS_AddElement
      <3>3. QED
        BY <3>1, <3>2
    <2>2. ({l1} \cup {l2}) \in SUBSET Lengths(m)
      OBVIOUS
    <2>3. Cardinality({l1} \cup {l2}) <= Cardinality(Lengths(m))
      BY <1>6, <2>2, FS_Subset
    <2>4. QED
      BY <1>6, <2>1, <2>3
  <1>8. QED
    BY <1>7

\* The input of an element of an op is a value of its variable, the scalar or
\* the value of the same index.
LEMMA InputFound ==
    ASSUME NEW n \in Names, current[n] # Nil, IsState(current[n]), NEW k,
           Input(n, k) # Nil,
           current[n].children # <<>> => k \in DOMAIN current[n].children
    PROVE  \E j \in {0, k} : j \in Instances(current[n]) /\ Input(n, k) = At(current[n], j)
  <1>1. CASE current[n].children = <<>>
    BY <1>1 DEF Input, IsState, Instances, At
  <1>2. CASE current[n].children # <<>>
    <2>1. k \in 1 .. Len(current[n].children)
      BY <1>2 DEF IsState
    <2>2. QED
      BY <1>2, <2>1 DEF Input, IsState, Instances, At
  <1>3. QED
    BY <1>1, <1>2

\* What an op computes: each of its values is the result over one index that
\* every input has.
OpInputs(m, k) ==
    /\ Complete(m, k)
    /\ \A n \in Range(m.vars) :
        n \in Names /\ current[n] # Nil
            /\ (current[n].children # <<>> => k \in DOMAIN current[n].children)

LEMMA OpResult ==
    ASSUME Types, NEW m, Len(m.vars) \in Nat, DOMAIN m.vars = 1 .. Len(m.vars),
           NEW e, e = Evaluated(m), e # Nil
    PROVE  /\ Len(e.children) \in Nat /\ DOMAIN e.children = 1 .. Len(e.children)
           /\ \A k \in Instances(e) :
                /\ OpInputs(m, k) /\ Value(m, k) # NaN
                /\ \E t \in {cycle, ItemTime(m, k)} : At(e, k) = Result(m, k, t)
           /\ e.total # Nil => e.total = Total(m, e.children)
  <1>1. \A n \in Range(m.vars) : n \in Names /\ current[n] # Nil
    BY DEF Evaluated
  <1>2. CASE Vectors(m) = {}
    <2>1. Complete(m, 0) /\ Value(m, 0) # NaN /\ e = Scalar(Result(m, 0, cycle))
      BY <1>1, <1>2 DEF Evaluated
    <2>2. e.children = <<>> /\ e.scalar = Result(m, 0, cycle) /\ e.total = Nil
      BY <2>1 DEF Scalar
    <2>3. \A n \in Range(m.vars) : current[n].children = <<>>
      BY <1>2 DEF Vectors
    <2>4. QED
      BY <1>1, <2>1, <2>2, <2>3 DEF Instances, At, OpInputs
  <1>3. CASE Vectors(m) # {}
    <2> DEFINE l == CHOOSE x \in Lengths(m) : TRUE
               cs == [k \in 1 .. l |->
                        IF ~Complete(m, k) \/ Value(m, k) = NaN THEN Nil
                        ELSE Result(m, k, ItemTime(m, k))]
    <2>1. ~ Cardinality(Lengths(m)) > 1 /\ e = Vector(cs, Total(m, cs))
      BY <1>1, <1>3 DEF Evaluated
    <2>2. \A n \in Vectors(m) : Len(current[n].children) = l
      <3>1. l \in Lengths(m)
        BY <1>3 DEF Lengths
      <3>2. \A n \in Vectors(m) : Len(current[n].children) \in Lengths(m)
        BY DEF Lengths
      <3>3. QED
        BY <2>1, <3>1, <3>2, OneLength
    <2> HIDE DEF l
    <2>3. l \in Nat /\ \A n \in Vectors(m) : DOMAIN current[n].children = 1 .. l
      BY <1>1, <1>3, <2>2 DEF Types, IsState, Vectors
    <2>4. Len(cs) = l /\ DOMAIN cs = 1 .. l /\ e.children = cs /\ e.scalar = Nil
          /\ e.total = Total(m, cs)
      BY <2>1, <2>3 DEF Vector
    <2>5. ASSUME NEW k \in Instances(e)
          PROVE  /\ k \in 1 .. l /\ Complete(m, k) /\ Value(m, k) # NaN
                 /\ At(e, k) = Result(m, k, ItemTime(m, k))
      <3>1. k \in 0 .. l /\ k # 0 /\ cs[k] # Nil
        BY <2>3, <2>4, <2>5 DEF Instances
      <3>2. QED
        BY <2>3, <2>4, <3>1 DEF At
    <2>6. ASSUME NEW k \in Instances(e) PROVE OpInputs(m, k)
      <3>1. \A n \in Range(m.vars) : current[n].children # <<>> => n \in Vectors(m)
        BY DEF Vectors
      <3>2. QED
        BY <1>1, <2>3, <2>5, <2>6, <3>1 DEF OpInputs
    <2>7. QED
      BY <2>3, <2>4, <2>5, <2>6
  <1>4. QED
    BY <1>2, <1>3

\* The time of an element is the cycle's or that of an input.
LEMMA ItemTimeType ==
    ASSUME Types, NEW m, Len(m.vars) \in Nat, DOMAIN m.vars = 1 .. Len(m.vars),
           NEW k, OpInputs(m, k)
    PROVE  ItemTime(m, k) \in Int
  <1> DEFINE timed == {j \in DOMAIN m.vars :
                        m.vars[j] \in Vectors(m) /\ Input(m.vars[j], k).at # 0}
             first == CHOOSE j \in timed : \A l \in timed : j <= l
  <1>1. CASE timed = {}
    BY <1>1 DEF ItemTime, Types
  <1>2. CASE timed # {}
    <2>1. first \in timed
      <3>1. timed \in SUBSET (1 .. Len(m.vars))
        OBVIOUS
      <3>2. \E i \in timed : \A j \in timed : i <= j
        BY <1>2, <3>1, LeastPosition
      <3>3. QED
        BY <3>2
    <2>2. ItemTime(m, k) = Input(m.vars[first], k).at
      BY <1>2 DEF ItemTime
    <2> DEFINE n == m.vars[first]
    <2>3. n \in Range(m.vars)
      BY <2>1 DEF Range
    <2> HIDE DEF first
    <2>4. n \in Names /\ current[n] # Nil /\ Input(n, k) # Nil
          /\ (current[n].children # <<>> => k \in DOMAIN current[n].children)
      BY <2>3 DEF OpInputs, Complete
    <2>5. IsState(current[n])
      BY <2>4 DEF Types
    <2>6. PICK j \in {0, k} : j \in Instances(current[n]) /\ Input(n, k) = At(current[n], j)
      BY <2>4, <2>5, InputFound
    <2>7. QED
      BY <2>2, <2>5, <2>6 DEF IsState
  <1>3. QED
    BY <1>1, <1>2

LEMMA EvaluatedState ==
    ASSUME Types, NEW m, Len(m.vars) \in Nat, DOMAIN m.vars = 1 .. Len(m.vars),
           Evaluated(m) # Nil
    PROVE  IsState(Evaluated(m))
  <1> DEFINE e == Evaluated(m)
  <1>1. /\ Len(e.children) \in Nat /\ DOMAIN e.children = 1 .. Len(e.children)
        /\ \A k \in Instances(e) :
             /\ OpInputs(m, k)
             /\ \E t \in {cycle, ItemTime(m, k)} : At(e, k) = Result(m, k, t)
    <2> HIDE DEF e
    <2>1. ASSUME NEW x, x = e PROVE x = Evaluated(m) /\ x # Nil
      BY <2>1 DEF e
    <2>2. QED
      BY <2>1, OpResult
  <1> HIDE DEF e
  <1>2. ASSUME NEW k \in Instances(e) PROVE At(e, k).at \in Int
    <2>1. ItemTime(m, k) \in Int
      BY <1>1, ItemTimeType
    <2>2. QED
      BY <1>1, <2>1 DEF Result, Types
  <1>3. QED
    BY <1>1, <1>2 DEF IsState, e

-----------------------------------------------------------------------------
(* Publication.                                                            *)

\* What is delivered is published, or its value was cached with a time at
\* least as late, and therefore published before.
LEMMA DeliverStep ==
    ASSUME Types, CacheInv, NoSampleLost, NEW m, m.name \in Names,
           NEW s, IsState(s), Deliver(m, s), cycle' = cycle
    PROVE  Types' /\ CacheInv' /\ NoSampleLost'
  <1> DEFINE ks == Instances(s)
             news == {k \in ks : ShouldSend(m, k, At(s, k))}
  <1>1. /\ sent' = sent \cup {Metric(m, k, At(s, k)) : k \in news}
        /\ held' = held \cup {Metric(m, k, At(s, k)) : k \in ks \ news}
        /\ current' = [current EXCEPT ![m.name] = s]
        /\ cache' = [cache EXCEPT ![m.name] = s]
    BY DEF Deliver
  <1>2. \A n \in Names : cache'[n] = IF n = m.name THEN s ELSE cache[n]
    BY <1>1 DEF Types
  <1>3. Types'
    <2>1. cycle' \in Nat /\ cache' = [n \in Names |-> cache'[n]] /\ current' = cache'
      BY <1>1 DEF Types
    <2>2. \A n \in Names : cache'[n] # Nil => IsState(cache'[n])
      BY <1>2 DEF Types
    <2>3. QED
      BY <2>1, <2>2 DEF Types, IsState, Instances, At
  <1>4. ASSUME NEW k \in ks PROVE Published(sent', m.name, k, At(s, k))
    <2>1. CASE k \in news
      <3>1. Metric(m, k, At(s, k)) \in sent' /\ At(s, k).at \in Int
        BY <1>1, <2>1 DEF IsState
      <3>2. QED
        BY <3>1 DEF Published, Metric
    <2>2. CASE k \notin news
      <3>1. Cached(m.name, k) # Nil /\ ~ IsNews(At(s, k), Cached(m.name, k))
        BY <2>2 DEF ShouldSend
      <3>2. cache[m.name] # Nil /\ IsState(cache[m.name])
        BY <3>1 DEF Cached, Types
      <3>3. k \in Instances(cache[m.name]) /\ Cached(m.name, k) = At(cache[m.name], k)
        BY <3>1, <3>2 DEF Cached, Instances, At, IsState
      <3> DEFINE old == At(cache[m.name], k)
      <3>4. old.at \in Int /\ At(s, k).at \in Int
        BY <3>2, <3>3 DEF IsState
      <3>5. old.value = At(s, k).value /\ old.at >= At(s, k).at
        BY <3>1, <3>3, <3>4 DEF IsNews
      <3>6. Published(sent, m.name, k, old)
        BY <3>2, <3>3 DEF CacheInv
      <3> HIDE DEF old
      <3>7. QED
        BY <1>1, <3>4, <3>5, <3>6 DEF Published
    <2>3. QED
      BY <2>1, <2>2
  <1> HIDE DEF ks
  <1>5. CacheInv'
    <2>1. ASSUME NEW n \in Names, cache'[n] # Nil, NEW k \in Instances(cache'[n])
          PROVE  Published(sent', n, k, At(cache'[n], k))
      <3>1. CASE n = m.name
        BY <1>2, <1>4, <2>1, <3>1 DEF ks
      <3>2. CASE n # m.name
        <4>1. cache'[n] = cache[n]
          BY <1>2, <3>2
        <4>2. Published(sent, n, k, At(cache'[n], k))
          BY <2>1, <4>1 DEF CacheInv
        <4>3. QED
          BY <1>1, <4>2 DEF Published
      <3>3. QED
        BY <3>1, <3>2
    <2>2. QED
      BY <2>1 DEF CacheInv, Instances, At, Published
  <1>6. NoSampleLost'
    <2>1. ASSUME NEW h \in held'
          PROVE  \E x \in sent' : /\ x.name = h.name /\ x.instance = h.instance
                                  /\ x.value = h.value /\ x.at >= h.at
      <3>1. CASE h \in held
        BY <1>1, <3>1 DEF NoSampleLost
      <3>2. CASE h \notin held
        <4>1. PICK k \in ks : h = Metric(m, k, At(s, k))
          BY <1>1, <3>2
        <4>2. Published(sent', m.name, k, At(s, k))
          BY <1>4
        <4>3. QED
          BY <4>1, <4>2 DEF Published, Metric
      <3>3. QED
        BY <3>1, <3>2
    <2>2. QED
      BY <2>1 DEF NoSampleLost
  <1>7. QED
    BY <1>3, <1>5, <1>6

\* The states a turn delivers.
LEMMA TurnStates ==
    ASSUME Types, NEW i \in DOMAIN Monitors
    PROVE  /\ Monitors[i].name \in Names
           /\ \A ps \in Readings(Monitors[i].name) \cup {Placeholder} :
                IsState(Parsed(Monitors[i], ps))
           /\ Evaluated(Monitors[i]) # Nil => IsState(Evaluated(Monitors[i]))
  <1>1. Monitors[i].name \in Names
    BY DEF Names
  <1>2. \A ps \in Readings(Monitors[i].name) \cup {Placeholder} :
            ps \in Seq({Nil} \cup [at : Int \cup {Now}, value : Int])
    BY ReadingsAssumption, PlaceholderList
  <1>3. \A ps \in Readings(Monitors[i].name) \cup {Placeholder} :
            IsState(Parsed(Monitors[i], ps))
    BY <1>2, ParsedState
  <1>4. Len(Monitors[i].vars) \in Nat /\ DOMAIN Monitors[i].vars = 1 .. Len(Monitors[i].vars)
    BY MonitorsAssumption
  <1>5. Evaluated(Monitors[i]) # Nil => IsState(Evaluated(Monitors[i]))
    BY <1>4, EvaluatedState
  <1>6. QED
    BY <1>1, <1>3, <1>5

PublicationInv == Types /\ CacheInv /\ NoSampleLost

LEMMA PublicationFrame ==
    ASSUME PublicationInv, cycle' \in Nat, current' \in {current, cache},
           UNCHANGED <<cache, sent, held>>
    PROVE  PublicationInv'
  <1>1. Types'
    BY DEF PublicationInv, Types, IsState, Instances, At
  <1>2. CacheInv'
    BY DEF PublicationInv, CacheInv, Published, Instances, At
  <1>3. NoSampleLost'
    BY DEF PublicationInv, NoSampleLost
  <1>4. QED
    BY <1>1, <1>2, <1>3 DEF PublicationInv

LEMMA PublicationStep == PublicationInv /\ [Next]_vars => PublicationInv'
  <1> SUFFICES ASSUME PublicationInv, [Next]_vars PROVE PublicationInv'
    OBVIOUS
  <1>1. CASE StartCycle
    BY <1>1, PublicationFrame DEF StartCycle, PublicationInv, Types
  <1>2. CASE Answer
    <2>1. PICK ps \in Readings(Monitors[next].name) :
            Deliver(Monitors[next], Parsed(Monitors[next], ps))
      BY <1>2 DEF Answer
    <2>2. next \in DOMAIN Monitors /\ cycle' = cycle
      BY <1>2 DEF Answer, Turn
    <2>3. Monitors[next].name \in Names /\ IsState(Parsed(Monitors[next], ps))
      BY <2>2, TurnStates DEF PublicationInv
    <2>4. QED
      BY <2>1, <2>2, <2>3, DeliverStep DEF PublicationInv
  <1>3. CASE Fail
    <2>1. Deliver(Monitors[next], Parsed(Monitors[next], Placeholder))
      BY <1>3 DEF Fail
    <2>2. next \in DOMAIN Monitors /\ cycle' = cycle
      BY <1>3 DEF Fail, Turn
    <2>3. Monitors[next].name \in Names /\ IsState(Parsed(Monitors[next], Placeholder))
      BY <2>2, TurnStates DEF PublicationInv
    <2>4. QED
      BY <2>1, <2>2, <2>3, DeliverStep DEF PublicationInv
  <1>4. CASE Skip
    BY <1>4, PublicationFrame DEF Skip, Turn, history, PublicationInv, Types
  <1>5. CASE Compute
    <2>1. next \in DOMAIN Monitors /\ cycle' = cycle
      BY <1>5 DEF Compute, Turn
    <2>2. CASE Evaluated(Monitors[next]) = Nil
      BY <1>5, <2>1, <2>2, PublicationFrame DEF Compute, history, PublicationInv, Types
    <2>3. CASE Evaluated(Monitors[next]) # Nil
      <3>1. Deliver(Monitors[next], Evaluated(Monitors[next]))
        BY <1>5, <2>3 DEF Compute
      <3>2. Monitors[next].name \in Names /\ IsState(Evaluated(Monitors[next]))
        BY <2>1, <2>3, TurnStates DEF PublicationInv
      <3>3. QED
        BY <2>1, <3>1, <3>2, DeliverStep DEF PublicationInv
    <2>4. QED
      BY <2>2, <2>3
  <1>6. CASE UNCHANGED vars
    BY <1>6, PublicationFrame DEF vars, history, PublicationInv, Types
  <1>7. QED
    BY <1>1, <1>2, <1>3, <1>4, <1>5, <1>6 DEF Next

LEMMA PublicationInit == Init => PublicationInv
  BY DEF Init, PublicationInv, Types, CacheInv, NoSampleLost

\* A sample is withheld (outputMetrics) only if its instance's value was
\* published already with a time at least as late, for lists of any lengths,
\* holes anywhere, and any number of cycles.
THEOREM SamplesPublished == Spec => []NoSampleLost
  <1>1. PublicationInv => NoSampleLost
    BY DEF PublicationInv
  <1>2. QED
    BY <1>1, PublicationInit, PublicationStep, PTL DEF Spec

-----------------------------------------------------------------------------
(* Alignment.  It needs two things of the configuration: monitors have     *)
(* different names, and the variables of an op are monitors before it that *)
(* are no ops themselves.  (An op before its variable is computed from the *)
(* value of the cycle before; an op over ops is computed from samples of   *)
(* other names than its variables.)                                        *)

DistinctMonitors ==
    \A i, j \in DOMAIN Monitors : Monitors[i].name = Monitors[j].name => i = j

OpsLast ==
    \A i \in DOMAIN Monitors : \A n \in Range(Monitors[i].vars) \cap Names :
        \E j \in DOMAIN Monitors :
            j < i /\ Monitors[j].name = n /\ Monitors[j].kind # "op"

MeasuredNames == {Monitors[j].name : j \in {i \in DOMAIN Monitors : Monitors[i].kind # "op"}}

\* A measured value is one sample, of its monitor and instance, and of this
\* cycle if it was delivered in it.
OwnSample(n, k, v, delivered, now) ==
    \E c \in Nat : /\ v.from = {[name |-> n, index |-> k, cycle |-> c]}
                   /\ n \in delivered => c = now

SamplesInv ==
    \A n \in MeasuredNames : current[n] # Nil =>
        \A k \in Instances(current[n]) :
            OwnSample(n, k, At(current[n], k), fresh, cycle)

\* What was delivered had its turn.
TurnsInv ==
    /\ next \in Nat
    /\ \A n \in fresh : \E j \in DOMAIN Monitors : j < next /\ Monitors[j].name = n

\* OpAligned of one value of an op, and of a state.
AlignedValue(deps, k, v, delivered, now) ==
    /\ {o.name : o \in v.from} = deps
    /\ \A o \in v.from : o.index \in {0, k}
    /\ deps \subseteq delivered => \A o \in v.from : o.cycle = now

Aligned(deps, s, delivered, now) ==
    \A k \in Instances(s) : AlignedValue(deps, k, At(s, k), delivered, now)

AlignedInv ==
    \A n \in fresh : Deps(n) # {} => Aligned(Deps(n), current[n], fresh, cycle)

LEMMA AlignedMeans == AlignedInv => OpAligned
  BY DEF AlignedInv, OpAligned, Aligned, AlignedValue

LEMMA DepsOfMonitor ==
    ASSUME DistinctMonitors, NEW i \in DOMAIN Monitors
    PROVE  /\ Deps(Monitors[i].name) = Range(Monitors[i].vars)
           /\ Monitors[i].name \in MeasuredNames <=> Monitors[i].kind # "op"
           /\ Monitors[i].kind # "op" => Deps(Monitors[i].name) = {}
  <1>1. {j \in DOMAIN Monitors : Monitors[j].name = Monitors[i].name} = {i}
    BY DEF DistinctMonitors
  <1>2. Deps(Monitors[i].name) = Range(Monitors[i].vars)
    BY <1>1 DEF Deps
  <1>3. Monitors[i].name \in MeasuredNames <=> Monitors[i].kind # "op"
    BY DEF DistinctMonitors, MeasuredNames
  <1>4. Range(<<>>) = {}
    BY DEF Range
  <1>5. QED
    BY <1>2, <1>3, <1>4, MonitorsAssumption

\* The value of a list is the sample of its own index, of this cycle.
LEMMA ParsedSamples ==
    ASSUME Types, NEW m, NEW ps, Len(ps) \in Nat, DOMAIN ps = 1 .. Len(ps), NEW delivered,
           NEW k \in Instances(Parsed(m, ps))
    PROVE  OwnSample(m.name, k, At(Parsed(m, ps), k), delivered, cycle)
  <1>1. CASE m.kind = "scalar"
    BY <1>1 DEF Parsed, Scalar, Instances, At, OwnSample, Types
  <1>2. CASE m.kind # "scalar"
    <2> DEFINE cs == [i \in DOMAIN ps |-> Child(m, i, ps[i])]
    <2>1. Parsed(m, ps) = Vector(cs, Total(m, cs))
      BY <1>2 DEF Parsed
    <2>2. Len(cs) = Len(ps) /\ DOMAIN cs = 1 .. Len(ps)
      OBVIOUS
    <2>3. k \in DOMAIN ps /\ cs[k] # Nil /\ At(Parsed(m, ps), k) = cs[k]
      <3> HIDE DEF cs
      <3>1. QED
        BY <2>1, <2>2 DEF Vector, Instances, At
    <2>4. cs[k] = Child(m, k, ps[k]) /\ ps[k] # Nil
      BY <2>3 DEF Child
    <2> HIDE DEF cs
    <2>5. cs[k].from = {[name |-> m.name, index |-> k, cycle |-> cycle]}
      BY <2>4 DEF Child
    <2>6. QED
      BY <2>3, <2>5 DEF OwnSample, Types
  <1>3. QED
    BY <1>1, <1>2

\* The inputs of an op are samples of its variables, scalars or of its index.
LEMMA EvaluatedAligned ==
    ASSUME Types, SamplesInv, OpsLast, NEW i \in DOMAIN Monitors,
           NEW e, e = Evaluated(Monitors[i]), e # Nil
    PROVE  /\ Range(Monitors[i].vars) \subseteq Names
           /\ Aligned(Range(Monitors[i].vars), e, fresh, cycle)
  <1> DEFINE m == Monitors[i]
  <1>1. Range(m.vars) \subseteq Names
    BY DEF Evaluated
  <1>2. ASSUME NEW k \in Instances(e)
        PROVE  AlignedValue(Range(m.vars), k, At(e, k), fresh, cycle)
    <2>1. OpInputs(m, k) /\ \E t \in {cycle, ItemTime(m, k)} : At(e, k) = Result(m, k, t)
      <3>1. Len(m.vars) \in Nat /\ DOMAIN m.vars = 1 .. Len(m.vars)
        BY MonitorsAssumption
      <3>2. QED
        BY <3>1, OpResult
    <2>2. At(e, k).from = UNION {Input(n, k).from : n \in Range(m.vars)}
      BY <2>1 DEF Result
    <2>3. ASSUME NEW n \in Range(m.vars)
          PROVE  \E j \in {0, k} : OwnSample(n, j, Input(n, k), fresh, cycle)
      <3>1. n \in Names /\ current[n] # Nil /\ Input(n, k) # Nil
            /\ (current[n].children # <<>> => k \in DOMAIN current[n].children)
        BY <2>1 DEF OpInputs, Complete
      <3>2. IsState(current[n])
        BY <3>1 DEF Types
      <3>3. PICK j \in {0, k} : j \in Instances(current[n]) /\ Input(n, k) = At(current[n], j)
        BY <3>1, <3>2, InputFound
      <3>4. n \in MeasuredNames
        BY <2>3, <3>1 DEF OpsLast, MeasuredNames
      <3>5. QED
        BY <3>1, <3>3, <3>4 DEF SamplesInv
    <2>4. \A n \in Range(m.vars) : \E j \in {0, k}, c \in Nat :
            /\ Input(n, k).from = {[name |-> n, index |-> j, cycle |-> c]}
            /\ n \in fresh => c = cycle
      BY <2>3 DEF OwnSample
    <2>5. \A o \in At(e, k).from :
            /\ o.name \in Range(m.vars) /\ o.index \in {0, k}
            /\ o.name \in fresh => o.cycle = cycle
      <3>1. ASSUME NEW n \in Range(m.vars), NEW o \in Input(n, k).from
            PROVE  o.name = n /\ o.index \in {0, k} /\ (n \in fresh => o.cycle = cycle)
        BY <2>4
      <3>2. QED
        BY <2>2, <3>1
    <2>6. \A n \in Range(m.vars) : \E o \in At(e, k).from : o.name = n
      <3>1. ASSUME NEW n \in Range(m.vars)
            PROVE  \E o \in Input(n, k).from : o.name = n
        <4>1. PICK j \in {0, k}, c \in Nat :
                Input(n, k).from = {[name |-> n, index |-> j, cycle |-> c]}
          BY <2>4
        <4>2. QED
          BY <4>1
      <3>2. QED
        BY <2>2, <3>1
    <2> HIDE DEF m
    <2>7. QED
      BY <2>5, <2>6 DEF AlignedValue
  <1>3. QED
    BY <1>1, <1>2 DEF Aligned

\* A turn that delivers disturbs no op delivered before it: its monitor is no
\* variable of theirs.
LEMMA TurnKeeps ==
    ASSUME DistinctMonitors, OpsLast, TurnsInv, next \in DOMAIN Monitors,
           NEW n \in fresh
    PROVE  n # Monitors[next].name /\ Monitors[next].name \notin Deps(n)
  <1>1. PICK j \in DOMAIN Monitors : j < next /\ Monitors[j].name = n
    BY DEF TurnsInv
  <1>2. n # Monitors[next].name
    BY <1>1 DEF DistinctMonitors, TurnsInv
  <1>3. ASSUME Monitors[next].name \in Deps(n) PROVE FALSE
    <2>1. Monitors[next].name \in Range(Monitors[j].vars) \cap Names
      BY <1>1, <1>3, DepsOfMonitor DEF Names
    <2>2. PICK l \in DOMAIN Monitors : l < j /\ Monitors[l].name = Monitors[next].name
      BY <2>1 DEF OpsLast
    <2>3. l = next
      BY <2>2 DEF DistinctMonitors
    <2>4. QED
      BY <1>1, <2>2, <2>3, MonitorsAssumption
  <1>4. QED
    BY <1>2, <1>3

SourcesInv == SamplesInv /\ TurnsInv /\ AlignedInv

LEMMA TurnAligned ==
    ASSUME Types, SourcesInv, DistinctMonitors, OpsLast, next \in DOMAIN Monitors,
           next' = next + 1, cycle' = cycle, NEW s,
           current' = [current EXCEPT ![Monitors[next].name] = s],
           fresh' = fresh \cup {Monitors[next].name},
           Monitors[next].kind # "op" =>
               \A k \in Instances(s) :
                   OwnSample(Monitors[next].name, k, At(s, k), fresh', cycle),
           Monitors[next].kind = "op" => s = Evaluated(Monitors[next]) /\ s # Nil
    PROVE  SourcesInv'
  <1> DEFINE name == Monitors[next].name
  <1>1. \A n \in Names : current'[n] = IF n = name THEN s ELSE current[n]
    BY DEF Types
  <1>2. name \in Names /\ MeasuredNames \subseteq Names
    BY DEF Names, MeasuredNames
  <1>3. TurnsInv'
    <2>1. next \in Nat /\ next' \in Nat /\ next < next'
      BY DEF SourcesInv, TurnsInv
    <2>2. ASSUME NEW n \in fresh' PROVE \E j \in DOMAIN Monitors : j < next' /\ Monitors[j].name = n
      BY <2>1, <2>2, MonitorsAssumption DEF SourcesInv, TurnsInv
    <2>3. QED
      BY <2>1, <2>2 DEF TurnsInv
  <1>4. SamplesInv'
    <2>1. ASSUME NEW n \in MeasuredNames, current'[n] # Nil, NEW k \in Instances(current'[n])
          PROVE  OwnSample(n, k, At(current'[n], k), fresh', cycle')
      <3>1. CASE n = name
        <4>1. Monitors[next].kind # "op"
          BY <2>1, <3>1, DepsOfMonitor
        <4>2. QED
          BY <1>1, <1>2, <2>1, <3>1, <4>1
      <3>2. CASE n # name
        <4>1. current'[n] = current[n] /\ (n \in fresh' <=> n \in fresh)
          BY <1>1, <1>2, <2>1, <3>2
        <4>2. OwnSample(n, k, At(current'[n], k), fresh, cycle)
          BY <2>1, <4>1 DEF SourcesInv, SamplesInv
        <4>3. QED
          BY <4>1, <4>2 DEF OwnSample
      <3>3. QED
        BY <3>1, <3>2
    <2>2. QED
      BY <2>1 DEF SamplesInv, Instances, At, OwnSample, MeasuredNames
  <1>5. ASSUME NEW n \in fresh', Deps(n) # {}
        PROVE  Aligned(Deps(n), current'[n], fresh', cycle')
    <2>1. CASE n = name
      <3>1. Monitors[next].kind = "op" /\ Deps(n) = Range(Monitors[next].vars)
        BY <1>5, <2>1, DepsOfMonitor
      <3>2. Deps(n) \subseteq Names /\ Aligned(Deps(n), s, fresh, cycle)
        BY <3>1, EvaluatedAligned DEF SourcesInv
      <3>3. name \notin Deps(n)
        BY <1>2, <3>1, MonitorsAssumption DEF OpsLast, DistinctMonitors
      <3>4. current'[n] = s
        BY <1>1, <1>2, <2>1
      <3>5. QED
        BY <3>2, <3>3, <3>4 DEF Aligned, AlignedValue
    <2>2. CASE n # name
      <3>1. n \in fresh /\ name \notin Deps(n)
        BY <2>2, TurnKeeps DEF SourcesInv
      <3>2. n \in Names
        BY <3>1 DEF SourcesInv, TurnsInv, Names
      <3>3. current'[n] = current[n]
        BY <1>1, <2>2, <3>2
      <3>4. Aligned(Deps(n), current[n], fresh, cycle)
        BY <1>5, <3>1 DEF SourcesInv, AlignedInv
      <3>5. QED
        BY <3>1, <3>3, <3>4 DEF Aligned, AlignedValue
    <2>3. QED
      BY <2>1, <2>2
  <1>6. AlignedInv'
    BY <1>5 DEF AlignedInv, Aligned, AlignedValue, Instances, At, Deps
  <1>7. QED
    BY <1>3, <1>4, <1>6 DEF SourcesInv

LEMMA SourcesInit == Init => SourcesInv
  <1> SUFFICES ASSUME Init PROVE SourcesInv
    OBVIOUS
  <1>1. SamplesInv
    BY DEF Init, SamplesInv, MeasuredNames, Names
  <1>2. TurnsInv /\ AlignedInv
    BY MonitorsAssumption DEF Init, TurnsInv, AlignedInv
  <1>3. QED
    BY <1>1, <1>2 DEF SourcesInv

\* A step that delivers nothing, within a cycle.
LEMMA SourcesFrame ==
    ASSUME SourcesInv, next' \in {next, next + 1}, UNCHANGED <<cycle, current, fresh>>
    PROVE  SourcesInv'
  <1>1. TurnsInv'
    <2>1. next \in Nat /\ next' \in Nat /\ next <= next'
      BY DEF SourcesInv, TurnsInv
    <2>2. QED
      BY <2>1, MonitorsAssumption DEF SourcesInv, TurnsInv
  <1>2. SamplesInv'
    BY DEF SourcesInv, SamplesInv, OwnSample, Instances, At, MeasuredNames
  <1>3. AlignedInv'
    BY DEF SourcesInv, AlignedInv
  <1>4. QED
    BY <1>1, <1>2, <1>3 DEF SourcesInv

LEMMA SourcesStep ==
    ASSUME DistinctMonitors, OpsLast
    PROVE  Types /\ SourcesInv /\ [Next]_vars => SourcesInv'
  <1> SUFFICES ASSUME Types, SourcesInv, [Next]_vars PROVE SourcesInv'
    OBVIOUS
  <1> DEFINE m == Monitors[next]
  <1>1. CASE StartCycle
    <2>1. fresh' = {} /\ next' = 1 /\ current' = current
      BY <1>1 DEF StartCycle, Types
    <2>2. TurnsInv' /\ AlignedInv'
      BY <2>1 DEF TurnsInv, AlignedInv
    <2>3. SamplesInv'
      BY <2>1 DEF SourcesInv, SamplesInv, OwnSample, Instances, At, MeasuredNames
    <2>4. QED
      BY <2>2, <2>3 DEF SourcesInv
  <1>2. ASSUME Turn({"scalar", "vector"}),
               NEW ps \in Readings(m.name) \cup {Placeholder}, Deliver(m, Parsed(m, ps)),
               fresh' = fresh \cup {m.name}
        PROVE  SourcesInv'
    <2>1. next \in DOMAIN Monitors /\ m.kind # "op" /\ next' = next + 1 /\ cycle' = cycle
      BY <1>2 DEF Turn
    <2>2. ps \in Seq({Nil} \cup [at : Int \cup {Now}, value : Int])
      BY <1>2, <2>1, ReadingsAssumption, PlaceholderList
    <2>3. Len(ps) \in Nat /\ DOMAIN ps = 1 .. Len(ps)
      BY <2>2
    <2>4. \A k \in Instances(Parsed(m, ps)) :
            OwnSample(m.name, k, At(Parsed(m, ps), k), fresh', cycle)
      BY <2>3, ParsedSamples
    <2>5. current' = [current EXCEPT ![m.name] = Parsed(m, ps)]
      BY <1>2 DEF Deliver
    <2>6. QED
      BY <1>2, <2>1, <2>4, <2>5, TurnAligned
  <1>3. CASE Answer
    BY <1>2, <1>3 DEF Answer
  <1>4. CASE Fail
    BY <1>2, <1>4 DEF Fail
  <1>5. CASE Skip
    BY <1>5, SourcesFrame DEF Skip, Turn, history
  <1>6. CASE Compute
    <2>1. next \in DOMAIN Monitors /\ m.kind = "op" /\ next' = next + 1 /\ cycle' = cycle
      BY <1>6 DEF Compute, Turn
    <2>2. CASE Evaluated(m) = Nil
      BY <1>6, <2>1, <2>2, SourcesFrame DEF Compute, history
    <2>3. CASE Evaluated(m) # Nil
      <3>1. current' = [current EXCEPT ![m.name] = Evaluated(m)]
            /\ fresh' = fresh \cup {m.name}
        BY <1>6, <2>3 DEF Compute, Deliver
      <3>2. QED
        BY <2>1, <2>3, <3>1, TurnAligned
    <2>4. QED
      BY <2>2, <2>3
  <1>7. CASE UNCHANGED vars
    BY <1>7, SourcesFrame DEF vars, history
  <1>8. QED
    BY <1>1, <1>3, <1>4, <1>5, <1>6, <1>7 DEF Next

\* The element of an op's vector is computed from the samples of its own
\* index, all of this cycle if every variable was delivered in it
\* (processOpMonitor), whatever the lists, their holes and the failures.
THEOREM OpsAligned ==
    ASSUME DistinctMonitors, OpsLast
    PROVE  Spec => []OpAligned
  <1> DEFINE Inv == PublicationInv /\ SourcesInv
  <1>1. Init => Inv
    BY PublicationInit, SourcesInit
  <1>2. Inv /\ [Next]_vars => Inv'
    BY PublicationStep, SourcesStep DEF PublicationInv
  <1>3. Inv => OpAligned
    BY AlignedMeans DEF SourcesInv
  <1> HIDE DEF Inv
  <1>4. QED
    BY <1>1, <1>2, <1>3, PTL DEF Spec

-----------------------------------------------------------------------------
(* Sums and means.  What is defined by recursion over a list is reasoned   *)
(* about with the least place at which it would fail.                      *)

IsList(cs) ==
    /\ Len(cs) \in Nat /\ DOMAIN cs = 1 .. Len(cs)
    /\ \A k \in Valid(cs) : cs[k].value \in Int

Addend(cs, k) == IF k \in Valid(cs) THEN cs[k].value ELSE 0

\* f holds the sums of the first parts, up to the first n.
SumsTo(cs, f, n) ==
    /\ f \in [0 .. n -> Int] /\ f[0] = 0
    /\ \A k \in 1 .. n : f[k] = f[k - 1] + Addend(cs, k)

\* There are such sums, since there is no least number they fail for.
LEMMA SumsExist ==
    ASSUME NEW cs, IsList(cs), NEW n \in 0 .. Len(cs)
    PROVE  \E f : SumsTo(cs, f, n)
  <1> DEFINE S == {k \in 1 .. n : ~ \E f : SumsTo(cs, f, k)}
  <1>1. n \in Nat /\ S \in SUBSET (1 .. n)
    BY DEF IsList
  <1>2. SumsTo(cs, [k \in 0 .. 0 |-> 0], 0)
    BY DEF SumsTo
  <1>3. CASE S # {}
    <2>1. PICK i \in S : \A j \in S : i <= j
      BY <1>1, <1>3, LeastPosition
    <2>2. i \in 1 .. n /\ i - 1 \in 0 .. n /\ i - 1 \notin S
      BY <1>1, <2>1
    <2>3. PICK f : SumsTo(cs, f, i - 1)
      BY <1>2, <2>2
    <2> DEFINE g == [k \in 0 .. i |-> IF k = i THEN f[i - 1] + Addend(cs, i) ELSE f[k]]
    <2>4. Addend(cs, i) \in Int
      BY DEF Addend, IsList
    <2>5. f \in [0 .. (i - 1) -> Int] /\ f[0] = 0
          /\ \A k \in 1 .. (i - 1) : f[k] = f[k - 1] + Addend(cs, k)
      BY <2>3 DEF SumsTo
    <2>6. g \in [0 .. i -> Int] /\ g[0] = 0
      BY <2>2, <2>4, <2>5
    <2>7. \A k \in 1 .. i : g[k] = g[k - 1] + Addend(cs, k)
      BY <2>2, <2>5
    <2> HIDE DEF g
    <2>8. SumsTo(cs, g, i)
      BY <2>6, <2>7 DEF SumsTo
    <2>9. QED
      BY <2>1, <2>8
  <1>4. CASE S = {}
    <2>1. CASE n = 0
      BY <1>2, <2>1
    <2>2. CASE n # 0
      BY <1>1, <1>4, <2>2
    <2>3. QED
      BY <2>1, <2>2
  <1>5. QED
    BY <1>3, <1>4

\* Sum is the last of the sums.
LEMMA SumIsLast ==
    ASSUME NEW cs, IsList(cs)
    PROVE  \E f : SumsTo(cs, f, Len(cs)) /\ Sum(cs) = f[Len(cs)]
  <1> DEFINE Body(f) == [k \in 0 .. Len(cs) |->
                            IF k = 0 THEN 0
                            ELSE f[k - 1] + (IF k \in Valid(cs) THEN cs[k].value ELSE 0)]
             upTo == CHOOSE f : f = Body(f)
  <1>1. PICK f : SumsTo(cs, f, Len(cs))
    BY SumsExist DEF IsList
  <1>2. f = Body(f)
    BY <1>1 DEF SumsTo, Addend, IsList
  <1>3. upTo = Body(upTo)
    <2> HIDE DEF Body
    <2>1. QED
      BY <1>2
  <1>4. Sum(cs) = upTo[Len(cs)]
    BY DEF Sum
  <1> HIDE DEF upTo
  <1>5. ASSUME NEW g, g = Body(g), NEW n \in 0 .. Len(cs) PROVE g[n] = f[n]
    <2> DEFINE S == {k \in 1 .. Len(cs) : g[k] # f[k]}
    <2>1. CASE S # {}
      <3>1. PICK i \in S : \A j \in S : i <= j
        BY <2>1, LeastPosition DEF IsList
      <3>2. i \in 1 .. Len(cs) /\ Len(cs) \in Nat /\ i - 1 \notin S
        BY <3>1 DEF IsList
      <3>3. g[i - 1] = f[i - 1]
        BY <1>2, <1>5, <3>2
      <3>4. QED
        BY <1>2, <1>5, <3>2, <3>3, <3>1
    <2>2. CASE S = {}
      <3>1. CASE n = 0
        <4>1. Body(f)[0] = 0 /\ Body(g)[0] = 0
          BY DEF IsList
        <4>2. QED
          BY <1>2, <1>5, <3>1, <4>1
      <3>2. CASE n # 0
        <4>1. n \in 1 .. Len(cs)
          BY <1>5, <3>2 DEF IsList
        <4>2. n \notin S
          BY <2>2
        <4>3. QED
          BY <4>1, <4>2
      <3>3. QED
        BY <3>1, <3>2
    <2>3. QED
      BY <2>1, <2>2
  <1>6. Sum(cs) = f[Len(cs)]
    BY <1>3, <1>4, <1>5 DEF IsList
  <1>7. QED
    BY <1>1, <1>6

\* Integers at a non-empty bounded set of places have a smallest.
LEMMA SmallestValue ==
    ASSUME NEW n \in Nat, NEW K \in SUBSET (1 .. n), K # {}, NEW w \in [K -> Int]
    PROVE  \E lo \in K : \A j \in K : w[lo] <= w[j]
  <1> DEFINE Up(k) == K \cap 1 .. k
             Lowest(k, lo) == lo \in Up(k) /\ \A j \in Up(k) : w[lo] <= w[j]
             S == {k \in 1 .. n : Up(k) # {} /\ ~ \E lo : Lowest(k, lo)}
  <1>1. CASE S # {}
    <2>1. PICK i \in S : \A j \in S : i <= j
      BY <1>1, LeastPosition
    <2>2. i \in 1 .. n /\ Up(i) # {}
      BY <2>1
    <2>3. Up(i) = Up(i - 1) \cup (K \cap {i})
      BY <2>2
    <2>4. CASE Up(i - 1) = {}
      <3>1. Lowest(i, i)
        BY <2>2, <2>3, <2>4
      <3>2. QED
        BY <2>1, <3>1
    <2>5. CASE Up(i - 1) # {}
      <3>1. i - 1 \in 1 .. n /\ i - 1 \notin S
        BY <2>1, <2>2, <2>5
      <3>2. PICK lo : Lowest(i - 1, lo)
        BY <2>5, <3>1
      <3>3. CASE i \in K /\ w[i] < w[lo]
        <4>1. Lowest(i, i)
          BY <2>2, <2>3, <3>2, <3>3
        <4>2. QED
          BY <2>1, <4>1
      <3>4. CASE ~ (i \in K /\ w[i] < w[lo])
        <4>1. Lowest(i, lo)
          BY <2>2, <2>3, <3>2, <3>4
        <4>2. QED
          BY <2>1, <4>1
      <3>5. QED
        BY <3>3, <3>4
    <2>6. QED
      BY <2>4, <2>5
  <1>2. CASE S = {}
    <2>1. Up(n) = K
      OBVIOUS
    <2>2. n # 0
      <3>1. PICK k \in K : k \in 1 .. n
        OBVIOUS
      <3>2. QED
        BY <3>1
    <2>3. n \in 1 .. n
      BY <2>2
    <2>4. PICK lo : Lowest(n, lo)
      BY <1>2, <2>1, <2>3
    <2>5. QED
      BY <2>1, <2>4
  <1>3. QED
    BY <1>1, <1>2

LEMMA Distributes == \A a \in Int, c \in Nat : a * (c + 1) = a * c + a /\ a * 0 = 0
  OBVIOUS

\* The sum of a list lies between as many times a lower and an upper bound of
\* its values as there are values.
LEMMA SumBounds ==
    ASSUME NEW cs, IsList(cs), NEW a \in Int, NEW b \in Int,
           \A k \in Valid(cs) : a <= cs[k].value /\ cs[k].value <= b
    PROVE  /\ Counted(cs) \in Nat /\ Sum(cs) \in Int
           /\ a * Counted(cs) <= Sum(cs) /\ Sum(cs) <= b * Counted(cs)
  <1> DEFINE Up(n) == Valid(cs) \cap 1 .. n
             Within(f, n) == a * Cardinality(Up(n)) <= f[n] /\ f[n] <= b * Cardinality(Up(n))
  <1>1. PICK f : SumsTo(cs, f, Len(cs)) /\ Sum(cs) = f[Len(cs)]
    BY SumIsLast
  <1>2. Len(cs) \in Nat /\ Valid(cs) = Up(Len(cs))
    BY DEF IsList, Valid
  <1>3. ASSUME NEW n \in 0 .. Len(cs)
        PROVE  IsFiniteSet(Up(n)) /\ Cardinality(Up(n)) \in Nat /\ f[n] \in Int
    <2>1. IsFiniteSet(1 .. n) /\ Up(n) \in SUBSET (1 .. n)
      BY <1>2, FS_Interval
    <2>2. IsFiniteSet(Up(n))
      BY <2>1, FS_Subset
    <2>3. QED
      BY <1>1, <2>2, FS_CardinalityType DEF SumsTo
  <1>4. Within(f, 0)
    <2>1. Up(0) = {}
      OBVIOUS
    <2>2. f[0] = 0 /\ Cardinality(Up(0)) = 0
      BY <1>1, <2>1, FS_EmptySet DEF SumsTo
    <2>3. QED
      BY <2>2
  <1>5. ASSUME NEW n \in 1 .. Len(cs), Within(f, n - 1) PROVE Within(f, n)
    <2> DEFINE c == Cardinality(Up(n - 1))
    <2>1. n - 1 \in 0 .. Len(cs) /\ n \in 0 .. Len(cs) /\ n \notin Up(n - 1)
      BY <1>2
    <2>2. c \in Nat /\ f[n - 1] \in Int /\ f[n] = f[n - 1] + Addend(cs, n)
      BY <1>1, <1>3, <2>1 DEF SumsTo
    <2>3. CASE n \in Valid(cs)
      <3>1. Up(n) = Up(n - 1) \cup {n}
        BY <1>2, <2>3
      <3>2. Cardinality(Up(n)) = c + 1
        <4>1. IsFiniteSet(Up(n - 1))
          BY <1>3, <2>1
        <4> HIDE DEF Up
        <4>2. QED
          BY <2>1, <3>1, <4>1, FS_AddElement
      <3>3. Addend(cs, n) = cs[n].value /\ cs[n].value \in Int
        BY <2>3 DEF Addend, IsList
      <3>4. a * Cardinality(Up(n)) = a * c + a /\ b * Cardinality(Up(n)) = b * c + b
        <4> HIDE DEF c
        <4>1. QED
          BY <2>2, <3>2, Distributes
      <3>5. a <= cs[n].value /\ cs[n].value <= b /\ a * c \in Int /\ b * c \in Int
        BY <2>2, <2>3
      <3>6. a * c <= f[n - 1] /\ f[n - 1] <= b * c
        BY <1>5
      <3> HIDE DEF c, Up
      <3>7. QED
        BY <2>2, <3>3, <3>4, <3>5, <3>6
    <2>4. CASE n \notin Valid(cs)
      <3>1. Up(n) = Up(n - 1) /\ Addend(cs, n) = 0
        BY <1>2, <2>4 DEF Addend
      <3>2. f[n] = f[n - 1]
        BY <2>2, <3>1
      <3>3. QED
        BY <1>5, <3>1, <3>2
    <2>5. QED
      BY <2>3, <2>4
  <1>6. Within(f, Len(cs))
    <2> HIDE DEF Within
    <2> DEFINE S == {n \in 1 .. Len(cs) : ~ Within(f, n)}
    <2>1. CASE S # {}
      <3>1. PICK i \in S : \A j \in S : i <= j
        BY <1>2, <2>1, LeastPosition
      <3>2. i \in 1 .. Len(cs) /\ (i = 1 \/ i - 1 \in 1 .. Len(cs)) /\ i - 1 \notin S
        BY <1>2, <3>1
      <3>3. Within(f, i - 1)
        BY <1>4, <3>2
      <3>4. QED
        BY <1>5, <3>1, <3>2, <3>3
    <2>2. CASE S = {}
      BY <1>2, <1>4, <2>2
    <2>3. QED
      BY <2>1, <2>2
  <1>7. QED
    <2>1. Len(cs) \in 0 .. Len(cs)
      BY <1>2
    <2>2. Counted(cs) = Cardinality(Up(Len(cs)))
      <3> HIDE DEF Up
      <3>1. QED
        BY <1>2 DEF Counted
    <2>3. Counted(cs) \in Nat /\ f[Len(cs)] \in Int
      BY <1>3, <2>1, <2>2
    <2>4. a * Counted(cs) <= f[Len(cs)] /\ f[Len(cs)] <= b * Counted(cs)
      BY <1>6, <2>2
    <2>5. QED
      BY <1>1, <2>3, <2>4

\* A sum of values lies between the count times the smallest and the count
\* times the largest of them.
LEMMA MeanBetween ==
    ASSUME NEW cs, IsList(cs), Counted(cs) # 0
    PROVE  \E lo, hi \in Valid(cs) :
            /\ cs[lo].value * Counted(cs) <= Sum(cs)
            /\ Sum(cs) <= cs[hi].value * Counted(cs)
  <1>1. Len(cs) \in Nat /\ Valid(cs) \in SUBSET (1 .. Len(cs))
    BY DEF IsList, Valid
  <1>2. Valid(cs) # {}
    BY FS_EmptySet DEF Counted
  <1>3. PICK lo \in Valid(cs) : \A j \in Valid(cs) : cs[lo].value <= cs[j].value
    <2> DEFINE w == [k \in Valid(cs) |-> cs[k].value]
    <2>1. w \in [Valid(cs) -> Int]
      BY DEF IsList
    <2> HIDE DEF w
    <2>2. \E lo \in Valid(cs) : \A j \in Valid(cs) : w[lo] <= w[j]
      BY <1>1, <1>2, <2>1, SmallestValue
    <2>3. QED
      BY <2>2 DEF w
  <1>4. PICK hi \in Valid(cs) : \A j \in Valid(cs) : cs[j].value <= cs[hi].value
    <2> DEFINE w == [k \in Valid(cs) |-> - cs[k].value]
    <2>1. w \in [Valid(cs) -> Int]
      BY DEF IsList
    <2> HIDE DEF w
    <2>2. PICK hi \in Valid(cs) : \A j \in Valid(cs) : w[hi] <= w[j]
      BY <1>1, <1>2, <2>1, SmallestValue
    <2>3. QED
      BY <2>2 DEF w, IsList
  <1>5. cs[lo].value \in Int /\ cs[hi].value \in Int
    BY DEF IsList
  <1>6. QED
    BY <1>3, <1>4, <1>5, SumBounds

\* The results of the ops are integers or not finite, over integers.
IntegerResults ==
    \A i \in DOMAIN Monitors : Monitors[i].kind = "op" =>
        \A v \in [Range(Monitors[i].vars) -> Int] : Expression(v) \in Int \cup {NaN}

\* A state of monitor m has integer values, and a mean within them.
GoodState(m, s) ==
    /\ \A k \in Instances(s) : At(s, k).value \in Int
    /\ m.total = "mean" /\ s.total # Nil =>
        \E lo, hi \in Valid(s.children) :
            /\ s.children[lo].value * s.total.over <= s.total.sum
            /\ s.total.sum <= s.children[hi].value * s.total.over

MeanInv ==
    \A i \in DOMAIN Monitors : current[Monitors[i].name] # Nil =>
        GoodState(Monitors[i], current[Monitors[i].name])

LEMMA GoodTotal ==
    ASSUME NEW m, NEW s, Len(s.children) \in Nat, DOMAIN s.children = 1 .. Len(s.children),
           \A k \in Instances(s) : At(s, k).value \in Int,
           s.total # Nil => s.total = Total(m, s.children)
    PROVE  GoodState(m, s)
  <1> DEFINE cs == s.children
  <1>1. IsList(cs)
    <2>1. \A k \in Valid(cs) : k \in Instances(s) /\ At(s, k) = cs[k]
      BY DEF Valid, Instances, At
    <2>2. QED
      BY <2>1 DEF IsList
  <1>2. ASSUME m.total = "mean", s.total # Nil
        PROVE  \E lo, hi \in Valid(cs) : /\ cs[lo].value * s.total.over <= s.total.sum
                                        /\ s.total.sum <= cs[hi].value * s.total.over
    <2>1. Counted(cs) # 0 /\ s.total.sum = Sum(cs) /\ s.total.over = Counted(cs)
      BY <1>2 DEF Total
    <2> HIDE DEF cs
    <2>2. QED
      BY <1>1, <2>1, MeanBetween
  <1>3. QED
    BY <1>2 DEF GoodState

LEMMA ParsedGood ==
    ASSUME Types, NEW i \in DOMAIN Monitors,
           NEW ps \in Readings(Monitors[i].name) \cup {Placeholder}
    PROVE  GoodState(Monitors[i], Parsed(Monitors[i], ps))
  <1> DEFINE m == Monitors[i]
  <1>1. ps \in Seq({Nil} \cup [at : Int \cup {Now}, value : Int]) /\ ps # <<>>
        /\ (m.kind = "scalar" => ps[1] # Nil \/ ps = Placeholder)
    <2>1. CASE ps = Placeholder
      BY <2>1, PlaceholderList DEF Placeholder
    <2>2. CASE ps \in Readings(m.name)
      BY <2>2, ReadingsAssumption
    <2>3. QED
      BY <2>1, <2>2
  <1>2. CASE m.kind = "scalar"
    <2>1. ps[1].value \in Int
      BY <1>1, <1>2 DEF Placeholder
    <2>2. Parsed(m, ps).total = Nil
          /\ \A k \in Instances(Parsed(m, ps)) : At(Parsed(m, ps), k).value \in Int
      BY <1>2, <2>1 DEF Parsed, Scalar, Instances, At
    <2>3. QED
      BY <2>2 DEF GoodState
  <1>3. CASE m.kind # "scalar"
    <2> DEFINE cs == [k \in DOMAIN ps |-> Child(m, k, ps[k])]
               s == Parsed(m, ps)
    <2>1. s = Vector(cs, Total(m, cs))
      BY <1>3 DEF Parsed
    <2>2. Len(cs) \in Nat /\ DOMAIN cs = 1 .. Len(cs) /\ DOMAIN cs = DOMAIN ps
      BY <1>1
    <2>3. ASSUME NEW k \in DOMAIN ps, cs[k] # Nil PROVE cs[k].value \in Int
      <3>1. cs[k] = Child(m, k, ps[k]) /\ ps[k] # Nil
        BY <2>3 DEF Child
      <3>2. ps[k].value \in Int
        BY <1>1, <3>1
      <3> HIDE DEF cs
      <3>3. QED
        BY <3>1, <3>2 DEF Child
    <2> HIDE DEF cs
    <2>4. s.children = cs /\ s.scalar = Nil /\ s.total = Total(m, cs)
      BY <2>1 DEF Vector
    <2> HIDE DEF s, m
    <2>5. \A k \in Instances(s) : At(s, k).value \in Int
      BY <2>2, <2>3, <2>4 DEF Instances, At
    <2>6. GoodState(m, s)
      BY <2>2, <2>4, <2>5, GoodTotal
    <2>7. QED
      BY <2>6 DEF s, m
  <1>4. QED
    BY <1>2, <1>3

LEMMA EvaluatedGood ==
    ASSUME Types, MeanInv, IntegerResults, NEW i \in DOMAIN Monitors, Monitors[i].kind = "op",
           NEW e, e = Evaluated(Monitors[i]), e # Nil
    PROVE  GoodState(Monitors[i], e)
  <1> DEFINE m == Monitors[i]
  <1>1. Len(m.vars) \in Nat /\ DOMAIN m.vars = 1 .. Len(m.vars)
    BY MonitorsAssumption
  <1>2. ASSUME NEW k \in Instances(e) PROVE At(e, k).value \in Int
    <2>1. OpInputs(m, k) /\ Value(m, k) # NaN
          /\ \E t \in {cycle, ItemTime(m, k)} : At(e, k) = Result(m, k, t)
      BY <1>1, <1>2, OpResult
    <2>2. ASSUME NEW n \in Range(m.vars) PROVE Input(n, k).value \in Int
      <3>1. n \in Names /\ current[n] # Nil /\ Input(n, k) # Nil
            /\ (current[n].children # <<>> => k \in DOMAIN current[n].children)
        BY <2>1, <2>2 DEF OpInputs, Complete
      <3>2. PICK j \in {0, k} : j \in Instances(current[n]) /\ Input(n, k) = At(current[n], j)
        BY <3>1, InputFound DEF Types
      <3>3. PICK l \in DOMAIN Monitors : Monitors[l].name = n
        BY <3>1 DEF Names
      <3>4. QED
        BY <3>1, <3>2, <3>3 DEF MeanInv, GoodState
    <2>3. [n \in Range(m.vars) |-> Input(n, k).value] \in [Range(m.vars) -> Int]
      BY <2>2
    <2>4. Value(m, k) \in Int
      BY <2>1, <2>3 DEF Value, IntegerResults
    <2>5. QED
      BY <2>1, <2>4 DEF Result
  <1>3. Len(e.children) \in Nat /\ DOMAIN e.children = 1 .. Len(e.children)
        /\ (e.total # Nil => e.total = Total(m, e.children))
    BY <1>1, OpResult
  <1>4. QED
    BY <1>2, <1>3, GoodTotal

\* What a turn delivers is good, and of its own monitor.
LEMMA TurnMean ==
    ASSUME Types, MeanInv, DistinctMonitors, next \in DOMAIN Monitors, NEW s,
           GoodState(Monitors[next], s),
           current' = [current EXCEPT ![Monitors[next].name] = s]
    PROVE  MeanInv'
  <1>1. ASSUME NEW i \in DOMAIN Monitors, current'[Monitors[i].name] # Nil
        PROVE  GoodState(Monitors[i], current'[Monitors[i].name])
    <2>1. Monitors[i].name \in Names /\ Monitors[next].name \in Names
      BY DEF Names
    <2>2. CASE i = next
      BY <2>1, <2>2 DEF Types
    <2>3. CASE i # next
      <3>1. current'[Monitors[i].name] = current[Monitors[i].name]
        BY <2>1, <2>3 DEF Types, DistinctMonitors
      <3>2. QED
        BY <1>1, <3>1 DEF MeanInv
    <2>4. QED
      BY <2>2, <2>3
  <1>2. QED
    BY <1>1 DEF MeanInv, GoodState, Instances, At, Valid

LEMMA MeanStep ==
    ASSUME DistinctMonitors, IntegerResults
    PROVE  Types /\ MeanInv /\ [Next]_vars => MeanInv'
  <1> SUFFICES ASSUME Types, MeanInv, [Next]_vars PROVE MeanInv'
    OBVIOUS
  <1> DEFINE m == Monitors[next]
  <1>1. CASE current' = current
    BY <1>1 DEF MeanInv, GoodState, Instances, At, Valid
  <1>2. CASE StartCycle
    BY <1>1, <1>2 DEF StartCycle, Types
  <1>3. CASE Answer
    <2>1. PICK ps \in Readings(m.name) : Deliver(m, Parsed(m, ps))
      BY <1>3 DEF Answer
    <2>2. next \in DOMAIN Monitors /\ current' = [current EXCEPT ![m.name] = Parsed(m, ps)]
      BY <1>3, <2>1 DEF Answer, Turn, Deliver
    <2>3. QED
      BY <2>2, ParsedGood, TurnMean
  <1>4. CASE Fail
    <2>1. next \in DOMAIN Monitors
          /\ current' = [current EXCEPT ![m.name] = Parsed(m, Placeholder)]
      BY <1>4 DEF Fail, Turn, Deliver
    <2>2. QED
      BY <2>1, ParsedGood, TurnMean
  <1>5. CASE Skip
    BY <1>1, <1>5 DEF Skip
  <1>6. CASE Compute
    <2>1. next \in DOMAIN Monitors /\ m.kind = "op"
      BY <1>6 DEF Compute, Turn
    <2>2. CASE Evaluated(m) = Nil
      BY <1>1, <1>6, <2>2 DEF Compute
    <2>3. CASE Evaluated(m) # Nil
      <3>1. current' = [current EXCEPT ![m.name] = Evaluated(m)]
        BY <1>6, <2>3 DEF Compute, Deliver
      <3>2. GoodState(m, Evaluated(m))
        <4>1. \A e : e = Evaluated(m) /\ e # Nil => GoodState(m, e)
          BY <2>1, EvaluatedGood
        <4>2. QED
          BY <2>3, <4>1
      <3>3. QED
        BY <2>1, <3>1, <3>2, TurnMean
    <2>4. QED
      BY <2>2, <2>3
  <1>7. CASE UNCHANGED vars
    BY <1>1, <1>7 DEF vars
  <1>8. QED
    BY <1>2, <1>3, <1>4, <1>5, <1>6, <1>7 DEF Next

\* A mean published as split_op lies between the smallest and the largest
\* value it is the mean of, for lists of any length with holes anywhere
\* (parseRawOutputWithValue and processOpMonitor).
THEOREM MeansInRange ==
    ASSUME DistinctMonitors, IntegerResults
    PROVE  Spec => []MeanInRange
  <1> DEFINE Inv == PublicationInv /\ MeanInv
  <1>1. Init => Inv
    <2>1. Init => MeanInv
      BY DEF Init, MeanInv, Names
    <2>2. QED
      BY <2>1, PublicationInit
  <1>2. Inv /\ [Next]_vars => Inv'
    BY PublicationStep, MeanStep DEF PublicationInv
  <1>3. Inv => MeanInRange
    BY DEF MeanInv, GoodState, MeanInRange
  <1> HIDE DEF Inv
  <1>4. QED
    BY <1>1, <1>2, <1>3, PTL DEF Spec
=============================================================================
