-------------------------- MODULE SensorCycleProofs --------------------------
(* Proofs about SensorCycle: what a cycle publishes and what it counts as  *)
(* a failure, for any monitors, limits and order of the queries' answers,  *)
(* and that it has a bounded number of steps.                              *)
EXTENDS SensorCycle, FiniteSetTheorems, TLAPS

PhaseType ==
    /\ pc \in {"idle", "queries", "sequence"} /\ cycle \in 0 .. MaxCycles
    /\ pc # "idle" => cycle > 0
    /\ next \in 1 .. Len(Monitors) + 1

FlagType ==
    /\ late \in BOOLEAN /\ stopped \in BOOLEAN
    /\ ctx \in {"open", "expired", "cancelled"}
    /\ hasError \in BOOLEAN /\ failure \in BOOLEAN

QueryType ==
    /\ query \in [Queries -> {"waiting", "running", "done"}]
    /\ answer \in [Ids -> Answers]
    /\ newStates \in [Ids -> States \cup {Nil}]

ValueType ==
    /\ vals \in [Keys -> States \cup {Nil}]
    /\ cache \in [Names -> States \cup {Nil}]
    /\ out \in Seq([mon : Ids, state : States])

Types == PhaseType /\ FlagType /\ QueryType /\ ValueType

\* The semaphore counts the running queries.
Running == {i \in Queries : query[i] = "running"}
SlotsInv == sem = Cardinality(Running) /\ sem <= Limit

\* Monitor i came to no number in this cycle, and 0 stands in for it.
NoNumber(i) ==
    /\ answer[i] = "failed" \/ answer[i] = "no number"
    /\ ~Monitors[i].muted

\* State s of monitor i is of this cycle, and 0 only in place of a number.
Fresh(i, s) ==
    /\ s.mon = i /\ s.cycle = cycle
    /\ s.real \/ NoNumber(i)

\* What came of each monitor agrees with its state and with the position.
AnswerInv ==
    /\ \A i \in Queries : query[i] # "done" => pc = "queries" /\ answer[i] = "none"
    /\ \A i \in Ids : newStates[i] # Nil => Fresh(i, newStates[i])
    /\ \A i \in Ids : newStates[i] # Nil => newStates[i].uses = {}
    /\ \A i \in Queries : HasValue(i) => newStates[i] # Nil
    /\ \A i \in Ids : Monitors[i].kind = "op" => answer[i] = "none"
    /\ \A i \in Ids :
          Monitors[i].kind = "system" /\ (pc = "sequence" => i >= next) /\ pc # "idle"
              => answer[i] = "none"

\* The context, and what counts as an error.
ErrorInv ==
    /\ ctx = "expired" => late
    /\ ctx = "cancelled" => stopped
    /\ \A i \in Ids : answer[i] = "skipped" => ctx # "open"
    /\ hasError <=> \E i \in Ids : answer[i] = "failed"

\* No query or command named n before monitor m has a value in this cycle.
Missing(n, m) ==
    \A i \in Ids : i < m /\ Monitors[i].name = n => ~HasValue(i)

\* A metric is of this cycle, by a monitor before the one at turn, and uses
\* an older value only if there was none.
Sound(e) ==
    /\ e.mon < next /\ Fresh(e.mon, e.state)
    /\ \A u \in e.state.uses :
          u.cycle < cycle => Missing(Monitors[u.mon].name, e.mon)

\* What is published, by monitors before the one at turn, in their order.
OutInv ==
    /\ pc = "queries" => out = <<>>
    /\ \A j \in DOMAIN out : Sound(out[j])
    /\ \A j, k \in DOMAIN out : j < k => out[j].mon < out[k].mon

\* A value is found under the name of its monitor, and one of an earlier
\* cycle only under the base name and while this cycle has none.
ValsInv ==
    /\ \A n \in Names : cache[n] # Nil => Monitors[cache[n].mon].name = n
    /\ pc # "idle" =>
         \A k \in Keys : vals[k] # Nil =>
            /\ Monitors[vals[k].mon].name = k.name
            /\ vals[k].cycle < cycle =>
                 k.group = NoGroup /\ (pc = "sequence" => Missing(k.name, next))

\* A placeholder of this cycle, or the origin of one, is accounted for.
Explained(o) == o.cycle = cycle /\ ~o.real => NoNumber(o.mon)

\* So is what an op finds and what it was computed from; what is cached is of
\* this cycle or older.
ZerosInv ==
    /\ \A n \in Names : cache[n] # Nil => cache[n].cycle <= cycle
    /\ \A k \in Keys : vals[k] # Nil => Explained(vals[k])
    /\ \A j \in DOMAIN out : \A u \in out[j].state.uses : Explained(u)

CycleInv ==
    Types /\ SlotsInv /\ AnswerInv /\ ErrorInv /\ OutInv /\ ValsInv /\ ZerosInv

-----------------------------------------------------------------------------
(* The shapes of keys and states.                                          *)

\* The keys under which a monitor's state is kept.
LEMMA KeyShapes ==
    ASSUME NEW i \in Ids
    PROVE  /\ Monitors[i].name \in Names
           /\ Key(i) \in Keys /\ Base(Monitors[i].name) \in Keys
           /\ Key(i).name = Monitors[i].name
           /\ Base(Monitors[i].name).name = Monitors[i].name
           /\ Base(Monitors[i].name).group = NoGroup
  BY DEF Key, Base, Keys, Names

\* Every key has the name of a monitor.
LEMMA KeyNames == \A k \in Keys : k.name \in Names
  BY DEF Keys, Key, Base, Names

\* The queries are finitely many monitors.
LEMMA QueriesFinite == Queries \subseteq Ids /\ IsFiniteSet(Queries)
  <1>1. IsFiniteSet(Ids)
    BY MonitorsAssumption, FS_Interval
  <1>2. Queries \subseteq Ids
    BY DEF Queries
  <1>3. QED
    BY <1>1, <1>2, FS_Subset

\* The states a cycle makes are states, fresh ones of their monitor.
LEMMA StateShapes ==
    ASSUME NEW i \in Ids, PhaseType, pc # "idle"
    PROVE  /\ Answered(i) \in States /\ Zero(i) \in States
           /\ Answered(i) # Nil /\ Zero(i) # Nil
           /\ Answered(i).uses = {} /\ Zero(i).uses = {}
           /\ Answered(i).mon = i /\ Zero(i).mon = i
           /\ Answered(i).cycle = cycle /\ Zero(i).cycle = cycle
           /\ Answered(i).real
  <1>1. cycle \in 1 .. MaxCycles
    BY CyclesAssumption DEF PhaseType
  <1>2. Answered(i) \in States /\ Zero(i) \in States
    BY <1>1 DEF Answered, Zero, States
  <1>3. Answered(i) # Nil /\ Zero(i) # Nil
    BY <1>2, NilAssumption
  <1>4. /\ Answered(i).uses = {} /\ Zero(i).uses = {}
        /\ Answered(i).mon = i /\ Zero(i).mon = i
        /\ Answered(i).cycle = cycle /\ Zero(i).cycle = cycle
        /\ Answered(i).real
    BY DEF Answered, Zero
  <1>5. QED
    BY <1>2, <1>3, <1>4

\* So is the result of an op, over the origins of what it reads.
LEMMA ComputedShape ==
    ASSUME NEW i \in Ids, PhaseType, pc # "idle", NEW used \in SUBSET States
    PROVE  /\ Computed(i, used) \in States
           /\ Computed(i, used).mon = i /\ Computed(i, used).cycle = cycle
           /\ Computed(i, used).real
           /\ \A u \in Computed(i, used).uses :
                 \E t \in used : /\ u.mon = t.mon /\ u.cycle = t.cycle
                                /\ u.real = t.real
  <1>1. cycle \in 1 .. MaxCycles
    BY CyclesAssumption DEF PhaseType
  <1>2. \A t \in used : /\ Origin(t) \in Origins
                        /\ Origin(t).mon = t.mon /\ Origin(t).cycle = t.cycle
                        /\ Origin(t).real = t.real
    BY DEF States, Origin, Origins
  <1>3. {Origin(t) : t \in used} \in SUBSET Origins
    BY <1>2
  <1>4. QED
    BY <1>1, <1>2, <1>3 DEF Computed, States

\* What an op reads is kept values, or Nil.
LEMMA LookupShape ==
    ASSUME ValueType, NEW k, NEW i
    PROVE  Lookup(k, i) \in States \cup {Nil}
  BY DEF Lookup, ValueType

-----------------------------------------------------------------------------
(* Types and the semaphore.                                                *)

\* The first state has the types.
LEMMA TypesInit == Init => Types /\ SlotsInv
  <1> SUFFICES ASSUME Init PROVE Types /\ SlotsInv
    OBVIOUS
  <1>1. PhaseType
    BY MonitorsAssumption, CyclesAssumption DEF Init, PhaseType
  <1>2. FlagType
    BY DEF Init, FlagType
  <1>3. QueryType
    BY DEF Init, QueryType, Answers
  <1>4. ValueType
    BY DEF Init, ValueType
  <1>5. Running = {}
    BY DEF Init, Running
  <1>6. SlotsInv
    BY <1>5, FS_EmptySet, LimitAssumption DEF Init, SlotsInv
  <1>7. QED
    BY <1>1, <1>2, <1>3, <1>4, <1>6 DEF Types

\* Delivering a state keeps the types of what it writes.
LEMMA DeliverTypes ==
    ASSUME ValueType, NEW i \in Ids, NEW s \in States, Deliver(i, s)
    PROVE  ValueType'
  <1>1. vals' \in [Keys -> States \cup {Nil}]
    BY KeyShapes DEF ValueType, Deliver, Remember
  <1>2. cache' \in [Names -> States \cup {Nil}]
    BY KeyShapes DEF ValueType, Deliver
  <1> DEFINE E == [mon : Ids, state : States]
             e == [mon |-> i, state |-> s]
  <1>3. e \in E
    OBVIOUS
  <1>4. out' = out \/ out' = Append(out, e)
    BY DEF Deliver
  <1>5. out \in Seq(E)
    BY DEF ValueType
  <1> HIDE DEF E, e
  <1>6. out' \in Seq(E)
    BY <1>3, <1>4, <1>5
  <1>7. QED
    BY <1>1, <1>2, <1>6 DEF ValueType, E

\* A turn of the loop keeps position and queries, whatever it delivers.
LEMMA TurnTypes ==
    ASSUME Types, NEW kinds, Turn(kinds), ValueType',
           \/ UNCHANGED <<answer, hasError>>
           \/ /\ \E a \in Answers : answer' = [answer EXCEPT ![next] = a]
              /\ UNCHANGED hasError
           \/ answer' = [answer EXCEPT ![next] = "failed"] /\ hasError' = TRUE
    PROVE  Types'
  <1>1. PhaseType'
    BY MonitorsAssumption DEF Types, PhaseType, Turn
  <1>2. FlagType'
    BY DEF Types, FlagType, Turn, clock
  <1>3. QueryType'
    BY DEF Types, QueryType, Turn, Answers
  <1>4. QED
    BY <1>1, <1>2, <1>3 DEF Types

\* Every step keeps the types.
LEMMA TypesStep == Types /\ AnswerInv /\ [Next]_vars => Types'
  <1> SUFFICES ASSUME Types, AnswerInv, [Next]_vars PROVE Types'
    OBVIOUS
  <1> USE DEF clock, goroutines
  <1>1. CASE BecomeLate \/ Expire \/ Shutdown
    <2>1. FlagType'
      BY <1>1 DEF Types, FlagType, BecomeLate, Expire, Shutdown
    <2>2. PhaseType' /\ QueryType' /\ ValueType'
      BY <1>1
      DEF Types, PhaseType, QueryType, ValueType, BecomeLate, Expire, Shutdown
    <2>3. QED
      BY <2>1, <2>2 DEF Types
  <1>2. CASE Start
    <2>1. \A k \in Keys : (IF k.group = NoGroup THEN cache[k.name] ELSE Nil)
                              \in States \cup {Nil}
      BY KeyNames DEF Types, ValueType
    <2>2. out' = <<>> /\ cache' = cache
      BY <1>2 DEF Start
    <2>3. ValueType'
      BY <1>2, <2>1, <2>2 DEF Types, ValueType, Start
    <2>4. PhaseType'
      BY <1>2, CyclesAssumption DEF Types, PhaseType, Start
    <2>5. FlagType'
      BY <1>2 DEF Types, FlagType, Start
    <2>6. QueryType'
      BY <1>2 DEF Types, QueryType, Start, Answers
    <2>7. QED
      BY <2>3, <2>4, <2>5, <2>6 DEF Types
  <1>3. ASSUME NEW i \in Queries, Acquire(i) \/ Skip(i) PROVE Types'
    <2>1. QueryType'
      BY <1>3, QueriesFinite DEF Types, QueryType, Acquire, Skip, Answers
    <2>2. PhaseType' /\ FlagType' /\ ValueType'
      BY <1>3 DEF Types, PhaseType, FlagType, ValueType, Acquire, Skip
    <2>3. QED
      BY <2>1, <2>2 DEF Types
  <1>4. ASSUME NEW i \in Queries, NEW a \in Answers, Return(i, a), pc # "idle"
        PROVE  Types'
    <2>1. Result(i, a) \in States \cup {Nil}
      BY <1>4, StateShapes, QueriesFinite DEF Types, Result, OnFailure
    <2>2. QueryType'
      BY <1>4, <2>1, QueriesFinite DEF Types, QueryType, Return, Slot
    <2>3. FlagType'
      BY <1>4 DEF Types, FlagType, Return, CountsAsError
    <2>4. PhaseType' /\ ValueType'
      BY <1>4 DEF Types, PhaseType, ValueType, Return
    <2>5. QED
      BY <2>2, <2>3, <2>4 DEF Types
  <1>5. CASE Wait \/ Finish
    <2>1. PhaseType'
      BY <1>5, MonitorsAssumption DEF Types, PhaseType, Wait, Finish
    <2>2. FlagType'
      BY <1>5 DEF Types, FlagType, Wait, Finish, HadFailure
    <2>3. QueryType' /\ ValueType'
      BY <1>5 DEF Types, QueryType, ValueType, Wait, Finish
    <2>4. QED
      BY <2>1, <2>2, <2>3 DEF Types
  <1>6. CASE TakeQuery
    <2>1. next \in Ids /\ newStates[next] \in States \cup {Nil}
      BY <1>6 DEF TakeQuery, Turn, Types, QueryType
    <2>2. CASE newStates[next] = Nil
      BY <1>6, <2>2, TurnTypes DEF Types, ValueType, TakeQuery, Nothing
    <2>3. CASE newStates[next] # Nil
      BY <1>6, <2>1, <2>3, DeliverTypes, TurnTypes DEF Types, TakeQuery
    <2>4. QED
      BY <2>2, <2>3
  <1>7. CASE RunSystem
    <2>1. next \in Ids /\ pc # "idle"
      BY <1>7 DEF RunSystem, Turn
    <2>2. ValueType'
      BY <1>7, <2>1, StateShapes, DeliverTypes DEF Types, RunSystem, Result
    <2>3. \/ /\ \E a \in Answers : answer' = [answer EXCEPT ![next] = a]
             /\ UNCHANGED hasError
          \/ answer' = [answer EXCEPT ![next] = "failed"] /\ hasError' = TRUE
      BY <1>7 DEF RunSystem, Answers
    <2>4. QED
      BY <1>7, <2>2, <2>3, TurnTypes DEF RunSystem
  <1>8. CASE EvaluateOp
    <2>1. next \in Ids /\ pc # "idle"
      BY <1>8 DEF EvaluateOp, Turn
    <2>2. Inputs(next) \in SUBSET (States \cup {Nil})
      BY LookupShape DEF Types, Inputs
    <2>3. ValueType'
      <3>1. CASE Nil \notin Inputs(next) /\ Deliver(next, Computed(next, Inputs(next)))
        BY <2>1, <2>2, <3>1, ComputedShape, DeliverTypes DEF Types
      <3>2. CASE Nothing
        BY <3>2 DEF Nothing, Types, ValueType
      <3>3. QED
        BY <1>8, <3>1, <3>2 DEF EvaluateOp
    <2>4. QED
      BY <1>8, <2>3, TurnTypes DEF EvaluateOp
  <1>9. CASE UNCHANGED vars
    BY <1>9 DEF vars, Types, PhaseType, FlagType, QueryType, ValueType
  <1>10. ASSUME NEW i \in Queries, Answer(i) \/ Abort(i) PROVE Types'
    <2>1. PICK a \in Answers : Return(i, a)
      BY <1>10 DEF Answer, Abort, Answers
    <2>2. pc # "idle"
      BY <2>1 DEF AnswerInv, Return
    <2>3. QED
      BY <1>4, <2>1, <2>2
  <1>11. QED
    BY <1>1, <1>2, <1>3, <1>5, <1>6, <1>7, <1>8, <1>9, <1>10 DEF Next

\* Every step keeps the count of the semaphore.
LEMMA SlotsStep == Types /\ SlotsInv /\ AnswerInv /\ [Next]_vars => SlotsInv'
  <1> SUFFICES ASSUME Types, SlotsInv, AnswerInv, [Next]_vars PROVE SlotsInv'
    OBVIOUS
  <1> USE DEF goroutines
  <1>1. IsFiniteSet(Running) /\ query \in [Queries -> {"waiting", "running", "done"}]
    BY QueriesFinite, FS_Subset DEF Running, Types, QueryType
  <1>2. Cardinality(Running) \in Nat
    BY <1>1, FS_CardinalityType
  <1>3. CASE UNCHANGED <<query, sem>>
    BY <1>3 DEF SlotsInv, Running
  <1>4. CASE Start
    <2>1. Running = {} /\ Running' = {}
      BY <1>1, <1>4 DEF Running, AnswerInv, Start
    <2>2. QED
      BY <1>4, <2>1 DEF SlotsInv, Start
  <1>5. ASSUME NEW i \in Queries, Acquire(i) PROVE SlotsInv'
    <2>1. Running' = Running \cup {i} /\ i \notin Running
      BY <1>1, <1>5 DEF Running, Acquire
    <2>2. Cardinality(Running') = Cardinality(Running) + 1
      BY <1>1, <2>1, FS_AddElement
    <2>3. QED
      BY <1>2, <1>5, <2>2, LimitAssumption DEF SlotsInv, Acquire, SlotFree
  <1>6. ASSUME NEW i \in Queries, Skip(i) PROVE SlotsInv'
    <2>1. Running' = Running
      BY <1>1, <1>6 DEF Running, Skip
    <2>2. QED
      BY <1>6, <2>1 DEF SlotsInv, Skip
  <1>7. ASSUME NEW i \in Queries, NEW a, Return(i, a) PROVE SlotsInv'
    <2>1. Running' = Running \ {i} /\ i \in Running
      BY <1>1, <1>7 DEF Running, Return
    <2>2. Cardinality(Running') = Cardinality(Running) - 1
      BY <1>1, <2>1, FS_RemoveElement
    <2>3. QED
      BY <1>2, <1>7, <2>2, LimitAssumption DEF SlotsInv, Return
  <1>8. QED
    BY <1>3, <1>4, <1>5, <1>6, <1>7
    DEF Next, Answer, Abort, BecomeLate, Expire, Shutdown, Wait, TakeQuery,
        RunSystem, EvaluateOp, Turn, Finish, vars

-----------------------------------------------------------------------------
(* Answers and errors.                                                     *)

\* Whether a monitor has a value, or no number, is a matter of its answer.
LEMMA AnswerDecides ==
    ASSUME NEW i, answer'[i] = answer[i]
    PROVE  (HasValue(i)' <=> HasValue(i)) /\ (NoNumber(i)' <=> NoNumber(i))
  BY DEF HasValue, NoNumber

\* With all the answers as they were, nothing else changes either.
LEMMA AnswersFrame ==
    ASSUME UNCHANGED <<answer, cycle>>
    PROVE  /\ \A i, s : Fresh(i, s)' <=> Fresh(i, s)
           /\ \A n, m : Missing(n, m)' <=> Missing(n, m)
  <1>1. \A i : (HasValue(i)' <=> HasValue(i)) /\ (NoNumber(i)' <=> NoNumber(i))
    BY AnswerDecides
  <1>2. QED
    BY <1>1 DEF Fresh, Missing

\* Before the first cycle there are none.
LEMMA AnswerInit == Init => AnswerInv /\ ErrorInv
  BY QueriesFinite DEF Init, AnswerInv, ErrorInv, HasValue

\* AnswerInv depends on the goroutines, the phase and the position only.
LEMMA AnswerFrame ==
    ASSUME AnswerInv, UNCHANGED <<pc, cycle, query, answer, newStates, next>>
    PROVE  AnswerInv'
  BY DEF AnswerInv, Fresh, NoNumber, HasValue

\* A turn answers for its own monitor only, and only a command does.
LEMMA TurnAnswer ==
    ASSUME Types, AnswerInv, NEW kinds, Turn(kinds),
           \/ answer' = answer
           \/ /\ Monitors[next].kind = "system"
              /\ \E a : answer' = [answer EXCEPT ![next] = a]
    PROVE  AnswerInv'
  <1>1. /\ next \in Ids /\ pc = "sequence" /\ next' = next + 1 /\ next \in Nat
        /\ UNCHANGED <<pc, cycle, query, newStates>>
    BY MonitorsAssumption DEF Types, PhaseType, Turn
  <1>2. \A i \in Ids : i # next => answer'[i] = answer[i]
    BY <1>1 DEF Types, QueryType
  <1>3. answer'[next] = answer[next] \/ Monitors[next].kind = "system"
    BY <1>1
  <1>4. \A i \in Ids : Monitors[i].kind # "system" => answer'[i] = answer[i]
    BY <1>2, <1>3
  <1>5. \A i \in Queries : i \in Ids /\ Monitors[i].kind # "system"
    BY DEF Queries
  <1>6. \A i \in Queries : query'[i] # "done" => pc' = "queries" /\ answer'[i] = "none"
    BY <1>1, <1>4, <1>5 DEF AnswerInv
  <1>7. \A i \in Ids : newStates[i] # Nil => Fresh(i, newStates[i])'
    <2>1. Monitors[next].kind = "system" /\ newStates[next] # Nil
             => newStates[next].real
      <3>1. Monitors[next].kind = "system" => ~NoNumber(next)
        <4>1. Monitors[next].kind = "system" => answer[next] = "none"
          BY <1>1 DEF AnswerInv
        <4>2. QED
          BY <4>1 DEF NoNumber
      <3>2. QED
        BY <1>1, <3>1 DEF AnswerInv, Fresh
    <2>2. QED
      BY <1>1, <1>2, <1>3, <2>1 DEF AnswerInv, Fresh, NoNumber
  <1>8. \A i \in Queries : HasValue(i)' => newStates'[i] # Nil
    BY <1>1, <1>4, <1>5 DEF AnswerInv, HasValue
  <1>9. \A i \in Ids : Monitors[i].kind = "op" => answer'[i] = "none"
    BY <1>4 DEF AnswerInv
  <1>10. \A i \in Ids : i >= next' => i # next /\ i >= next
    BY <1>1, MonitorsAssumption
  <1>11. \A i \in Ids : Monitors[i].kind = "system" /\ i >= next' => answer'[i] = "none"
    BY <1>1, <1>2, <1>10 DEF AnswerInv
  <1>12. QED
    BY <1>1, <1>6, <1>7, <1>8, <1>9, <1>11 DEF AnswerInv

\* Every step keeps AnswerInv.
LEMMA AnswerStep == Types /\ AnswerInv /\ [Next]_vars => AnswerInv'
  <1> SUFFICES ASSUME Types, AnswerInv, [Next]_vars PROVE AnswerInv'
    OBVIOUS
  <1> USE DEF clock, goroutines
  <1>1. CASE UNCHANGED <<pc, cycle, query, answer, newStates, next>>
    BY <1>1, AnswerFrame
  <1>2. CASE Start
    BY <1>2, QueriesFinite DEF AnswerInv, HasValue, Start
  <1>3. ASSUME NEW i \in Queries, Acquire(i) PROVE AnswerInv'
    <2>1. query[i] = "waiting" /\ UNCHANGED <<pc, cycle, answer, newStates, next>>
      BY <1>3 DEF Acquire
    <2>2. \A j \in Queries : query'[j] # "done" => query[j] # "done"
      BY <1>3, <2>1 DEF Acquire, Types, QueryType
    <2>3. QED
      BY <2>1, <2>2 DEF AnswerInv, Fresh, NoNumber, HasValue
  <1>4. ASSUME NEW i \in Queries, NEW a,
               query[i] # "done", query' = [query EXCEPT ![i] = "done"],
               answer' = [answer EXCEPT ![i] = a],
               UNCHANGED <<pc, cycle, next>>,
               \A j \in Ids : j # i => newStates'[j] = newStates[j],
               newStates'[i] # Nil => Fresh(i, newStates[i])',
               newStates'[i] # Nil => newStates'[i].uses = {},
               HasValue(i)' => newStates'[i] # Nil
        PROVE  AnswerInv'
    <2>1. /\ i \in Ids
          /\ Monitors[i].kind # "op" /\ Monitors[i].kind # "system"
      BY DEF Queries
    <2>2. \A j \in Ids : j # i => answer'[j] = answer[j]
      BY <1>4, <2>1 DEF Types, QueryType
    <2>3. \A j \in Queries : query'[j] # "done" => j # i /\ query[j] # "done"
      BY <1>4 DEF Types, QueryType
    <2>4. \A j \in Queries : query'[j] # "done" => pc' = "queries" /\ answer'[j] = "none"
      BY <1>4, <2>2, <2>3, QueriesFinite DEF AnswerInv
    <2>5. \A j \in Ids : newStates'[j] # Nil => Fresh(j, newStates[j])' \/ j = i
      <3>1. \A j \in Ids : j # i => (NoNumber(j)' <=> NoNumber(j))
        BY <2>2, AnswerDecides
      <3>2. QED
        BY <1>4, <3>1 DEF AnswerInv, Fresh
    <2>6. \A j \in Queries : HasValue(j)' => newStates'[j] # Nil
      BY <1>4, <2>2, QueriesFinite DEF AnswerInv, HasValue
    <2>7. \A j \in Ids : Monitors[j].kind = "op" => answer'[j] = "none"
      BY <2>1, <2>2 DEF AnswerInv
    <2>8. \A j \in Ids :
             Monitors[j].kind = "system" /\ (pc' = "sequence" => j >= next') /\ pc' # "idle"
                => answer'[j] = "none"
      BY <1>4, <2>1, <2>2 DEF AnswerInv
    <2>9. \A j \in Ids : newStates'[j] # Nil => Fresh(j, newStates[j])'
      BY <1>4, <2>2, <2>5 DEF AnswerInv, Fresh, NoNumber
    <2>10. \A j \in Ids : newStates'[j] # Nil => newStates'[j].uses = {}
      BY <1>4 DEF AnswerInv
    <2>11. QED
      BY <2>4, <2>6, <2>7, <2>8, <2>9, <2>10 DEF AnswerInv
  <1>5. ASSUME NEW i \in Queries, Skip(i) PROVE AnswerInv'
    <2>1. /\ query[i] # "done" /\ query' = [query EXCEPT ![i] = "done"]
          /\ answer' = [answer EXCEPT ![i] = "skipped"]
          /\ UNCHANGED <<pc, cycle, newStates, next>>
      BY <1>5 DEF Skip
    <2>2. i \in Ids /\ answer[i] = "none" /\ answer'[i] = "skipped"
      BY <2>1, QueriesFinite DEF AnswerInv, Types, QueryType
    <2>3. newStates'[i] # Nil => Fresh(i, newStates[i])'
      BY <2>1, <2>2 DEF AnswerInv, Fresh, NoNumber
    <2>4. ~HasValue(i)'
      BY <2>2 DEF HasValue
    <2>5. newStates'[i] # Nil => newStates'[i].uses = {}
      BY <2>1, <2>2 DEF AnswerInv
    <2>6. QED
      BY <1>4, <2>1, <2>3, <2>4, <2>5
  <1>6. ASSUME NEW i \in Queries, NEW a, a = "no number" => ~Monitors[i].muted,
               Return(i, a)
        PROVE  AnswerInv'
    <2>1. /\ query[i] # "done" /\ query' = [query EXCEPT ![i] = "done"]
          /\ answer' = [answer EXCEPT ![i] = a]
          /\ newStates' = [newStates EXCEPT ![i] = Result(i, a)]
          /\ UNCHANGED <<pc, cycle, next>>
      BY <1>6 DEF Return, Slot
    <2>2. i \in Ids /\ pc = "queries" /\ pc # "idle" /\ PhaseType
      BY <2>1, QueriesFinite DEF AnswerInv, Types
    <2>3. /\ answer'[i] = a /\ newStates'[i] = Result(i, a)
          /\ \A j \in Ids : j # i => newStates'[j] = newStates[j]
      BY <2>1, <2>2 DEF Types, QueryType
    <2>4. newStates'[i] # Nil => Fresh(i, newStates[i])'
      <3>1. CASE a = "value" \/ Result(i, a) = Nil
        <4>1. a = "value" => Result(i, a) = Answered(i)
          BY DEF Result
        <4>2. QED
          BY <2>1, <2>2, <2>3, <3>1, <4>1, StateShapes DEF Fresh
      <3>2. CASE Result(i, a) = Zero(i) /\ NoNumber(i)'
        BY <2>1, <2>2, <2>3, <3>2, StateShapes DEF Fresh
      <3>3. Result(i, a) = Nil \/ a = "value" \/ (Result(i, a) = Zero(i) /\ NoNumber(i)')
        BY <1>6, <2>3 DEF Result, OnFailure, NoNumber
      <3>4. QED
        BY <3>1, <3>2, <3>3
    <2>5. HasValue(i)' => newStates'[i] # Nil
      BY <2>2, <2>3, StateShapes DEF Result, OnFailure, HasValue
    <2>6. newStates'[i] # Nil => newStates'[i].uses = {}
      BY <2>2, <2>3, StateShapes DEF Result, OnFailure
    <2>7. QED
      BY <1>4, <2>1, <2>3, <2>4, <2>5, <2>6
  <1>7. CASE Wait
    BY <1>7, MonitorsAssumption DEF AnswerInv, Fresh, NoNumber, HasValue, Wait
  <1>8. CASE TakeQuery \/ EvaluateOp
    BY <1>8, TurnAnswer DEF TakeQuery, EvaluateOp
  <1>9. CASE RunSystem
    <2>1. Turn({"system"}) /\ Monitors[next].kind = "system"
      BY <1>9 DEF RunSystem, Turn
    <2>2. \E a : answer' = [answer EXCEPT ![next] = a]
      BY <1>9 DEF RunSystem
    <2>3. QED
      BY <2>1, <2>2, TurnAnswer
  <1>10. CASE Finish
    BY <1>10 DEF AnswerInv, Fresh, NoNumber, HasValue, Finish
  <1>11. QED
    BY <1>1, <1>2, <1>3, <1>5, <1>6, <1>7, <1>8, <1>9, <1>10
    DEF Next, Answer, Abort, BecomeLate, Expire, Shutdown, vars

\* Every step keeps ErrorInv.
LEMMA ErrorStep == Types /\ AnswerInv /\ ErrorInv /\ [Next]_vars => ErrorInv'
  <1> SUFFICES ASSUME Types, AnswerInv, ErrorInv, [Next]_vars PROVE ErrorInv'
    OBVIOUS
  <1> USE DEF clock, goroutines
  <1>1. CASE UNCHANGED <<late, ctx, stopped, answer, hasError>>
    BY <1>1 DEF ErrorInv
  <1>2. CASE BecomeLate \/ Expire \/ Shutdown
    BY <1>2 DEF ErrorInv, Types, FlagType, BecomeLate, Expire, Shutdown
  <1>3. CASE Start
    BY <1>3 DEF ErrorInv, Start
  <1>4. ASSUME NEW i \in Ids, NEW a, answer[i] = "none",
               answer' = [answer EXCEPT ![i] = a],
               a = "skipped" => ctx # "open",
               a = "failed" => hasError' = TRUE,
               a # "failed" => hasError' = hasError,
               UNCHANGED <<late, ctx, stopped>>
        PROVE  ErrorInv'
    <2>1. answer'[i] = a /\ \A j \in Ids : j # i => answer'[j] = answer[j]
      BY <1>4 DEF Types, QueryType
    <2>2. CASE a = "failed"
      BY <1>4, <2>1, <2>2 DEF ErrorInv
    <2>3. CASE a # "failed"
      <3>1. (\E j \in Ids : answer'[j] = "failed") <=> (\E j \in Ids : answer[j] = "failed")
        BY <1>4, <2>1, <2>3
      <3>2. QED
        BY <1>4, <2>1, <2>3, <3>1 DEF ErrorInv
    <2>4. QED
      BY <2>2, <2>3
  <1>5. ASSUME NEW i \in Queries, Skip(i) PROVE ErrorInv'
    <2>1. i \in Ids /\ answer[i] = "none"
      BY <1>5, QueriesFinite DEF AnswerInv, Skip
    <2>2. QED
      BY <1>4, <1>5, <2>1 DEF Skip, CtxDone
  <1>6. ASSUME NEW i \in Queries, NEW a, a # "skipped", Return(i, a) PROVE ErrorInv'
    <2>1. i \in Ids /\ answer[i] = "none"
      BY <1>6, QueriesFinite DEF AnswerInv, Return
    <2>2. hasError' = (hasError \/ a = "failed")
      BY <1>6 DEF Return, CountsAsError
    <2>3. hasError \in BOOLEAN
      BY DEF Types, FlagType
    <2>4. /\ a = "failed" => hasError' = TRUE
          /\ a # "failed" => hasError' = hasError
      BY <2>2, <2>3
    <2>5. QED
      BY <1>4, <1>6, <2>1, <2>4 DEF Return
  <1>7. CASE RunSystem
    <2>1. /\ next \in Ids /\ Monitors[next].kind = "system" /\ pc = "sequence"
          /\ UNCHANGED <<late, ctx, stopped>>
      BY <1>7 DEF RunSystem, Turn
    <2>2. answer[next] = "none"
      BY <2>1, MonitorsAssumption DEF AnswerInv
    <2>3. \/ answer' = [answer EXCEPT ![next] = "value"] /\ hasError' = hasError
          \/ answer' = [answer EXCEPT ![next] = "no number"] /\ hasError' = hasError
          \/ answer' = [answer EXCEPT ![next] = "failed"] /\ hasError' = TRUE
      BY <1>7 DEF RunSystem
    <2>4. QED
      BY <1>4, <2>1, <2>2, <2>3
  <1>8. QED
    BY <1>1, <1>2, <1>3, <1>5, <1>6, <1>7
    DEF Next, Answer, Abort, Acquire, Wait, TakeQuery, EvaluateOp, Turn,
        Finish, vars

-----------------------------------------------------------------------------
(* What the loop publishes and keeps.                                      *)

\* At first nothing is published and nothing is cached.
LEMMA LoopInit == Init => OutInv /\ ValsInv
  BY DEF Init, OutInv, ValsInv

\* OutInv and ValsInv depend on the phase, the answers and the values only.
LEMMA LoopFrame ==
    ASSUME OutInv, ValsInv,
           UNCHANGED <<pc, cycle, answer, next, vals, out, cache>>
    PROVE  OutInv' /\ ValsInv'
  BY AnswersFrame DEF OutInv, ValsInv, Sound

\* An answer of the monitor at turn changes nothing for those before it.
LEMMA MissingKept ==
    ASSUME PhaseType, next \in Ids,
           \A i \in Ids : i # next => answer'[i] = answer[i],
           NEW n, NEW m \in Ids, m <= next, Missing(n, m)
    PROVE  Missing(n, m)'
  <1>1. \A i \in Ids : i < m => i # next
    BY MonitorsAssumption
  <1>2. QED
    BY <1>1 DEF Missing, HasValue

\* What has been published stays as it was while the loop goes on.
LEMMA PublishedKept ==
    ASSUME PhaseType, next \in Ids, next' = next + 1, UNCHANGED cycle,
           \A i \in Ids : i # next => answer'[i] = answer[i],
           NEW e, e.mon \in Ids, Sound(e)
    PROVE  Sound(e)'
  <1>1. e.mon <= next /\ e.mon # next /\ e.mon < next + 1
    BY MonitorsAssumption DEF Sound
  <1>2. Fresh(e.mon, e.state)'
    BY <1>1 DEF Sound, Fresh, NoNumber
  <1>3. \A u \in e.state.uses :
           u.cycle < cycle => Missing(Monitors[u.mon].name, e.mon)'
    BY <1>1, MissingKept DEF Sound
  <1>4. QED
    BY <1>1, <1>2, <1>3 DEF Sound

\* Every metric is of a monitor and carries a state.
LEMMA OutShape ==
    ASSUME ValueType
    PROVE  /\ Len(out) \in Nat /\ DOMAIN out = 1 .. Len(out)
           /\ \A j \in DOMAIN out : out[j].mon \in Ids /\ out[j].state \in States
  <1> DEFINE E == [mon : Ids, state : States]
  <1>1. \A e \in E : e.mon \in Ids /\ e.state \in States
    OBVIOUS
  <1>2. out \in Seq(E)
    BY DEF ValueType
  <1> HIDE DEF E
  <1>3. /\ Len(out) \in Nat /\ DOMAIN out = 1 .. Len(out)
        /\ \A j \in DOMAIN out : out[j] \in E
    BY <1>2
  <1>4. QED
    BY <1>1, <1>3

\* A sequence of metrics and one more.
LEMMA AppendShape ==
    ASSUME ValueType, NEW m \in Ids, NEW s \in States,
           out' = out \/ out' = Append(out, [mon |-> m, state |-> s]),
           NEW j \in DOMAIN out'
    PROVE  (j \in DOMAIN out /\ out'[j] = out[j]) \/ out'[j].state = s
  <1> DEFINE E == [mon : Ids, state : States]
             e == [mon |-> m, state |-> s]
  <1>1. out \in Seq(E) /\ e \in E /\ e.state = s
    BY DEF ValueType
  <1> HIDE DEF E, e
  <1>2. CASE out' = out
    BY <1>2
  <1>3. CASE out' = Append(out, e)
    <2>1. \/ j \in DOMAIN out /\ Append(out, e)[j] = out[j]
          \/ Append(out, e)[j] = e
      BY <1>1, <1>3
    <2>2. QED
      BY <1>1, <1>3, <2>1
  <1>4. QED
    BY <1>2, <1>3 DEF e

\* A turn that publishes nothing, by a monitor m that has no value.
LEMMA QuietTurn ==
    ASSUME Types, OutInv, ValsInv, pc = "sequence", NEW m \in Ids, next = m,
           next' = m + 1, UNCHANGED <<pc, cycle>>, Nothing,
           \A i \in Ids : i # m => answer'[i] = answer[i],
           ~HasValue(m)'
    PROVE  OutInv' /\ ValsInv'
  <1>1. \A j \in DOMAIN out : out[j].mon \in Ids /\ Sound(out[j])
    BY OutShape DEF Types, OutInv
  <1>2. \A e : e.mon \in Ids /\ Sound(e) => Sound(e)'
    BY PublishedKept DEF Types
  <1>3. OutInv'
    BY <1>1, <1>2 DEF OutInv, Nothing, Sound, Fresh, NoNumber, Missing, HasValue
  <1>4. ASSUME NEW n, Missing(n, m) PROVE Missing(n, m + 1)'
    <2>1. \A i \in Ids : i < m + 1 => i = m \/ (i < m /\ i # m)
      BY MonitorsAssumption
    <2>2. \A i \in Ids : i # m => (HasValue(i)' <=> HasValue(i))
      BY AnswerDecides
    <2>3. QED
      BY <1>4, <2>1, <2>2 DEF Missing
  <1>5. \A n : Missing(n, next) => Missing(n, next)'
    BY <1>4 DEF Missing, HasValue
  <1>6. ValsInv'
    BY <1>5 DEF ValsInv, Nothing, Missing, HasValue
  <1>7. QED
    BY <1>3, <1>6

\* A turn that delivers state s of monitor m, which may use older values
\* only for names that have none in this cycle.
LEMMA DeliverTurn ==
    ASSUME Types, OutInv, ValsInv, pc = "sequence", NEW m \in Ids, next = m,
           next' = m + 1, UNCHANGED <<pc, cycle>>,
           \A i \in Ids : i # m => answer'[i] = answer[i],
           NEW s \in States, Deliver(m, s), Fresh(m, s)',
           \A u \in s.uses : u.cycle < cycle => Missing(Monitors[u.mon].name, m)
    PROVE  OutInv' /\ ValsInv'
  <1> USE DEF Types
  <1>1. PICK e : e = [mon |-> m, state |-> s]
    OBVIOUS
  <1>2. e.mon = m /\ e.state = s
    BY <1>1
  <1>3. Sound(e)'
    <2>1. \A u \in s.uses : u.cycle < cycle => Missing(Monitors[u.mon].name, m)'
      BY MissingKept, MonitorsAssumption
    <2>2. QED
      BY <1>2, <2>1, MonitorsAssumption DEF Sound
  <1>4. \A j \in DOMAIN out : out[j].mon \in Ids /\ Sound(out[j])
    BY OutShape DEF OutInv
  <1>5. \A f : f.mon \in Ids /\ Sound(f) => Sound(f)'
    BY PublishedKept
  <1>6. \/ out' = out
        \/ /\ out' = Append(out, e)
           /\ DOMAIN out' = DOMAIN out \cup {Len(out) + 1}
           /\ out'[Len(out) + 1] = e
           /\ \A j \in DOMAIN out : out'[j] = out[j]
    <2>1. out' = out \/ out' = Append(out, e)
      BY <1>1 DEF Deliver
    <2> DEFINE E == [mon : Ids, state : States]
    <2>2. out \in Seq(E) /\ e \in E
      BY <1>1 DEF ValueType
    <2> HIDE DEF E
    <2>3. /\ DOMAIN Append(out, e) = DOMAIN out \cup {Len(out) + 1}
          /\ Append(out, e)[Len(out) + 1] = e
          /\ \A j \in DOMAIN out : Append(out, e)[j] = out[j]
      BY <2>2
    <2>4. QED
      BY <2>1, <2>3
  <1>7. \A j \in DOMAIN out' : \E f : f = out'[j] /\ (f = e \/ (f.mon \in Ids /\ Sound(f)))
    BY <1>4, <1>6
  <1>8. \A j \in DOMAIN out' : \E f : f = out'[j] /\ Sound(f)'
    BY <1>3, <1>5, <1>7
  <1>9. \A j, k \in DOMAIN out' : j < k => out'[j].mon < out'[k].mon
    <2>1. \A j \in DOMAIN out : out[j].mon < m
      BY <1>4 DEF Sound
    <2>2. \A j \in DOMAIN out : j < Len(out) + 1 /\ j \in Nat
      BY OutShape
    <2>3. Len(out) \in Nat
      BY OutShape
    <2>4. QED
      BY <1>2, <1>6, <2>1, <2>2, <2>3 DEF OutInv
  <1>10. OutInv'
    BY <1>8, <1>9 DEF OutInv, Sound, Fresh, NoNumber, Missing
  <1>11. /\ s # Nil /\ s.mon = m /\ s.cycle = cycle
         /\ Monitors[m].name \in Names
    BY NilAssumption, KeyShapes DEF Fresh
  <1>12. \A n \in Names : cache'[n] # Nil => Monitors[cache'[n].mon].name = n
    BY <1>11 DEF ValsInv, ValueType, Deliver
  <1>13. ASSUME NEW k \in Keys, vals'[k] # s
         PROVE  /\ k.name = Monitors[m].name => k.group # NoGroup
                /\ vals'[k] = vals[k]
    <2>1. k # Base(Monitors[m].name) /\ vals'[k] = vals[k]
      BY <1>13, KeyShapes DEF Deliver, Remember, ValueType
    <2>2. k = [name |-> k.name, group |-> k.group]
      BY DEF Keys, Base, Key
    <2>3. QED
      BY <2>1, <2>2 DEF Base
  <1>14. \A k \in Keys : vals'[k] = s => k.name = Monitors[m].name \/ vals[k] = s
    BY KeyShapes DEF Deliver, Remember, ValueType
  <1>15. ASSUME NEW n, n # Monitors[m].name, Missing(n, m) PROVE Missing(n, m + 1)'
    <2>1. \A i \in Ids : i < m + 1 => i = m \/ (i < m /\ i # m)
      BY MonitorsAssumption
    <2>2. \A i \in Ids : i # m => (HasValue(i)' <=> HasValue(i))
      BY AnswerDecides
    <2>3. QED
      BY <1>15, <2>1, <2>2 DEF Missing
  <1>16. cycle \in Nat
    BY CyclesAssumption DEF PhaseType
  <1>17. ASSUME NEW k \in Keys, vals'[k] # Nil
         PROVE  /\ Monitors[vals'[k].mon].name = k.name
                /\ vals'[k].cycle < cycle =>
                     k.group = NoGroup /\ Missing(k.name, m + 1)'
    <2>1. CASE vals'[k] = s
      BY <1>11, <1>14, <1>16, <2>1 DEF ValsInv
    <2>2. CASE vals'[k] # s
      BY <1>13, <1>15, <1>17, <2>2 DEF ValsInv
    <2>3. QED
      BY <2>1, <2>2
  <1>18. ValsInv'
    BY <1>12, <1>17 DEF ValsInv, Missing, HasValue
  <1>19. QED
    BY <1>10, <1>18

\* Every step keeps what is published and what is found.
LEMMA LoopStep ==
    Types /\ AnswerInv /\ OutInv /\ ValsInv /\ [Next]_vars => OutInv' /\ ValsInv'
  <1> SUFFICES ASSUME Types, AnswerInv, OutInv, ValsInv, [Next]_vars
               PROVE  OutInv' /\ ValsInv'
    OBVIOUS
  <1> USE DEF clock, goroutines
  <1>1. CASE UNCHANGED <<pc, cycle, answer, next, vals, out, cache>>
    BY <1>1, LoopFrame
  <1>2. CASE Start
    <2>1. pc' = "queries" /\ out' = <<>> /\ cache' = cache
      BY <1>2 DEF Start
    <2>2. OutInv'
      BY <2>1 DEF OutInv
    <2>3. \A k \in Keys : vals'[k] # Nil =>
             k.group = NoGroup /\ vals'[k] = cache[k.name] /\ k.name \in Names
      BY <1>2, KeyNames DEF Start
    <2>4. ValsInv'
      BY <2>1, <2>3 DEF ValsInv
    <2>5. QED
      BY <2>2, <2>4
  <1>3. ASSUME NEW i \in Queries, Acquire(i) \/ Skip(i) \/ Answer(i) \/ Abort(i)
        PROVE  OutInv' /\ ValsInv'
    <2>1. pc = "queries" /\ UNCHANGED <<pc, cycle, vals, out, cache>>
      BY <1>3 DEF AnswerInv, Acquire, Skip, Answer, Abort, Return
    <2>2. out = <<>>
      BY <2>1 DEF OutInv
    <2>3. OutInv' /\ ValsInv'
      BY <2>1, <2>2 DEF OutInv, ValsInv
    <2>4. QED
      BY <2>3
  <1>4. CASE Wait
    <2>1. /\ pc = "queries" /\ pc' = "sequence" /\ next' = 1
          /\ UNCHANGED <<cycle, vals, out, cache>>
      BY <1>4 DEF Wait
    <2>2. out = <<>>
      BY <2>1 DEF OutInv
    <2>3. \A n : Missing(n, next)'
      BY <2>1, MonitorsAssumption DEF Missing
    <2>4. QED
      BY <2>1, <2>2, <2>3 DEF OutInv, ValsInv
  <1>5. CASE Finish
    <2>1. /\ pc = "sequence" /\ pc' = "idle"
          /\ UNCHANGED <<cycle, answer, next, vals, out, cache>>
      BY <1>5 DEF Finish
    <2>2. QED
      BY <2>1, AnswersFrame DEF OutInv, ValsInv, Sound
  <1>6. ASSUME NEW m, next = m, TakeQuery PROVE OutInv' /\ ValsInv'
    <2>1. /\ m \in Ids /\ m \in Queries /\ pc = "sequence" /\ next' = m + 1
          /\ UNCHANGED <<pc, cycle, answer>>
      BY <1>6 DEF TakeQuery, Turn, Queries
    <2>2. CASE newStates[m] = Nil
      <3>1. ~HasValue(m)'
        BY <2>1, <2>2 DEF AnswerInv, HasValue
      <3>2. QED
        BY <1>6, <2>1, <2>2, <3>1, QuietTurn DEF TakeQuery
    <2>3. CASE newStates[m] # Nil
      <3>1. PICK t : t = newStates[m]
        OBVIOUS
      <3>2. t \in States /\ Fresh(m, t) /\ Deliver(m, t) /\ t.uses = {}
        BY <1>6, <2>1, <2>3, <3>1 DEF AnswerInv, Types, QueryType, TakeQuery
      <3>3. Fresh(m, t)'
        BY <2>1, <3>2 DEF Fresh, NoNumber
      <3>4. QED
        BY <1>6, <2>1, <3>2, <3>3, DeliverTurn
    <2>4. QED
      BY <2>2, <2>3
  <1>7. ASSUME NEW m, next = m, RunSystem PROVE OutInv' /\ ValsInv'
    <2>1. /\ m \in Ids /\ Monitors[m].kind = "system" /\ pc = "sequence"
          /\ pc # "idle" /\ next' = m + 1 /\ UNCHANGED <<pc, cycle>>
      BY <1>7 DEF RunSystem, Turn
    <2>2. ~Monitors[m].muted
      BY <2>1, MonitorsAssumption
    <2>3. PICK t, a : /\ Deliver(m, t) /\ answer' = [answer EXCEPT ![m] = a]
                      /\ \/ t = Answered(m)
                         \/ t = Zero(m) /\ a \in {"failed", "no number"}
      BY <1>7 DEF RunSystem, Result
    <2>4. /\ t \in States /\ t.uses = {} /\ t.mon = m /\ t.cycle = cycle
          /\ t.real \/ a \in {"failed", "no number"}
      BY <2>1, <2>3, StateShapes DEF Types
    <2>5. answer'[m] = a /\ \A i \in Ids : i # m => answer'[i] = answer[i]
      BY <2>1, <2>3 DEF Types, QueryType
    <2>6. Fresh(m, t)'
      BY <2>1, <2>2, <2>4, <2>5 DEF Fresh, NoNumber
    <2>7. QED
      BY <1>7, <2>1, <2>3, <2>4, <2>5, <2>6, DeliverTurn
  <1>8. ASSUME NEW m, next = m, EvaluateOp PROVE OutInv' /\ ValsInv'
    <2>1. /\ m \in Ids /\ Monitors[m].kind = "op" /\ pc = "sequence"
          /\ pc # "idle" /\ next' = m + 1 /\ UNCHANGED <<pc, cycle, answer>>
      BY <1>8 DEF EvaluateOp, Turn
    <2>2. CASE Nothing
      <3>1. ~HasValue(m)'
        BY <2>1 DEF AnswerInv, HasValue
      <3>2. QED
        BY <1>8, <2>1, <2>2, <3>1, QuietTurn
    <2>3. CASE Nil \notin Inputs(m) /\ Deliver(m, Computed(m, Inputs(m)))
      <3>1. Inputs(m) \in SUBSET States
        BY <2>3, LookupShape DEF Types, Inputs
      <3>2. PICK used : used = Inputs(m)
        OBVIOUS
      <3>3. \A x \in used : x.cycle < cycle => Missing(Monitors[x.mon].name, m)
        <4>1. \A x \in used : \E k \in Keys : vals[k] # Nil /\ x = vals[k]
          BY <2>3, <3>2 DEF Inputs, Lookup
        <4>2. QED
          BY <1>8, <2>1, <4>1 DEF ValsInv
      <3>4. PICK t : t = Computed(m, used)
        OBVIOUS
      <3>5. /\ t \in States /\ t.mon = m /\ t.cycle = cycle /\ t.real
            /\ \A u \in t.uses : \E x \in used : u.mon = x.mon /\ u.cycle = x.cycle
        BY <2>1, <3>1, <3>2, <3>4, ComputedShape DEF Types
      <3>6. Fresh(m, t)'
        BY <2>1, <3>5 DEF Fresh, NoNumber
      <3>7. \A u \in t.uses : u.cycle < cycle => Missing(Monitors[u.mon].name, m)
        BY <3>3, <3>5
      <3>8. Deliver(m, t)
        BY <2>3, <3>2, <3>4
      <3>9. QED
        BY <1>8, <2>1, <3>5, <3>6, <3>7, <3>8, DeliverTurn
    <2>4. QED
      BY <1>8, <2>2, <2>3 DEF EvaluateOp
  <1>9. QED
    BY <1>1, <1>2, <1>3, <1>4, <1>5, <1>6, <1>7, <1>8
    DEF Next, BecomeLate, Expire, Shutdown, vars

-----------------------------------------------------------------------------
(* The placeholders.                                                       *)

\* What came of a monitor stands for the rest of the cycle.
LEMMA AnswersStand ==
    ASSUME Types, AnswerInv, Next, ~Start
    PROVE  /\ cycle' = cycle
           /\ \A i \in Ids : answer[i] # "none" => answer'[i] = answer[i]
  <1> USE DEF clock, goroutines
  <1>1. ASSUME NEW i \in Ids, NEW a, answer[i] = "none",
               answer' = answer \/ answer' = [answer EXCEPT ![i] = a]
        PROVE  \A j \in Ids : answer[j] # "none" => answer'[j] = answer[j]
    BY <1>1 DEF Types, QueryType
  <1>2. ASSUME NEW i \in Queries, Acquire(i) \/ Skip(i) \/ Answer(i) \/ Abort(i)
        PROVE  /\ cycle' = cycle
               /\ \A j \in Ids : answer[j] # "none" => answer'[j] = answer[j]
    <2>1. /\ i \in Ids /\ answer[i] = "none" /\ cycle' = cycle
          /\ \E a : answer' = answer \/ answer' = [answer EXCEPT ![i] = a]
      BY <1>2, QueriesFinite
      DEF AnswerInv, Acquire, Skip, Answer, Abort, Return
    <2>2. QED
      BY <1>1, <2>1
  <1>3. CASE RunSystem
    <2>1. /\ next \in Ids /\ Monitors[next].kind = "system" /\ pc = "sequence"
          /\ cycle' = cycle /\ \E a : answer' = [answer EXCEPT ![next] = a]
      BY <1>3 DEF RunSystem, Turn
    <2>2. answer[next] = "none"
      BY <2>1, MonitorsAssumption DEF AnswerInv
    <2>3. QED
      BY <1>1, <2>1, <2>2
  <1>4. QED
    BY <1>2, <1>3 DEF Next, BecomeLate, Expire, Shutdown, Wait, TakeQuery,
                      EvaluateOp, Turn, Finish

\* So a placeholder that is accounted for remains so.
LEMMA ExplainedKept ==
    ASSUME Types, AnswerInv, Next, ~Start, NEW o, o.mon \in Ids, Explained(o)
    PROVE  Explained(o)'
  BY AnswersStand DEF Explained, NoNumber

\* What is kept and what it was computed from are of monitors.
LEMMA OriginShape ==
    ASSUME NEW s \in States
    PROVE  s.mon \in Ids /\ s.cycle \in Int /\ \A u \in s.uses : u.mon \in Ids
  BY DEF States, Origins

\* A turn that delivers a fresh state, computed from what is accounted for.
LEMMA ZerosTurn ==
    ASSUME Types, AnswerInv, ZerosInv, Next, ~Start,
           NEW m \in Ids, NEW s \in States, Deliver(m, s), Fresh(m, s)',
           \A u \in s.uses : Explained(u)
    PROVE  ZerosInv'
  <1> USE DEF Types
  <1>1. /\ cycle' = cycle /\ cycle \in Int
        /\ s.cycle = cycle /\ Explained(s)'
    <2>1. cycle' = cycle /\ cycle \in Int
      BY AnswersStand, CyclesAssumption DEF PhaseType
    <2>2. QED
      BY <2>1 DEF Fresh, Explained
  <1>2. \A n \in Names : cache'[n] # Nil => cache'[n].cycle <= cycle'
    BY <1>1 DEF Deliver, ZerosInv, ValueType
  <1>3. ASSUME NEW k \in Keys, vals'[k] # Nil PROVE Explained(vals[k])'
    <2>1. vals'[k] = s \/ vals'[k] = vals[k]
      BY DEF Deliver, Remember, ValueType
    <2>2. CASE vals'[k] = s
      BY <1>1, <2>2 DEF Explained, NoNumber
    <2>3. CASE vals'[k] = vals[k]
      <3>1. vals[k] \in States /\ Explained(vals[k])
        BY <1>3, <2>3 DEF ValueType, ZerosInv
      <3>2. PICK o \in States : o = vals[k]
        BY <3>1
      <3>3. Explained(o)'
        BY <3>1, <3>2, OriginShape, ExplainedKept
      <3>4. QED
        BY <2>3, <3>2, <3>3 DEF Explained, NoNumber
    <2>4. QED
      BY <2>1, <2>2, <2>3
  <1>4. ASSUME NEW j \in DOMAIN out', NEW u \in out'[j].state.uses
        PROVE  Explained(u)'
    <2>1. /\ u.mon \in Ids /\ Explained(u)
      <3>1. CASE j \in DOMAIN out /\ out'[j] = out[j]
        BY <1>4, <3>1, OutShape, OriginShape DEF ZerosInv
      <3>2. CASE out'[j].state = s
        BY <1>4, <3>2, OriginShape
      <3>3. (j \in DOMAIN out /\ out'[j] = out[j]) \/ out'[j].state = s
        BY AppendShape DEF Deliver
      <3>4. QED
        BY <3>1, <3>2, <3>3
    <2>2. QED
      BY <2>1, ExplainedKept
  <1>5. QED
    BY <1>2, <1>3, <1>4 DEF ZerosInv

\* A step that delivers nothing.
LEMMA ZerosFrame ==
    ASSUME Types, AnswerInv, ZerosInv, Next, ~Start, Nothing
    PROVE  ZerosInv'
  <1> USE DEF Types
  <1>1. cycle' = cycle /\ vals' = vals /\ out' = out /\ cache' = cache
    BY AnswersStand DEF Nothing
  <1>2. ASSUME NEW k \in Keys, vals[k] # Nil PROVE Explained(vals[k])'
    <2>1. PICK o \in States : o = vals[k] /\ Explained(o)
      BY <1>2 DEF ValueType, ZerosInv
    <2>2. Explained(o)'
      BY <2>1, OriginShape, ExplainedKept
    <2>3. QED
      BY <1>1, <2>1, <2>2 DEF Explained, NoNumber
  <1>3. ASSUME NEW j \in DOMAIN out, NEW u \in out[j].state.uses
        PROVE  Explained(u)'
    <2>1. u.mon \in Ids /\ Explained(u)
      BY OutShape, OriginShape DEF ZerosInv
    <2>2. QED
      BY <2>1, ExplainedKept
  <1>4. QED
    BY <1>1, <1>2, <1>3 DEF ZerosInv, Explained, NoNumber

\* Every step keeps the placeholders accounted for.
LEMMA ZerosStep ==
    Types /\ AnswerInv /\ ZerosInv /\ [Next]_vars => ZerosInv'
  <1> SUFFICES ASSUME Types, AnswerInv, ZerosInv, [Next]_vars PROVE ZerosInv'
    OBVIOUS
  <1> USE DEF clock, goroutines
  <1>1. CASE Start
    <2>1. cycle \in Int /\ cycle' = cycle + 1 /\ cache' = cache /\ out' = <<>>
      BY <1>1, CyclesAssumption DEF Types, PhaseType, Start
    <2>2. \A n \in Names : cache[n] # Nil => cache[n].cycle \in Int
      BY OriginShape DEF Types, ValueType
    <2>3. \A k \in Keys : vals'[k] # Nil => vals'[k].cycle < cycle'
      BY <1>1, <2>1, <2>2, KeyNames DEF Start, ZerosInv
    <2>4. \A k \in Keys : vals'[k] # Nil => Explained(vals[k])'
      BY <2>1, <2>3 DEF Explained
    <2>5. \A n \in Names : cache'[n] # Nil => cache'[n].cycle <= cycle'
      BY <2>1, <2>2 DEF ZerosInv
    <2>6. QED
      BY <2>1, <2>4, <2>5 DEF ZerosInv
  <1>2. CASE UNCHANGED vars
    BY <1>2 DEF vars, ZerosInv, Explained, NoNumber
  <1>3. CASE Next /\ ~Start /\ Nothing
    BY <1>3, ZerosFrame
  <1>4. CASE TakeQuery /\ Next /\ ~Start /\ ~Nothing
    <2>1. /\ next \in Ids /\ newStates[next] # Nil /\ Deliver(next, newStates[next])
          /\ UNCHANGED <<cycle, answer>>
      BY <1>4 DEF TakeQuery, Turn
    <2>2. PICK m, t : m = next /\ t = newStates[next]
      OBVIOUS
    <2>3. /\ m \in Ids /\ t \in States /\ Deliver(m, t) /\ Fresh(m, t) /\ t.uses = {}
      BY <2>1, <2>2 DEF AnswerInv, Types, QueryType
    <2>4. Fresh(m, t)'
      BY <2>1, <2>3 DEF Fresh, NoNumber
    <2>5. QED
      BY <1>4, <2>3, <2>4, ZerosTurn
  <1>5. CASE RunSystem /\ Next /\ ~Start
    <2>1. PICK m : m = next
      OBVIOUS
    <2>2. /\ m \in Ids /\ Monitors[m].kind = "system" /\ pc # "idle"
          /\ cycle' = cycle
      BY <1>5, <2>1 DEF RunSystem, Turn
    <2>3. ~Monitors[m].muted
      BY <2>2, MonitorsAssumption
    <2>4. PICK t, a : /\ Deliver(m, t) /\ answer' = [answer EXCEPT ![m] = a]
                      /\ \/ t = Answered(m)
                         \/ t = Zero(m) /\ a \in {"failed", "no number"}
      BY <1>5, <2>1 DEF RunSystem, Result
    <2>5. /\ t \in States /\ t.uses = {} /\ t.mon = m /\ t.cycle = cycle
          /\ t.real \/ a \in {"failed", "no number"}
      BY <2>2, <2>4, StateShapes DEF Types
    <2>6. answer'[m] = a
      BY <2>2, <2>4 DEF Types, QueryType
    <2>7. Fresh(m, t)'
      BY <2>2, <2>3, <2>5, <2>6 DEF Fresh, NoNumber
    <2>8. QED
      BY <1>5, <2>2, <2>4, <2>5, <2>7, ZerosTurn
  <1>6. CASE EvaluateOp /\ Next /\ ~Start /\ ~Nothing
    <2>1. PICK m, used : m = next /\ used = Inputs(next)
      OBVIOUS
    <2>2. /\ m \in Ids /\ pc # "idle" /\ UNCHANGED <<cycle, answer>>
          /\ Nil \notin used /\ Deliver(m, Computed(m, used))
      BY <1>6, <2>1 DEF EvaluateOp, Turn
    <2>3. used \in SUBSET States
      BY <2>1, <2>2, LookupShape DEF Types, Inputs
    <2>4. \A x \in used : Explained(x)
      <3>1. \A x \in used : \E k \in Keys : vals[k] # Nil /\ x = vals[k]
        BY <2>1, <2>2 DEF Inputs, Lookup
      <3>2. QED
        BY <3>1 DEF ZerosInv
    <2>5. PICK t : t = Computed(m, used)
      OBVIOUS
    <2>6. /\ t \in States /\ t.mon = m /\ t.cycle = cycle /\ t.real
          /\ \A u \in t.uses : \E x \in used : /\ u.mon = x.mon /\ u.cycle = x.cycle
                                              /\ u.real = x.real
      BY <2>2, <2>3, <2>5, ComputedShape DEF Types
    <2>7. Fresh(m, t)'
      BY <2>2, <2>6 DEF Fresh
    <2>8. \A u \in t.uses : Explained(u)
      BY <2>4, <2>6 DEF Explained
    <2>9. QED
      BY <1>6, <2>2, <2>5, <2>6, <2>7, <2>8, ZerosTurn
  <1>7. QED
    <2>1. ASSUME Next, ~Start, ~Nothing PROVE TakeQuery \/ RunSystem \/ EvaluateOp
      BY <2>1 DEF Next, Nothing, BecomeLate, Expire, Shutdown, Acquire, Skip,
                  Answer, Abort, Return, Wait, Finish
    <2>2. QED
      BY <1>1, <1>2, <1>3, <1>4, <1>5, <1>6, <2>1

\* The invariants hold in every reachable state.
LEMMA CycleInvariant == Spec => []CycleInv
  <1>1. Init => CycleInv
    <2>1. Init => ZerosInv
      BY DEF Init, ZerosInv
    <2>2. QED
      BY <2>1, TypesInit, AnswerInit, LoopInit DEF CycleInv
  <1>2. CycleInv /\ [Next]_vars => CycleInv'
    BY TypesStep, SlotsStep, AnswerStep, ErrorStep, LoopStep, ZerosStep
    DEF CycleInv
  <1>3. QED
    BY <1>1, <1>2, PTL DEF Spec

-----------------------------------------------------------------------------
(* The steps of a cycle.                                                   *)

Waiting == {i \in Queries : query[i] = "waiting"}
One(holds) == IF holds THEN 1 ELSE 0

\* Time and shutdown: they come once each in a cycle.
ClockLeft == One(~late) + One(ctx = "open") + One(~stopped)

\* A query waits and then runs; after wg.Wait every monitor has its turn.
LoopLeft ==
    IF pc = "queries"
    THEN 2 * Cardinality(Waiting) + Cardinality(Running) + Len(Monitors) + 2
    ELSE Len(Monitors) + 2 - next

StepsLeft == IF pc = "idle" THEN 0 ELSE ClockLeft + LoopLeft

MostSteps == 2 * Cardinality(Queries) + Len(Monitors) + 5

\* The sets of queries are finite, and their numbers are naturals.
LEMMA QueriesCounted ==
    /\ IsFiniteSet(Waiting) /\ IsFiniteSet(Running)
    /\ Cardinality(Waiting) \in Nat /\ Cardinality(Running) \in Nat
    /\ Cardinality(Queries) \in Nat
    /\ Cardinality(Waiting) + Cardinality(Running) <= Cardinality(Queries)
  <1>1. /\ Waiting \subseteq Queries /\ Running \subseteq Queries
        /\ Waiting \cup Running \subseteq Queries /\ Waiting \cap Running = {}
    BY DEF Waiting, Running
  <1>2. IsFiniteSet(Waiting) /\ IsFiniteSet(Running)
    BY <1>1, QueriesFinite, FS_Subset
  <1>3. /\ Cardinality(Waiting) \in Nat /\ Cardinality(Running) \in Nat
        /\ Cardinality(Queries) \in Nat
    BY <1>2, QueriesFinite, FS_CardinalityType
  <1>4. Cardinality(Waiting \cup Running) <= Cardinality(Queries)
    BY <1>1, QueriesFinite, FS_Subset
  <1>5. Cardinality(Waiting \cup Running) = Cardinality(Waiting) + Cardinality(Running) - 0
    BY <1>1, <1>2, FS_Union, FS_EmptySet
  <1>6. QED
    BY <1>2, <1>3, <1>4, <1>5

\* The sum of two numbers decreases with one of them.
LEMMA SumShrinks ==
    ASSUME NEW a \in Int, NEW b \in Int, NEW c \in Int, NEW d \in Int,
           a <= c, b <= d, a < c \/ b < d
    PROVE  a + b < c + d
  OBVIOUS

\* What is left is a number, at most that of a cycle that has just begun.
LEMMA StepsBounded == Types => StepsLeft \in 0 .. MostSteps
  <1> SUFFICES ASSUME Types PROVE StepsLeft \in 0 .. MostSteps
    OBVIOUS
  <1>1. ClockLeft \in 0 .. 3
    BY DEF ClockLeft, One
  <1>2. LoopLeft \in 0 .. 2 * Cardinality(Queries) + Len(Monitors) + 2
    <2>1. next \in 1 .. Len(Monitors) + 1 /\ Len(Monitors) \in Nat
      BY MonitorsAssumption DEF Types, PhaseType
    <2>2. CASE pc = "queries"
      BY <2>1, <2>2, QueriesCounted DEF LoopLeft
    <2>3. CASE pc # "queries"
      BY <2>1, <2>3, QueriesCounted DEF LoopLeft
    <2>4. QED
      BY <2>2, <2>3
  <1>3. QED
    BY <1>1, <1>2, QueriesCounted, MonitorsAssumption DEF StepsLeft, MostSteps

\* A query that starts, is skipped or returns has less to do.
LEMMA QueryShrinks ==
    ASSUME Types, AnswerInv, NEW i \in Queries, NEW to \in {"running", "done"},
           query[i] # "done", to # query[i], query' = [query EXCEPT ![i] = to],
           UNCHANGED <<pc, clock, next>>
    PROVE  StepsLeft' < StepsLeft
  <1>1. pc = "queries" /\ query \in [Queries -> {"waiting", "running", "done"}]
    BY DEF AnswerInv, Types, QueryType
  <1>2. query[i] \in {"waiting", "running"}
    BY <1>1
  <1>3. 2 * Cardinality(Waiting') + Cardinality(Running')
          < 2 * Cardinality(Waiting) + Cardinality(Running)
    <2>1. CASE query[i] = "waiting" /\ to = "running"
      <3>1. /\ Waiting' = Waiting \ {i} /\ i \in Waiting
            /\ Running' = Running \cup {i} /\ i \notin Running
        BY <1>1, <2>1 DEF Waiting, Running
      <3>2. /\ Cardinality(Waiting') = Cardinality(Waiting) - 1
            /\ Cardinality(Running') = Cardinality(Running) + 1
        BY <3>1, QueriesCounted, FS_AddElement, FS_RemoveElement
      <3>3. QED
        BY <3>2, QueriesCounted
    <2>2. CASE query[i] = "waiting" /\ to = "done"
      <3>1. Waiting' = Waiting \ {i} /\ i \in Waiting /\ Running' = Running
        BY <1>1, <2>2 DEF Waiting, Running
      <3>2. /\ Cardinality(Waiting') = Cardinality(Waiting) - 1
            /\ Cardinality(Running') = Cardinality(Running)
        BY <3>1, QueriesCounted, FS_RemoveElement
      <3>3. QED
        BY <3>2, QueriesCounted
    <2>3. CASE query[i] = "running" /\ to = "done"
      <3>1. Waiting' = Waiting /\ Running' = Running \ {i} /\ i \in Running
        BY <1>1, <2>3 DEF Waiting, Running
      <3>2. /\ Cardinality(Waiting') = Cardinality(Waiting)
            /\ Cardinality(Running') = Cardinality(Running) - 1
        BY <3>1, QueriesCounted, FS_RemoveElement
      <3>3. QED
        BY <3>2, QueriesCounted
    <2>4. QED
      BY <1>2, <2>1, <2>2, <2>3
  <1>4. /\ Cardinality(Waiting') \in Nat /\ Cardinality(Running') \in Nat
        /\ Len(Monitors) \in Nat
    <2>1. /\ Waiting' \subseteq Queries /\ Running' \subseteq Queries
      BY DEF Waiting, Running
    <2>2. QED
      BY <2>1, QueriesFinite, FS_Subset, FS_CardinalityType, MonitorsAssumption
  <1>5. LoopLeft' < LoopLeft
    BY <1>1, <1>3, <1>4, QueriesCounted DEF LoopLeft
  <1>6. ClockLeft' = ClockLeft /\ ClockLeft \in Nat
    BY DEF ClockLeft, One, clock
  <1>7. LoopLeft \in Int /\ LoopLeft' \in Int
    BY <1>1, <1>4, QueriesCounted DEF LoopLeft
  <1>8. pc # "idle" /\ pc' # "idle"
    BY <1>1
  <1>9. ClockLeft' + LoopLeft' < ClockLeft + LoopLeft
    <2>1. ClockLeft' <= ClockLeft /\ ClockLeft \in Int /\ ClockLeft' \in Int
      BY <1>6
    <2>2. LoopLeft' <= LoopLeft
      BY <1>5, <1>7
    <2>3. QED
      BY <1>5, <1>7, <2>1, <2>2, SumShrinks
  <1>10. QED
    BY <1>8, <1>9 DEF StepsLeft

\* The next turn leaves one less.
LEMMA TurnShrinks ==
    ASSUME Types, NEW kinds, Turn(kinds)
    PROVE  StepsLeft' < StepsLeft
  <1>1. /\ pc = "sequence" /\ pc' = "sequence" /\ next' = next + 1 /\ UNCHANGED clock
        /\ next \in Nat /\ Len(Monitors) \in Nat
    BY MonitorsAssumption DEF Turn, Types, PhaseType
  <1>2. ClockLeft' = ClockLeft /\ ClockLeft \in Nat
    BY <1>1 DEF ClockLeft, One, clock
  <1>3. QED
    BY <1>1, <1>2 DEF StepsLeft, LoopLeft

\* Every step of a cycle leaves less to do.
LEMMA CycleShrinks ==
    ASSUME CycleInv, Next, pc # "idle"
    PROVE  StepsLeft' < StepsLeft
  <1> USE DEF CycleInv
  <1>1. CASE BecomeLate \/ Expire \/ Shutdown
    <2>1. UNCHANGED <<pc, query, next>> /\ pc' # "idle"
      BY <1>1 DEF BecomeLate, Expire, Shutdown, goroutines
    <2>2. ClockLeft' < ClockLeft /\ ClockLeft' \in Nat /\ ClockLeft \in Nat
      BY <1>1 DEF BecomeLate, Expire, Shutdown, ClockLeft, One, Types, FlagType
    <2>3. LoopLeft' = LoopLeft
      BY <2>1 DEF LoopLeft, Waiting, Running
    <2>4. LoopLeft \in Int
      BY QueriesCounted, MonitorsAssumption DEF LoopLeft, Types, PhaseType
    <2>5. ClockLeft' + LoopLeft' < ClockLeft + LoopLeft
      <3>1. ClockLeft' <= ClockLeft /\ ClockLeft \in Int /\ ClockLeft' \in Int
        BY <2>2
      <3>2. LoopLeft' <= LoopLeft /\ LoopLeft' \in Int
        BY <2>3, <2>4
      <3>3. QED
        BY <2>2, <2>4, <3>1, <3>2, SumShrinks
    <2>6. QED
      BY <2>1, <2>5 DEF StepsLeft
  <1>2. CASE Start
    BY <1>2 DEF Start
  <1>3. ASSUME NEW i \in Queries, Acquire(i) \/ Skip(i) \/ Answer(i) \/ Abort(i)
        PROVE  StepsLeft' < StepsLeft
    <2>1. PICK to \in {"running", "done"} :
             /\ query[i] # "done" /\ to # query[i]
             /\ query' = [query EXCEPT ![i] = to]
      BY <1>3 DEF Acquire, Skip, Answer, Abort, Return
    <2>2. UNCHANGED <<pc, clock, next>>
      BY <1>3 DEF Acquire, Skip, Answer, Abort, Return
    <2>3. QED
      BY <2>1, <2>2, QueryShrinks
  <1>4. CASE Wait
    <2>1. pc = "queries" /\ pc' = "sequence" /\ next' = 1 /\ UNCHANGED clock
      BY <1>4 DEF Wait
    <2>2. ClockLeft' = ClockLeft /\ ClockLeft \in Nat
      BY <2>1 DEF ClockLeft, One, clock
    <2>3. QED
      BY <2>1, <2>2, QueriesCounted, MonitorsAssumption DEF StepsLeft, LoopLeft
  <1>5. CASE TakeQuery \/ RunSystem \/ EvaluateOp
    BY <1>5, TurnShrinks DEF TakeQuery, RunSystem, EvaluateOp
  <1>6. CASE Finish
    <2>1. /\ pc = "sequence" /\ pc' = "idle"
          /\ next \in 1 .. Len(Monitors) + 1 /\ Len(Monitors) \in Nat
      BY <1>6, MonitorsAssumption DEF Finish, Types, PhaseType
    <2>2. ClockLeft \in Nat
      BY DEF ClockLeft, One
    <2>3. QED
      BY <2>1, <2>2 DEF StepsLeft, LoopLeft
  <1>7. QED
    BY <1>1, <1>2, <1>3, <1>4, <1>5, <1>6 DEF Next

-----------------------------------------------------------------------------
(* The theorems.                                                           *)

\* Types hold, and no more than MaxSimultaneousQueries queries of a sensor
\* run at once, each on a slot of its own (processor.go).
THEOREM CycleTypes == Spec => []TypeOK
  <1>1. CycleInv => TypeOK
    <2> SUFFICES ASSUME CycleInv PROVE TypeOK
      OBVIOUS
    <2> USE DEF CycleInv, Types
    <2>1. sem = Cardinality({i \in Queries : query[i] = "running"}) /\ sem <= Limit
      BY DEF SlotsInv, Running
    <2>2. \A i \in Ids : newStates[i] = Nil \/ newStates[i] \in States
      BY DEF QueryType
    <2>3. /\ \A k \in Keys : vals[k] = Nil \/ vals[k] \in States
          /\ \A n \in Names : cache[n] = Nil \/ cache[n] \in States
      BY DEF ValueType
    <2>4. \A j \in DOMAIN out : out[j].mon \in Ids /\ out[j].state \in States
      BY OutShape
    <2>5. QED
      BY <2>1, <2>2, <2>3, <2>4 DEF TypeOK, PhaseType, FlagType, QueryType
  <1>2. QED
    BY <1>1, CycleInvariant, PTL

\* In whatever order the goroutines finish, every cycle publishes its
\* monitors in the order of the configuration, each once and with its own
\* value of this cycle (newStates[idx], processor.go).
THEOREM OrderOfMonitors == Spec => []PublishedInOrder
  <1>1. CycleInv => PublishedInOrder
    BY DEF CycleInv, OutInv, Sound, Fresh, PublishedInOrder
  <1>2. QED
    BY <1>1, CycleInvariant, PTL

\* A placeholder that a cycle publishes, or computes an op with, always
\* stands for a query or command of that cycle that failed, and the sensor is
\* counted as failing, or for an answer that was no number; never for a plugin
\* with NoValueOnError (parseRawOutput and processSinglePlugin, processor.go).
THEOREM ZerosAccountedFor == Spec => []ZeroAccountedFor
  <1>1. CycleInv => ZeroAccountedFor
    <2> SUFFICES ASSUME CycleInv, NEW j \in DOMAIN out,
                        NEW o \in {Origin(out[j].state)} \cup out[j].state.uses,
                        o.cycle = cycle, ~o.real
                 PROVE  /\ ~Monitors[o.mon].muted
                        /\ \/ answer[o.mon] = "no number"
                           \/ answer[o.mon] = "failed" /\ hasError
      BY DEF ZeroAccountedFor
    <2>1. /\ out[j].mon \in Ids /\ out[j].state \in States
          /\ Fresh(out[j].mon, out[j].state)
      BY OutShape DEF CycleInv, Types, OutInv, Sound
    <2>2. o.mon \in Ids /\ NoNumber(o.mon)
      <3>1. CASE o = Origin(out[j].state)
        BY <2>1, <3>1 DEF Origin, Fresh
      <3>2. CASE o \in out[j].state.uses
        BY <2>1, <3>2, OriginShape DEF CycleInv, ZerosInv, Explained
      <3>3. QED
        BY <3>1, <3>2
    <2>3. QED
      BY <2>2 DEF NoNumber, CycleInv, ErrorInv
  <1>2. QED
    BY <1>1, CycleInvariant, PTL

\* No op ever uses the cached value of a variable that a query or command
\* before it has delivered in this cycle (currentVals, processor.go).
THEOREM CacheOnlyIfMissing == Spec => []OldOnlyIfMissing
  <1>1. CycleInv => OldOnlyIfMissing
    <2> SUFFICES ASSUME CycleInv, NEW j \in DOMAIN out,
                        NEW u \in out[j].state.uses, u.cycle < cycle,
                        NEW i \in 1 .. out[j].mon - 1,
                        Monitors[i].name = Monitors[u.mon].name, HasValue(i)
                 PROVE  FALSE
      BY DEF OldOnlyIfMissing
    <2>1. out[j].mon \in Ids
      BY OutShape DEF CycleInv, Types
    <2>2. i \in Ids /\ i < out[j].mon
      BY <2>1, MonitorsAssumption
    <2>3. Missing(Monitors[u.mon].name, out[j].mon)
      BY DEF CycleInv, OutInv, Sound
    <2>4. QED
      BY <2>2, <2>3 DEF Missing
  <1>2. QED
    BY <1>1, CycleInvariant, PTL

\* The step that ends a cycle is Finish.
LEMMA EndIsFinish ==
    ASSUME CycleInv, [Next]_vars, pc = "sequence", pc' = "idle"
    PROVE  /\ failure' = (late \/ hasError)
           /\ UNCHANGED <<answer, stopped, late>>
  <1>1. Finish
    BY DEF Next, BecomeLate, Expire, Shutdown, Start, Acquire, Skip, Answer,
           Abort, Return, Wait, TakeQuery, RunSystem, EvaluateOp, Turn, vars
  <1>2. QED
    BY <1>1 DEF Finish, HadFailure, goroutines, clock

\* Every cycle in which a query or a command failed, or a query was skipped
\* before the shutdown, is a failure of the sensor (hadFailure, processor.go).
THEOREM FailuresSeen == Spec => FailureIsSeen
  <1> DEFINE Seen == pc = "sequence" /\ pc' = "idle" /\ ~failure' =>
          \A i \in Ids : answer[i] # "failed" /\ (answer[i] = "skipped" => stopped)
  <1>1. CycleInv /\ [Next]_vars => [Seen]_vars
    <2> SUFFICES ASSUME CycleInv, [Next]_vars,
                        pc = "sequence", pc' = "idle", ~failure', NEW i \in Ids
                 PROVE  answer[i] # "failed" /\ (answer[i] = "skipped" => stopped)
      OBVIOUS
    <2>1. ~late /\ ~hasError
      BY EndIsFinish
    <2>2. QED
      BY <2>1 DEF CycleInv, ErrorInv, Types, FlagType
  <1> HIDE DEF Seen
  <1>2. Spec => [][Seen]_vars
    BY <1>1, CycleInvariant, PTL DEF Spec
  <1>3. QED
    BY <1>2 DEF Seen, FailureIsSeen

\* A cycle that was in time and met no failure never counts as one,
\* whatever OIDs and samples are missing (processor.go).
THEOREM NothingElseCounts == Spec => OnlyFailuresCount
  <1> DEFINE Only == pc = "sequence" /\ pc' = "idle" /\ failure' =>
          late \/ \E i \in Ids : answer[i] = "failed"
  <1>1. CycleInv /\ [Next]_vars => [Only]_vars
    <2> SUFFICES ASSUME CycleInv, [Next]_vars,
                        pc = "sequence", pc' = "idle", failure'
                 PROVE  late \/ \E i \in Ids : answer[i] = "failed"
      OBVIOUS
    <2>1. late \/ hasError
      BY EndIsFinish
    <2>2. QED
      BY <2>1 DEF CycleInv, ErrorInv
  <1> HIDE DEF Only
  <1>2. Spec => [][Only]_vars
    BY <1>1, CycleInvariant, PTL DEF Spec
  <1>3. QED
    BY <1>2 DEF Only, OnlyFailuresCount

\* A cycle has a bounded number of steps, in its goroutines and in its loop,
\* and each leaves fewer: nothing in ProcessSensor goes round.
THEOREM CycleAdvances ==
    Spec => /\ [](StepsLeft \in 0 .. MostSteps)
            /\ [][pc # "idle" => StepsLeft' < StepsLeft]_vars
  <1>1. CycleInv => StepsLeft \in 0 .. MostSteps
    BY StepsBounded DEF CycleInv
  <1>2. CycleInv /\ [Next]_vars => [pc # "idle" => StepsLeft' < StepsLeft]_vars
    BY CycleShrinks
  <1>3. QED
    BY <1>1, <1>2, CycleInvariant, PTL DEF Spec

\* A goroutine that finds no slot waits for one that runs and will free its
\* own: the slots of queries that ended are all back (sem, processor.go).
THEOREM SlotsComeBack ==
    Spec => [](\A i \in Queries : query[i] = "waiting" =>
                  SlotFree \/ \E j \in Queries : query[j] = "running")
  <1>1. CycleInv => \A i \in Queries : query[i] = "waiting" =>
                       SlotFree \/ \E j \in Queries : query[j] = "running"
    <2> SUFFICES ASSUME CycleInv, ~SlotFree
                 PROVE  \E j \in Queries : query[j] = "running"
      OBVIOUS
    <2>1. Cardinality(Running) > 0
      BY QueriesCounted, LimitAssumption DEF CycleInv, SlotsInv, SlotFree
    <2>2. Running # {}
      BY <2>1, FS_EmptySet
    <2>3. QED
      BY <2>2 DEF Running
  <1>2. QED
    BY <1>1, CycleInvariant, PTL
=============================================================================
