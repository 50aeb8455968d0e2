------------------------- MODULE GovcSessionProofs -------------------------
(* Proofs about GovcSession: for any number of monitors, vCenters and      *)
(* queries, the retry works with a valid session, logins are not repeated, *)
(* and a query makes a bounded number of steps.                            *)
EXTENDS GovcSession, TLAPS

\* The first query, and one that is being retried, has no result yet.
Unanswered == \A q \in Queries : pc[q] # "idle" => result[q] = "none"

\* Where a query works with a session.
Working == {"resolve", "fetch", "datastores"}

\* Once a query has deleted the entry, what its key has in the cache, and
\* what the query works with, is valid as long as no session of the key ends.
RetryValid ==
    \A q \in Queries : attempt[q] = 2 /\ ~hit[q] =>
        /\ pc[q] \in {"get", "login"} \cup Working /\ cached[KeyOf[q]] # None
             => cached[KeyOf[q]] \in live[KeyOf[q]]
        /\ pc[q] \in Working => Valid(q)

HealInv == TypeOK /\ Unanswered /\ RetryValid /\ RetryFindsSession

\* The lock is held through a login, which finds no entry; a key without
\* one has no more sessions than deletions.
LoginInv ==
    /\ \A q \in Queries : pc[q] = "login" => lock = q /\ cached[KeyOf[q]] = None
    /\ \A k \in Keys : cached[k] = None => opened[k] <= evictions[k]

-----------------------------------------------------------------------------
(* Types.                                                                  *)

\* The initial state is typed.
LEMMA TypeInit == Init => TypeOK
  BY DEF Init, TypeOK, Steps, Results

\* The end of an attempt, as every action that ends one has it.
LEMMA ReturnTypes ==
    ASSUME TypeOK, NEW q \in Queries, NEW r \in Results, Return(q, r)
    PROVE  /\ pc' \in [Queries -> Steps]
           /\ client' \in [Queries -> Nat \cup {None}]
           /\ result' \in [Queries -> Results]
  BY DEF TypeOK, Return, Go, Steps

\* The steps that end an attempt.
EndsAttempt(q) ==
    Fetch(q) \/ FetchStores(q) \/ Misses(q) \/ Refused(q) \/ Breaks(q) \/ Abort(q)

\* What they have in common: only a login frees the lock, and only a session
\* that has ended is found lost, by whoever works with it.
LEMMA EndingStep ==
    ASSUME NEW q \in Queries, EndsAttempt(q)
    PROVE  \E r \in Results :
              /\ Return(q, r)
              /\ UNCHANGED <<attempt, runs, cached, vcenter, evictions, hit>>
              /\ pc[q] \in Working \cup {"login"}
              /\ lock' = IF pc[q] = "login" THEN None ELSE lock
              /\ r \in {"session", "hidden"} => ~Valid(q) /\ pc[q] \in Working
  <1> DEFINE Result(r) ==
              /\ Return(q, r)
              /\ UNCHANGED <<attempt, runs, cached, vcenter, evictions, hit>>
              /\ pc[q] \in Working \cup {"login"}
              /\ lock' = IF pc[q] = "login" THEN None ELSE lock
              /\ r \in {"session", "hidden"} => ~Valid(q) /\ pc[q] \in Working
  <1> USE DEF Working
  <1>1. CASE Fetch(q) \/ FetchStores(q)
    <2>1. Result("value")
      BY <1>1 DEF Fetch, FetchStores, Ends
    <2>2. QED
      BY <2>1 DEF Results
  <1>2. CASE Misses(q) \/ (NoStores(q) /\ ~Valid(q))
    <2>1. Result("hidden")
      BY <1>2 DEF Misses, NoStores, Ends
    <2>2. QED
      BY <2>1 DEF Results
  <1>3. CASE Refused(q)
    <2>1. Result("session")
      BY <1>3 DEF Refused, CallFails, Ends
    <2>2. QED
      BY <2>1 DEF Results
  <1>4. CASE Breaks(q)
    <2>1. Result("network")
      BY <1>4 DEF Breaks, CallFails, LoginFails, Ends
    <2>2. QED
      BY <2>1 DEF Results
  <1>5. CASE CallFails(q, "other") \/ LoginFails(q, "other") \/ (NoStores(q) /\ Valid(q))
    <2>1. Result("other")
      BY <1>5 DEF CallFails, LoginFails, NoStores, Ends
    <2>2. QED
      BY <2>1 DEF Results
  <1>6. QED
    BY <1>1, <1>2, <1>3, <1>4, <1>5 DEF EndsAttempt, Abort

\* No step breaks the types.
LEMMA TypeStep == TypeOK /\ [Next]_vars => TypeOK'
  <1> SUFFICES ASSUME TypeOK, [Next]_vars PROVE TypeOK'
    OBVIOUS
  <1> USE KeyAssumption DEF query, vcenter, Go
  <1>1. ASSUME NEW q \in Queries, Start(q) PROVE TypeOK'
    BY <1>1 DEF Start, TypeOK, Steps, Results
  <1>2. ASSUME NEW q \in Queries, GetCached(q) PROVE TypeOK'
    BY <1>2 DEF GetCached, TypeOK, Steps
  <1>3. ASSUME NEW q \in Queries, GetNone(q) PROVE TypeOK'
    BY <1>3 DEF GetNone, TypeOK, Steps
  <1>4. ASSUME NEW q \in Queries, LoginDone(q) PROVE TypeOK'
    BY <1>4 DEF LoginDone, TypeOK, Steps
  <1>5. ASSUME NEW q \in Queries, Resolve(q) PROVE TypeOK'
    BY <1>5 DEF Resolve, TypeOK, Steps
  <1>6. ASSUME NEW q \in Queries, FetchHost(q) PROVE TypeOK'
    BY <1>6 DEF FetchHost, TypeOK, Steps
  <1>7. ASSUME NEW q \in Queries, Evict(q) PROVE TypeOK'
    BY <1>7 DEF Evict, Drop, TypeOK, Steps
  <1>8. ASSUME NEW q \in Queries, EndsAttempt(q) PROVE TypeOK'
    <2>1. PICK r \in Results : /\ Return(q, r)
                               /\ UNCHANGED <<attempt, runs, cached, vcenter, evictions, hit>>
                               /\ lock' \in {lock, None}
      BY <1>8, EndingStep
    <2>2. QED
      BY <2>1, ReturnTypes DEF TypeOK
  <1>9. ASSUME NEW k \in Keys, NEW s \in live[k], Expire(k, s) PROVE TypeOK'
    BY <1>9 DEF Expire, TypeOK
  <1>10. CASE UNCHANGED vars
    BY <1>10 DEF vars, TypeOK
  <1>11. QED
    BY <1>1, <1>2, <1>3, <1>4, <1>5, <1>6, <1>7, <1>8, <1>9, <1>10 DEF Next, EndsAttempt

-----------------------------------------------------------------------------
(* The retry.                                                              *)

\* Nothing is asked or answered at first.
LEMMA HealInit == Init => HealInv
  BY TypeInit DEF Init, HealInv, Unanswered, RetryValid, RetryFindsSession

\* An attempt that ends without a lost session, or with a session that was
\* lost after the deletion, keeps the invariant.
LEMMA ReturnHeals ==
    ASSUME HealInv, NEW q \in Queries, NEW r \in Results, Return(q, r), pc[q] # "idle",
           r \in {"session", "hidden"} => ~Valid(q) /\ pc[q] \in Working,
           UNCHANGED <<attempt, cached, live, hit>>
    PROVE  Unanswered' /\ RetryValid' /\ RetryFindsSession'
  <1> USE DEF HealInv
  <1>1. /\ pc'[q] \in {"evict", "idle"}
        /\ \A p \in Queries \ {q} : pc'[p] = pc[p] /\ client'[p] = client[p] /\ result'[p] = result[p]
    BY DEF Return, Go, TypeOK
  <1>2. Unanswered'
    BY <1>1 DEF Unanswered, Return, Go, TypeOK
  <1>3. RetryValid'
    BY <1>1 DEF RetryValid, Valid, Working
  <1>4. RetryFindsSession'
    <2>1. result[q] = "none"
      BY DEF Unanswered
    <2>2. ASSUME result'[q] \in {"session", "hidden"}
          PROVE  r = result'[q] /\ ~Retries(q, r)
      BY <2>1, <2>2 DEF Return, TypeOK
    <2>3. result'[q] = "session" => attempt[q] = 2
      BY <2>2 DEF Retries, Lost, TypeOK
    <2>4. result'[q] \in {"session", "hidden"} /\ attempt[q] = 2 => hit[q]
      BY <2>2 DEF RetryValid
    <2>5. QED
      BY <1>1, <2>3, <2>4 DEF RetryFindsSession
  <1>5. QED
    BY <1>2, <1>3, <1>4

\* No step breaks the invariant of the retry.
LEMMA HealStep == HealInv /\ [Next]_vars => HealInv'
  <1> SUFFICES ASSUME HealInv, [Next]_vars
               PROVE  Unanswered' /\ RetryValid' /\ RetryFindsSession'
    BY TypeStep DEF HealInv
  <1> DEFINE Goal == Unanswered' /\ RetryValid' /\ RetryFindsSession'
  <1> USE KeyAssumption DEF query, vcenter, Go, HealInv, Working
  <1>1. ASSUME NEW q \in Queries, Start(q) PROVE Goal
    BY <1>1 DEF Start, TypeOK, Unanswered, RetryValid, RetryFindsSession, Valid
  <1>2. ASSUME NEW q \in Queries, GetCached(q) PROVE Goal
    BY <1>2 DEF GetCached, TypeOK, Unanswered, RetryValid, RetryFindsSession, Valid
  <1>3. ASSUME NEW q \in Queries, GetNone(q) PROVE Goal
    BY <1>3 DEF GetNone, TypeOK, Unanswered, RetryValid, RetryFindsSession, Valid
  <1>4. ASSUME NEW q \in Queries, LoginDone(q) PROVE Goal
    BY <1>4 DEF LoginDone, TypeOK, Unanswered, RetryValid, RetryFindsSession, Valid
  <1>5. ASSUME NEW q \in Queries, Resolve(q) PROVE Goal
    BY <1>5 DEF Resolve, TypeOK, Unanswered, RetryValid, RetryFindsSession, Valid
  <1>6. ASSUME NEW q \in Queries, FetchHost(q) PROVE Goal
    BY <1>6 DEF FetchHost, TypeOK, Unanswered, RetryValid, RetryFindsSession, Valid
  <1>7. ASSUME NEW q \in Queries, Evict(q) PROVE Goal
    BY <1>7 DEF Evict, Drop, TypeOK, Unanswered, RetryValid, RetryFindsSession, Valid
  <1>8. ASSUME NEW q \in Queries, EndsAttempt(q) PROVE Goal
    <2>1. PICK r \in Results :
              /\ Return(q, r)
              /\ UNCHANGED <<attempt, runs, cached, vcenter, evictions, hit>>
              /\ pc[q] \in Working \cup {"login"}
              /\ r \in {"session", "hidden"} => ~Valid(q) /\ pc[q] \in Working
      BY <1>8, EndingStep
    <2>2. pc[q] # "idle"
      BY <2>1
    <2>3. QED
      BY <2>1, <2>2, ReturnHeals
  <1>9. ASSUME NEW k \in Keys, NEW s \in live[k], Expire(k, s) PROVE Goal
    BY <1>9 DEF Expire, TypeOK, Unanswered, RetryValid, RetryFindsSession, Valid
  <1>10. CASE UNCHANGED vars
    BY <1>10 DEF vars, Unanswered, RetryValid, RetryFindsSession, Valid
  <1>11. QED
    BY <1>1, <1>2, <1>3, <1>4, <1>5, <1>6, <1>7, <1>8, <1>9, <1>10 DEF Next, EndsAttempt

-----------------------------------------------------------------------------
(* The lock.                                                               *)

\* No session at first.
LEMMA LoginInit == Init => LoginInv /\ OneLogin
  BY DEF Init, LoginInv, OneLogin

\* No step breaks the invariant of the lock.
LEMMA LoginStep ==
    TypeOK /\ LoginInv /\ OneLogin /\ [Next]_vars => LoginInv' /\ OneLogin'
  <1> SUFFICES ASSUME TypeOK, LoginInv, OneLogin, [Next]_vars PROVE LoginInv' /\ OneLogin'
    OBVIOUS
  <1> USE KeyAssumption, NoneAssumption DEF query, vcenter, Go, TypeOK
  <1>1. ASSUME NEW q \in Queries, Start(q) PROVE LoginInv' /\ OneLogin'
    BY <1>1 DEF Start, LoginInv, OneLogin
  <1>2. ASSUME NEW q \in Queries, GetCached(q) PROVE LoginInv' /\ OneLogin'
    BY <1>2 DEF GetCached, LoginInv, OneLogin
  <1>3. ASSUME NEW q \in Queries, GetNone(q) PROVE LoginInv' /\ OneLogin'
    BY <1>3 DEF GetNone, LockFree, LoginInv, OneLogin
  <1>4. ASSUME NEW q \in Queries, LoginDone(q) PROVE LoginInv' /\ OneLogin'
    BY <1>4 DEF LoginDone, LoginInv, OneLogin
  <1>5. ASSUME NEW q \in Queries, Resolve(q) PROVE LoginInv' /\ OneLogin'
    BY <1>5 DEF Resolve, LoginInv, OneLogin
  <1>6. ASSUME NEW q \in Queries, Evict(q) PROVE LoginInv' /\ OneLogin'
    BY <1>6 DEF Evict, Drop, LockFree, LoginInv, OneLogin
  <1>7. ASSUME NEW q \in Queries, EndsAttempt(q) PROVE LoginInv' /\ OneLogin'
    <2>1. /\ pc'[q] # "login" /\ \A p \in Queries \ {q} : pc'[p] = pc[p]
          /\ UNCHANGED <<cached, opened, evictions>>
          /\ lock' = IF pc[q] = "login" THEN None ELSE lock
      BY <1>7, EndingStep DEF Return
    <2>2. QED
      BY <2>1 DEF LoginInv, OneLogin
  <1>8. ASSUME NEW q \in Queries, FetchHost(q) PROVE LoginInv' /\ OneLogin'
    BY <1>8 DEF FetchHost, LoginInv, OneLogin
  <1>9. ASSUME NEW k \in Keys, NEW s \in live[k], Expire(k, s) PROVE LoginInv' /\ OneLogin'
    BY <1>9 DEF Expire, LoginInv, OneLogin
  <1>10. CASE UNCHANGED vars
    BY <1>10 DEF vars, LoginInv, OneLogin
  <1>11. QED
    BY <1>1, <1>2, <1>3, <1>4, <1>5, <1>6, <1>7, <1>8, <1>9, <1>10 DEF Next, EndsAttempt

-----------------------------------------------------------------------------
(* The steps of a query.                                                   *)

Rank(step) ==
    CASE step = "get" -> 6
      [] step = "login" -> 5
      [] step = "resolve" -> 4
      [] step = "fetch" -> 3
      [] step = "datastores" -> 2
      [] step = "evict" -> 1
      [] OTHER -> 0

\* What a query has left: the rest of its attempt, and one more attempt if
\* this is the first.
StepsLeft(q) == IF pc[q] = "idle" THEN 0 ELSE Rank(pc[q]) + 6 * (2 - attempt[q])

\* A query once begun stays where it is or has less left.
Advances(q) == pc[q] # "idle" =>
    \/ pc'[q] = pc[q] /\ attempt'[q] = attempt[q]
    \/ StepsLeft(q)' < StepsLeft(q)

\* Only a query in its login holds the lock, and only the second attempt
\* returns a lost session, so that a deletion follows a first attempt.
LockInv ==
    /\ lock # None => pc[lock] = "login"
    /\ \A q \in Queries : pc[q] = "login" => lock = q
    /\ \A q \in Queries : pc[q] = "evict" => attempt[q] = 1

\* The lock is free at first.
LEMMA LockInit == Init => LockInv
  BY DEF Init, LockInv

\* The end of an attempt is progress for its query.
LEMMA ReturnAdvances ==
    ASSUME TypeOK, NEW q \in Queries, NEW r \in Results, Return(q, r),
           pc[q] \in Working \cup {"login"}, attempt' = attempt
    PROVE  /\ pc'[q] \in {"evict", "idle"} /\ (pc'[q] = "evict" => attempt[q] = 1)
           /\ \A p \in Queries : Advances(p)
  <1>1. /\ pc'[q] \in {"evict", "idle"} /\ (pc'[q] = "evict" => attempt[q] = 1)
        /\ \A p \in Queries \ {q} : pc'[p] = pc[p]
    BY DEF Return, Retries, Go, TypeOK
  <1>2. attempt[q] \in {1, 2}
    BY DEF TypeOK
  <1>3. StepsLeft(q)' < StepsLeft(q)
    BY <1>1, <1>2 DEF StepsLeft, Rank, Working
  <1>4. QED
    BY <1>1, <1>3 DEF Advances

\* A step of one query that lowers its rank within the attempt.
LEMMA RankAdvances ==
    ASSUME TypeOK, NEW q \in Queries, NEW step \in Steps \ {"idle"}, Go(q, step),
           pc[q] # "idle", Rank(step) < Rank(pc[q]), attempt' = attempt
    PROVE  \A p \in Queries : Advances(p)
  <1>1. pc'[q] = step /\ \A p \in Queries \ {q} : pc'[p] = pc[p]
    BY DEF Go, TypeOK
  <1>2. attempt[q] \in {1, 2} /\ Rank(step) \in Nat /\ Rank(pc[q]) \in Nat
    BY DEF TypeOK, Rank
  <1>3. StepsLeft(q)' < StepsLeft(q)
    BY <1>1, <1>2 DEF StepsLeft
  <1>4. QED
    BY <1>1, <1>3 DEF Advances

\* No step breaks the invariant of the lock's holder, and each is progress
\* for its query.
LEMMA AdvanceStep ==
    TypeOK /\ LockInv /\ [Next]_vars => LockInv' /\ \A q \in Queries : Advances(q)
  <1> SUFFICES ASSUME TypeOK, LockInv, [Next]_vars
               PROVE  LockInv' /\ \A q \in Queries : Advances(q)
    OBVIOUS
  <1> DEFINE Goal == LockInv' /\ \A p \in Queries : Advances(p)
  <1> USE NoneAssumption
  <1>1. ASSUME NEW q \in Queries, Start(q) PROVE Goal
    BY <1>1 DEF Start, Go, TypeOK, LockInv, Advances
  <1>2. ASSUME NEW q \in Queries, GetCached(q) PROVE Goal
    <2>1. PICK step \in {"resolve", "fetch"} : Go(q, step)
      BY <1>2 DEF GetCached
    <2>2. \A p \in Queries : Advances(p)
      BY <1>2, <2>1, RankAdvances DEF GetCached, Rank, Steps
    <2>3. LockInv'
      BY <1>2, <2>1 DEF GetCached, LockFree, Go, TypeOK, LockInv
    <2>4. QED
      BY <2>2, <2>3
  <1>3. ASSUME NEW q \in Queries, GetNone(q) PROVE Goal
    <2>1. \A p \in Queries : Advances(p)
      BY <1>3, RankAdvances DEF GetNone, Rank, Steps
    <2>2. LockInv'
      BY <1>3 DEF GetNone, LockFree, Go, TypeOK, LockInv
    <2>3. QED
      BY <2>1, <2>2
  <1>4. ASSUME NEW q \in Queries, LoginDone(q) PROVE Goal
    <2>1. \A p \in Queries : Advances(p)
      BY <1>4, RankAdvances DEF LoginDone, Rank, Steps
    <2>2. LockInv'
      BY <1>4 DEF LoginDone, Go, TypeOK, LockInv
    <2>3. QED
      BY <2>1, <2>2
  <1>5. ASSUME NEW q \in Queries, Resolve(q) PROVE Goal
    <2>1. \A p \in Queries : Advances(p)
      BY <1>5, RankAdvances DEF Resolve, Rank, Steps
    <2>2. LockInv'
      BY <1>5 DEF Resolve, Go, TypeOK, LockInv
    <2>3. QED
      BY <2>1, <2>2
  <1>6. ASSUME NEW q \in Queries, FetchHost(q) PROVE Goal
    <2>1. \A p \in Queries : Advances(p)
      BY <1>6, RankAdvances DEF FetchHost, Rank, Steps
    <2>2. LockInv'
      BY <1>6 DEF FetchHost, Go, TypeOK, LockInv
    <2>3. QED
      BY <2>1, <2>2
  <1>7. ASSUME NEW q \in Queries, EndsAttempt(q) PROVE Goal
    <2>1. PICK r \in Results :
              /\ Return(q, r) /\ attempt' = attempt
              /\ pc[q] \in Working \cup {"login"}
              /\ lock' = IF pc[q] = "login" THEN None ELSE lock
      BY <1>7, EndingStep
    <2>2. /\ pc[q] \in Working \cup {"login"} /\ attempt' = attempt
          /\ IF pc[q] = "login" THEN lock' = None ELSE lock' = lock
      BY <2>1
    <2>3. /\ pc'[q] \in {"evict", "idle"} /\ (pc'[q] = "evict" => attempt[q] = 1)
          /\ \A p \in Queries : Advances(p)
      BY <2>1, <2>2, ReturnAdvances
    <2>4. \A p \in Queries \ {q} : pc'[p] = pc[p]
      BY <2>1 DEF Return, Go, TypeOK
    <2>5. LockInv'
      BY <2>2, <2>3, <2>4 DEF LockInv, TypeOK
    <2>6. QED
      BY <2>3, <2>5
  <1>8. ASSUME NEW q \in Queries, Evict(q) PROVE Goal
    <2>1. /\ pc[q] = "evict" /\ pc'[q] = "get" /\ attempt[q] = 1 /\ attempt'[q] = 2
          /\ \A p \in Queries \ {q} : pc'[p] = pc[p] /\ attempt'[p] = attempt[p]
      BY <1>8 DEF Evict, Go, TypeOK, LockInv
    <2>2. StepsLeft(q)' < StepsLeft(q)
      BY <2>1 DEF StepsLeft, Rank
    <2>3. \A p \in Queries : Advances(p)
      BY <2>1, <2>2 DEF Advances
    <2>4. LockInv'
      BY <1>8, <2>1 DEF Evict, LockFree, LockInv
    <2>5. QED
      BY <2>3, <2>4
  <1>9. ASSUME NEW k \in Keys, NEW s \in live[k], Expire(k, s) PROVE Goal
    BY <1>9 DEF Expire, query, LockInv, Advances
  <1>10. CASE UNCHANGED vars
    BY <1>10 DEF vars, query, LockInv, Advances
  <1>11. QED
    BY <1>1, <1>2, <1>3, <1>4, <1>5, <1>6, <1>7, <1>8, <1>9, <1>10 DEF Next, EndsAttempt

-----------------------------------------------------------------------------
(* Theorems.                                                               *)

\* The variables of the session cache, the queries and vCenter keep their
\* types.
THEOREM GovcTypes == Spec => []TypeOK
  BY TypeInit, TypeStep, PTL DEF Spec

\* However many queries share, delete and replace the entry, the retry of
\* GovcPlugin works with a session that is valid until the next one ends: it
\* meets no lost session, and what a first attempt sees lost is retried.
THEOREM RetryHasSession == Spec => []RetryFindsSession
  <1>1. HealInv => RetryFindsSession
    BY DEF HealInv
  <1>2. QED
    BY <1>1, HealInit, HealStep, PTL DEF Spec

\* Queries that find no entry at once do not log in twice.
THEOREM LoginOnce == Spec => []OneLogin
  BY LoginInit, LoginStep, GovcTypes, PTL DEF Spec

\* The retry of GovcPlugin does not go round: a query has at most twelve steps
\* left, each of its steps leaves fewer, and what it may have to wait for,
\* govcCacheMu, is held by a login alone.
THEOREM QueriesAdvance ==
    Spec => /\ [](\A q \in Queries : StepsLeft(q) \in 0 .. 12)
            /\ [](lock # None => pc[lock] = "login")
            /\ [][\A q \in Queries : Advances(q)]_vars
  <1> DEFINE I == TypeOK /\ LockInv
  <1>1. Init => I
    BY TypeInit, LockInit
  <1>2. I /\ [Next]_vars => I'
    BY TypeStep, AdvanceStep
  <1>3. I => \A q \in Queries : StepsLeft(q) \in 0 .. 12
    <2> SUFFICES ASSUME TypeOK, NEW q \in Queries PROVE StepsLeft(q) \in 0 .. 12
      OBVIOUS
    <2>1. attempt[q] \in {1, 2} /\ Rank(pc[q]) \in 0 .. 6
      BY DEF TypeOK, Rank
    <2>2. QED
      BY <2>1 DEF StepsLeft
  <1>4. I => (lock # None => pc[lock] = "login")
    BY DEF LockInv
  <1>5. I /\ [Next]_vars => [\A q \in Queries : Advances(q)]_vars
    BY AdvanceStep
  <1>6. QED
    BY <1>1, <1>2, <1>3, <1>4, <1>5, PTL DEF Spec
=============================================================================
