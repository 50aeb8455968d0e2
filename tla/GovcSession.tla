---------------------------- MODULE GovcSession ----------------------------
(***************************************************************************)
(* internal/monitor/plugins.go: the sessions of the govc plugin.  Monitors *)
(* of any sensors share a session per vCenter and user, kept in            *)
(* govcSessionCache under govcCacheMu, which is held through a login.  A   *)
(* query that meets an error that looks like a lost session deletes the    *)
(* entry and tries once more.  vCenter is external: it ends sessions when  *)
(* it likes, answers, breaks a connection or stays silent; every call ends *)
(* by the context of the query.                                            *)
(***************************************************************************)
EXTENDS Integers, FiniteSets

CONSTANTS
    Queries,        \* the monitors with this plugin
    Keys,           \* "host:username"
    KeyOf,          \* the key of a monitor
    DiskUsage,      \* the monitors whose metric is a host's disk_usage
    None,           \* no session, no lock holder
    MaxRuns         \* bound: queries of one monitor

ASSUME KeyAssumption == KeyOf \in [Queries -> Keys]
ASSUME NoneAssumption == None \notin Queries /\ None \notin Nat
ASSUME RunsAssumption == MaxRuns \in Nat

Steps == {"idle", "get", "login", "resolve", "fetch", "datastores", "evict"}

\* What an attempt may return: a value, an error GovcPlugin takes for a lost
\* session ("session": NotAuthenticated; "network": a broken connection, or a
\* login refused, whose text names the login), or another one.  "hidden" is
\* another one behind which there is a lost session: the call that met it
\* was passed over, and the text tells what was missing then.
Results == {"none", "value", "session", "network", "hidden", "other"}
Lost == {"session", "network"}

\* A session is known by its key and its number among those of the key.
VARIABLES
    pc, attempt,    \* where a query is, and at which attempt
    client,         \* the session it works with
    result,         \* what the last query of the monitor returned
    runs,           \* queries begun
    lock,           \* the holder of govcCacheMu while it logs in
    cached,         \* govcSessionCache: the session of each key
    opened,         \* vCenter: sessions ever opened, by key
    live,           \* vCenter: those that are valid
    evictions,      \* (properties only) deletions, by key
    hit             \* (properties only) a session of the key ended since the
                    \* query deleted the entry

query == <<pc, attempt, client, result, runs>>
vcenter == <<opened, live>>
vars == <<query, lock, cached, vcenter, evictions, hit>>

Init ==
    /\ pc = [q \in Queries |-> "idle"] /\ attempt = [q \in Queries |-> 1]
    /\ client = [q \in Queries |-> None]
    /\ result = [q \in Queries |-> "none"] /\ runs = [q \in Queries |-> 0]
    /\ lock = None
    /\ cached = [k \in Keys |-> None]
    /\ opened = [k \in Keys |-> 0] /\ live = [k \in Keys |-> {}]
    /\ evictions = [k \in Keys |-> 0] /\ hit = [q \in Queries |-> FALSE]

Go(q, step) == pc' = [pc EXCEPT ![q] = step]
Valid(q) == client[q] \in live[KeyOf[q]]

-----------------------------------------------------------------------------
(* One attempt of a query ends.                                            *)

\* The first attempt that loses its session is followed by a second one.
Retries(q, r) == r \in Lost /\ attempt[q] = 1

Return(q, r) ==
    /\ client' = [client EXCEPT ![q] = None]
    /\ IF Retries(q, r)
       THEN Go(q, "evict") /\ UNCHANGED result
       ELSE Go(q, "idle") /\ result' = [result EXCEPT ![q] = r]

-----------------------------------------------------------------------------
(* The query.                                                              *)

\* (A monitor without a host or credentials returns at once.)
Start(q) ==
    /\ pc[q] = "idle" /\ runs[q] < MaxRuns
    /\ runs' = [runs EXCEPT ![q] = @ + 1]
    /\ attempt' = [attempt EXCEPT ![q] = 1]
    /\ result' = [result EXCEPT ![q] = "none"]
    /\ hit' = [hit EXCEPT ![q] = FALSE]
    /\ Go(q, "get")
    /\ UNCHANGED <<client, lock, cached, vcenter, evictions>>

\* (mutant) the lock is not held during the login
Unlocked == TRUE

LockFree == lock = None

\* getVMwareClient with an entry, whose wrapper may already hold the object.
GetCached(q) ==
    /\ pc[q] = "get" /\ LockFree
    /\ cached[KeyOf[q]] # None
    /\ client' = [client EXCEPT ![q] = cached[KeyOf[q]]]
    /\ Go(q, "resolve") \/ Go(q, "fetch")
    /\ UNCHANGED <<attempt, result, runs, lock, cached, vcenter,
                   evictions, hit>>

\* getVMwareClient without one: it logs in, with the lock.
GetNone(q) ==
    /\ pc[q] = "get" /\ LockFree
    /\ cached[KeyOf[q]] = None
    /\ lock' = q
    /\ Go(q, "login")
    /\ UNCHANGED <<attempt, client, result, runs, cached, vcenter,
                   evictions, hit>>

LoginDone(q) ==
    LET k == KeyOf[q]
        s == opened[k] + 1
    IN  /\ pc[q] = "login"
        /\ opened' = [opened EXCEPT ![k] = s]
        /\ live' = [live EXCEPT ![k] = @ \cup {s}]
        /\ cached' = [cached EXCEPT ![k] = s]
        /\ client' = [client EXCEPT ![q] = s]
        /\ lock' = None
        /\ Go(q, "resolve")
        /\ UNCHANGED <<attempt, result, runs, evictions, hit>>

LoginFails(q, r) ==
    /\ pc[q] = "login"
    /\ lock' = None
    /\ Return(q, r)
    /\ UNCHANGED <<attempt, runs, cached, vcenter, evictions, hit>>

\* The data center and the object are found, and kept in the wrapper.  This
\* may need no call (a VM by its MOID), and an error of DefaultDatacenter is
\* passed over, so the session may have ended.
Resolve(q) ==
    /\ pc[q] = "resolve"
    /\ Go(q, "fetch")
    /\ UNCHANGED <<attempt, client, result, runs, lock, cached, vcenter,
                   evictions, hit>>

\* The attempt ends at one of these steps.
Ends(q, steps, r) ==
    /\ pc[q] \in steps
    /\ Return(q, r)
    /\ UNCHANGED <<attempt, runs, lock, cached, vcenter, evictions, hit>>

\* The properties of the object.
Fetch(q) == Valid(q) /\ Ends(q, {"fetch"}, "value")

\* Those of a host, whose disk_usage adds up its datastores, if it has any.
FetchHost(q) ==
    /\ q \in DiskUsage
    /\ pc[q] = "fetch" /\ Valid(q)
    /\ Go(q, "datastores")
    /\ UNCHANGED <<attempt, client, result, runs, lock, cached, vcenter,
                   evictions, hit>>

\* The datastores that can be read are added up, and the others passed over,
FetchStores(q) == Ends(q, {"datastores"}, "value")

\* which gives an error if none can.
NoStores(q) == Ends(q, {"datastores"}, IF Valid(q) THEN "other" ELSE "hidden")

\* Without a data center, for the session was lost at DefaultDatacenter, the
\* finder asks for one instead of calling; and of several searches for a VM
\* the error of the first is the one returned.
Misses(q) == ~Valid(q) /\ Ends(q, {"resolve"}, "hidden")

CallFails(q, r) == Ends(q, {"resolve", "fetch"}, r)

\* vCenter refuses a session it has ended.
Refused(q) == ~Valid(q) /\ CallFails(q, "session")

\* The connection breaks, or the password is wrong.
Breaks(q) == CallFails(q, "network") \/ LoginFails(q, "network")

\* (mutant) the login does not watch the context
CallAborts(q) == CallFails(q, "other") \/ NoStores(q)

\* The object is unknown, or vCenter is silent and the context of the query
\* ends the call.
Abort(q) == CallFails(q, "other") \/ LoginFails(q, "other") \/ NoStores(q)

\* (mutant) the entry is left in place for the second attempt
Keep(k) == UNCHANGED cached

\* delete(govcSessionCache, key), whichever session it holds by now.
Drop(k) == cached' = [cached EXCEPT ![k] = None]

Evict(q) ==
    /\ pc[q] = "evict" /\ LockFree
    /\ Drop(KeyOf[q])
    /\ attempt' = [attempt EXCEPT ![q] = 2]
    /\ evictions' = [evictions EXCEPT ![KeyOf[q]] = @ + 1]
    /\ hit' = [hit EXCEPT ![q] = FALSE]
    /\ Go(q, "get")
    /\ UNCHANGED <<client, result, runs, lock, vcenter>>

TakeLock(q) == GetCached(q) \/ GetNone(q) \/ Evict(q)

\* A session is ended by vCenter (idle, restarted).
Expire(k, s) ==
    /\ s \in live[k]
    /\ live' = [live EXCEPT ![k] = @ \ {s}]
    /\ hit' = [q \in Queries |-> hit[q] \/ KeyOf[q] = k]
    /\ UNCHANGED <<query, lock, cached, opened, evictions>>

Next ==
    \/ \E q \in Queries :
        \/ Start(q)
        \/ GetCached(q) \/ GetNone(q) \/ LoginDone(q)
        \/ Resolve(q) \/ Fetch(q) \/ FetchHost(q) \/ FetchStores(q) \/ Evict(q)
        \/ Misses(q) \/ Refused(q) \/ Breaks(q) \/ Abort(q)
    \/ \E k \in Keys : \E s \in live[k] : Expire(k, s)

Spec == Init /\ [][Next]_vars

\* Contexts expire, goroutines run, and a mutex is handed to who waits; no
\* call to vCenter has to return before the context ends it.
Fairness ==
    \A q \in Queries : WF_vars(Abort(q)) /\ SF_vars(TakeLock(q))

FairSpec == Spec /\ Fairness

-----------------------------------------------------------------------------
(* Properties.                                                             *)

TypeOK ==
    /\ pc \in [Queries -> Steps] /\ attempt \in [Queries -> {1, 2}]
    /\ client \in [Queries -> Nat \cup {None}]
    /\ result \in [Queries -> Results] /\ runs \in [Queries -> Nat]
    /\ lock \in Queries \cup {None}
    /\ cached \in [Keys -> Nat \cup {None}]
    /\ opened \in [Keys -> Nat] /\ live \in [Keys -> SUBSET Nat]
    /\ evictions \in [Keys -> Nat] /\ hit \in [Queries -> BOOLEAN]

\* A session that GovcPlugin sees lost is never the end of a first attempt,
\* and the retry that follows does not meet a lost session again, seen or
\* hidden, though others share, delete and replace the entry at the same
\* time, unless a session of the key ends once more after the deletion.  A
\* loss that a first attempt passed over is not retried at all.
RetryFindsSession ==
    \A q \in Queries :
        /\ result[q] = "session" => attempt[q] = 2
        /\ attempt[q] = 2 /\ result[q] \in {"session", "hidden"} => hit[q]

\* However many queries find no entry at once, one logs in: the sessions
\* opened at a vCenter are one more than the deletions, at most.
OneLogin == \A k \in Keys : opened[k] <= evictions[k] + 1

\* A query ends although it waits for the lock without its context, behind
\* the logins of other queries to vCenters that may be silent.
QueryEnds == \A q \in Queries : pc[q] # "idle" ~> pc[q] = "idle"
=============================================================================
