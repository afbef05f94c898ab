----------------------- MODULE AuthCacheInvalidation -----------------------
(***************************************************************************)
(* The caches of API-key authentication and their invalidation, for one    *)
(* key.  Every gateway process keeps an L1 entry in memory; all share one  *)
(* L2 entry in Redis.  The creation and the deletion of the key, and the   *)
(* changes of the columns that the triggers of migration 198 compare,      *)
(* insert an outbox event in the same transaction; a change of any other   *)
(* cached column (quota, rate limits, routing, name, balance) inserts      *)
(* none.  The code that made the change may also delete the entries at     *)
(* once, best effort.                                                      *)
(* Each process runs an AuthCacheInvalidationWorker, which claims events   *)
(* under a lease, deletes the L2 entry, publishes the key to the L1 caches *)
(* of all processes, and does the same once more after a safety delay.     *)
(*                                                                         *)
(* The key's authentication data is a version number: 0 before the key     *)
(* exists, Deleted once it is deleted.  The event of a change has the      *)
(* number of the version it produced.  A new key string is a deletion of   *)
(* the old key and a creation of the new one: the trigger enqueues both.   *)
(***************************************************************************)
EXTENDS Integers

CONSTANTS
    Procs,         \* gateway processes
    Requests,      \* concurrent GetByKey calls
    NoEntry,       \* no cache entry
    NoOne, Dead,   \* claimed_by: NULL, the worker id of a crashed process
    MaxVersion,    \* bound on the versions of the key before its deletion
    Histories,     \* pairs of the first and the last version of a behaviour
    SafetyDelay,   \* authInvalidationSafetyDelay, in ticks
    Lease,         \* authInvalidationLease
    RetryDelay,    \* authInvalidationRetryDelay
    MaxRead,       \* ticks a reader may take from the database to Redis
    MaxFaults      \* bound on crashes, failed commands and slow readers

ASSUME AuthCacheAssumption ==
    /\ NoEntry \notin Int
    /\ NoOne \notin Procs /\ Dead \notin Procs /\ NoOne # Dead
    /\ MaxVersion \in Nat \ {0}
    /\ Histories \subseteq (0..MaxVersion) \X (0..MaxVersion + 1)
    /\ SafetyDelay \in Nat /\ Lease \in Nat \ {0} /\ RetryDelay \in Nat
    /\ MaxRead \in Nat /\ MaxFaults \in Nat
    \* The safety delay is chosen longer than any read under way.
    /\ MaxRead < SafetyDelay

VARIABLES
    db,          \* version of the key in the database
    loud,        \* the versions whose change inserted an event
    pending,     \* outbox rows
    stage,       \* delivery_stage of each row
    wait,        \* ticks until available_at
    claim,       \* claimed_by
    lease,       \* ticks until the claim may be taken over
    l1, l2,      \* cached versions
    work,        \* what the worker of each process does for each event
    seen,        \* delivery_stage returned by Claim
    req, at, val, age,  \* requests: position, process, version held, its age
    late,        \* a reader outlived MaxRead
    last,        \* bound on the versions of this behaviour
    faults

outboxVars == <<pending, stage, wait, claim, lease>>
cacheVars == <<l1, l2>>
workVars == <<work, seen>>
reqVars == <<req, at, val, age>>
vars == <<db, loud, outboxVars, cacheVars, workVars, reqVars, late, last, faults>>

Deleted == MaxVersion + 1
Versions == 0..Deleted
Events == 1..Deleted
Entries == Versions \cup {NoEntry}

\* Every variable has its type.
AuthCacheTypeOK ==
    /\ db \in Versions
    /\ loud \in SUBSET Events
    /\ pending \in SUBSET Events
    /\ stage \in [Events -> 0..1]
    /\ wait \in [Events -> Nat]
    /\ claim \in [Events -> Procs \cup {NoOne, Dead}]
    /\ lease \in [Events -> 0..Lease]
    /\ l1 \in [Procs -> Entries]
    /\ l2 \in Entries
    /\ work \in [Procs -> [Events -> {"none", "delete", "publish", "ack", "retry"}]]
    /\ seen \in [Procs -> [Events -> 0..1]]
    /\ req \in [Requests -> {"idle", "fill", "loaded", "share"}]
    /\ at \in [Requests -> Procs \cup {NoOne}]
    /\ val \in [Requests -> Entries]
    /\ age \in [Requests -> Nat]
    /\ late \in BOOLEAN
    /\ last \in Versions
    /\ faults \in 0..MaxFaults

\* The behaviour begins with any version of the key, its event delivered.
Init ==
    /\ \E h \in Histories : db = h[1] /\ last = h[2]
    /\ loud = {}
    /\ pending = {}
    /\ stage = [e \in Events |-> 0]
    /\ wait = [e \in Events |-> 0]
    /\ claim = [e \in Events |-> NoOne]
    /\ lease = [e \in Events |-> 0]
    /\ l1 = [p \in Procs |-> NoEntry]
    /\ l2 = NoEntry
    /\ work = [p \in Procs |-> [e \in Events |-> "none"]]
    /\ seen = [p \in Procs |-> [e \in Events |-> 0]]
    /\ req = [r \in Requests |-> "idle"]
    /\ at = [r \in Requests |-> NoOne]
    /\ val = [r \in Requests |-> NoEntry]
    /\ age = [r \in Requests |-> 0]
    /\ late = FALSE
    /\ faults = 0

Fault ==
    /\ faults < MaxFaults
    /\ faults' = faults + 1

Goes(p, e, step) == work' = [work EXCEPT ![p][e] = step]

---------------------------------------------------------------------------
(* Changes of the key                                                      *)

\* The statement that writes version v of the row fires the trigger, which
\* inserts an event when the change is one it looks at (enqueued).
Change(v, enqueued) ==
    /\ db' = v
    /\ loud' = IF enqueued THEN loud \cup {v} ELSE loud
    /\ pending' = IF enqueued THEN pending \cup {v} ELSE pending
    /\ UNCHANGED <<stage, wait, claim, lease, cacheVars, workVars, reqVars, late, last, faults>>

\* AFTER INSERT OR UPDATE OR DELETE ON api_keys, and the triggers on users,
\* groups and allowed groups: the first change creates the key, the last one
\* deletes it, and an update is seen when it touches a compared column.
Write ==
    /\ db < last
    /\ \E enqueued \in BOOLEAN :
        /\ db + 1 \in {1, Deleted} => enqueued
        /\ Change(db + 1, enqueued)

---------------------------------------------------------------------------
(* Authentication: GetByKey                                                *)

Holds(r, step, p, v) ==
    /\ req' = [req EXCEPT ![r] = step]
    /\ at' = [at EXCEPT ![r] = p]
    /\ val' = [val EXCEPT ![r] = v]
    /\ age' = [age EXCEPT ![r] = 0]

Done(r) == Holds(r, "idle", NoOne, NoEntry)

\* getAuthCacheEntry: L1 answers without any change; on a miss Redis is read.
LookupL2(r, p) ==
    /\ req[r] = "idle" /\ l1[p] = NoEntry
    /\ l2 # NoEntry
    /\ Holds(r, "fill", p, l2)
    /\ UNCHANGED <<db, loud, outboxVars, cacheVars, workVars, late, last, faults>>

\* The entry found in L2 is kept in L1.
FillL1(r) ==
    /\ req[r] = "fill"
    /\ l1' = [l1 EXCEPT ![at[r]] = val[r]]
    /\ Done(r)
    /\ UNCHANGED <<db, loud, outboxVars, l2, workVars, late, last, faults>>

\* When Redis has no entry, or does not answer, loadAuthCacheEntry reads the
\* database; the request held nothing until then.
Load(r, p) ==
    /\ req[r] = "idle" /\ l1[p] = NoEntry
    /\ Holds(r, "loaded", p, db)
    /\ UNCHANGED <<db, loud, outboxVars, cacheVars, workVars, late, last, faults>>

Found(v) == v \in 1..MaxVersion

\* What was read goes to L1 first.  A key that was not found stays out of L2.
StoreL1(r) ==
    /\ req[r] = "loaded"
    /\ l1' = [l1 EXCEPT ![at[r]] = val[r]]
    /\ IF Found(val[r])
       THEN req' = [req EXCEPT ![r] = "share"] /\ UNCHANGED <<at, val, age>>
       ELSE Done(r)
    /\ UNCHANGED <<db, loud, outboxVars, l2, workVars, late, last, faults>>

StoreL2(r) ==
    /\ req[r] = "share"
    /\ l2' = val[r]
    /\ Done(r)
    /\ UNCHANGED <<db, loud, outboxVars, l1, workVars, late, last, faults>>

\* The answer does not wait for Redis: its errors are ignored.
StoreFails(r) ==
    /\ req[r] = "share"
    /\ Done(r)
    /\ UNCHANGED <<db, loud, outboxVars, cacheVars, workVars, late, last, faults>>

\* Entries expire, are evicted, or a message of the subscription deletes them.
ExpireL1(p) ==
    /\ l1[p] # NoEntry
    /\ l1' = [l1 EXCEPT ![p] = NoEntry]
    /\ UNCHANGED <<db, loud, outboxVars, l2, workVars, reqVars, late, last, faults>>

ExpireL2 ==
    /\ l2 # NoEntry
    /\ l2' = NoEntry
    /\ UNCHANGED <<db, loud, outboxVars, l1, workVars, reqVars, late, last, faults>>

\* The code that made a change deletes the entries of process p and of Redis
\* and publishes the key.  It comes at any time after the change, or never (the
\* process dies, the writer does not call it), and also without one; the errors
\* of Redis are ignored: then, and at the processes a message reaches, an entry
\* goes as by ExpireL1.
InvalidateAuthCache(p) ==
    /\ l1' = [l1 EXCEPT ![p] = NoEntry]
    /\ l2' = NoEntry
    /\ UNCHANGED <<db, loud, outboxVars, workVars, reqVars, late, last, faults>>

---------------------------------------------------------------------------
(* The outbox worker of each process                                       *)

\* Mutant: a lapsed claim is not taken over.
Claimable_Unclaimed(e) == e \in pending /\ wait[e] = 0 /\ claim[e] = NoOne

Claimable(e) ==
    /\ e \in pending
    /\ wait[e] = 0
    /\ claim[e] = NoOne \/ lease[e] = 0

\* processBatch takes every available row, when its last batch is done.
Claim(p) ==
    LET batch == {e \in Events : Claimable(e)} IN
    /\ \A e \in Events : work[p][e] = "none"
    /\ batch # {}
    /\ claim' = [e \in Events |-> IF e \in batch THEN p ELSE claim[e]]
    /\ lease' = [e \in Events |-> IF e \in batch THEN Lease ELSE lease[e]]
    /\ work' = [work EXCEPT ![p] = [e \in Events |-> IF e \in batch THEN "delete" ELSE @[e]]]
    /\ seen' = [seen EXCEPT ![p] = [e \in Events |-> IF e \in batch THEN stage[e] ELSE @[e]]]
    /\ UNCHANGED <<db, loud, pending, stage, wait, cacheVars, reqVars, late, last, faults>>

\* The own L1 entry and the Redis entry are deleted.
DeleteAuthCache(p, e) ==
    /\ work[p][e] = "delete"
    /\ l1' = [l1 EXCEPT ![p] = NoEntry]
    /\ l2' = NoEntry
    /\ Goes(p, e, "publish")
    /\ UNCHANGED <<db, loud, outboxVars, seen, reqVars, late, last, faults>>

\* Redis reports an error or a timeout; the deletion may have happened.  The
\* worker backs off.
DeleteFails(p, e) ==
    /\ work[p][e] = "delete"
    /\ Fault
    /\ l1' = [l1 EXCEPT ![p] = NoEntry]
    /\ l2' \in {l2, NoEntry}
    /\ Goes(p, e, "retry")
    /\ UNCHANGED <<db, loud, outboxVars, seen, reqVars, late, last>>

\* Pub/Sub delivers at most once: the processes whose subscription is up drop
\* their entry (invalidateLocalAuthCache), at once or later, as ExpireL1.
Sent == \E reached \in SUBSET Procs :
    l1' = [p \in Procs |-> IF p \in reached THEN NoEntry ELSE l1[p]]

Publish(p, e) ==
    /\ work[p][e] = "publish"
    /\ Sent
    /\ Goes(p, e, "ack")
    /\ UNCHANGED <<db, loud, outboxVars, l2, seen, reqVars, late, last, faults>>

PublishFails(p, e) ==
    /\ work[p][e] = "publish"
    /\ Fault
    /\ Sent
    /\ Goes(p, e, "retry")
    /\ UNCHANGED <<db, loud, outboxVars, l2, seen, reqVars, late, last>>

Owns(p, e) == e \in pending /\ claim[e] = p

Unclaim(e, delay) ==
    /\ wait' = [wait EXCEPT ![e] = delay]
    /\ claim' = [claim EXCEPT ![e] = NoOne]
    /\ lease' = [lease EXCEPT ![e] = 0]

\* A delivery ends with one statement; a row that is no longer this worker's
\* is left alone.
Settled(p, e) ==
    /\ Goes(p, e, "none")
    /\ seen' = [seen EXCEPT ![p][e] = 0]
    /\ UNCHANGED <<db, loud, cacheVars, reqVars, late, last, faults>>

\* Mutant: the second pass follows at once.
ScheduleSecondPass_AtOnce(p, e) ==
    /\ work[p][e] = "ack" /\ seen[p][e] = 0
    /\ IF Owns(p, e) /\ stage[e] = 0
       THEN /\ stage' = [stage EXCEPT ![e] = 1]
            /\ Unclaim(e, 0)
            /\ UNCHANGED pending
       ELSE UNCHANGED outboxVars
    /\ Settled(p, e)

\* Mutant: the statement advances the row by its id alone.
ScheduleSecondPass_ById(p, e) ==
    /\ work[p][e] = "ack" /\ seen[p][e] = 0
    /\ IF e \in pending
       THEN /\ stage' = [stage EXCEPT ![e] = @ + 1]
            /\ Unclaim(e, SafetyDelay)
            /\ UNCHANGED pending
       ELSE UNCHANGED outboxVars
    /\ Settled(p, e)

\* The end of a first pass: the row waits for the second.
ScheduleSecondPass(p, e) ==
    /\ work[p][e] = "ack" /\ seen[p][e] = 0
    /\ IF Owns(p, e) /\ stage[e] = 0
       THEN /\ stage' = [stage EXCEPT ![e] = 1]
            /\ Unclaim(e, SafetyDelay)
            /\ UNCHANGED pending
       ELSE UNCHANGED outboxVars
    /\ Settled(p, e)

\* The end of the second pass.
DeleteClaimed(p, e) ==
    /\ work[p][e] = "ack" /\ seen[p][e] = 1
    /\ IF Owns(p, e)
       THEN /\ pending' = pending \ {e}
            /\ stage' = [stage EXCEPT ![e] = 0]
            /\ Unclaim(e, 0)
       ELSE UNCHANGED outboxVars
    /\ Settled(p, e)

\* After a Redis error.
RetryClaimed(p, e) ==
    /\ work[p][e] = "retry"
    /\ IF Owns(p, e)
       THEN Unclaim(e, RetryDelay) /\ UNCHANGED <<pending, stage>>
       ELSE UNCHANGED outboxVars
    /\ Settled(p, e)

\* The statement fails: the claim is left to lapse.
SettleFails(p, e) ==
    /\ work[p][e] \in {"ack", "retry"}
    /\ Fault
    /\ Goes(p, e, "none")
    /\ seen' = [seen EXCEPT ![p][e] = 0]
    /\ UNCHANGED <<db, loud, outboxVars, cacheVars, reqVars, late, last>>

---------------------------------------------------------------------------
(* Crashes and time                                                        *)

\* A process dies and is started again, with another worker id.
Crash(p) ==
    /\ Fault
    /\ l1' = [l1 EXCEPT ![p] = NoEntry]
    /\ work' = [work EXCEPT ![p] = [e \in Events |-> "none"]]
    /\ seen' = [seen EXCEPT ![p] = [e \in Events |-> 0]]
    /\ claim' = [e \in Events |-> IF claim[e] = p THEN Dead ELSE claim[e]]
    /\ req' = [r \in Requests |-> IF at[r] = p THEN "idle" ELSE req[r]]
    /\ at' = [r \in Requests |-> IF at[r] = p THEN NoOne ELSE at[r]]
    /\ val' = [r \in Requests |-> IF at[r] = p THEN NoEntry ELSE val[r]]
    /\ age' = [r \in Requests |-> IF at[r] = p THEN 0 ELSE age[r]]
    /\ UNCHANGED <<db, loud, pending, stage, wait, lease, l2, late, last>>

Holding(r) == req[r] \in {"loaded", "share"}

Left(n) == IF n > 0 THEN n - 1 ELSE 0

Elapse ==
    /\ wait' = [e \in Events |-> Left(wait[e])]
    /\ lease' = [e \in Events |-> Left(lease[e])]
    /\ age' = [r \in Requests |-> IF Holding(r) THEN age[r] + 1 ELSE age[r]]
    /\ UNCHANGED <<db, loud, pending, stage, claim, cacheVars, workVars, req, at, val, last>>

Waiting == \E e \in Events : wait[e] > 0 \/ lease[e] > 0

\* A reader at its bound, a worker about to outlive its lease.
Overdue(r) == Holding(r) /\ age[r] >= MaxRead
Overruns(e) == lease[e] = 1 /\ claim[e] \in Procs /\ work[claim[e]][e] # "none"

\* Time passes; readers and workers keep within their bounds...
Tick ==
    /\ Waiting
    /\ \A r \in Requests : ~Overdue(r)
    /\ \A e \in Events : ~Overruns(e)
    /\ Elapse
    /\ UNCHANGED <<late, faults>>

\* ...unless they are stalled: a request has no deadline for its reads, and a
\* large batch with a slow Redis outlives the lease.
SlowTick ==
    /\ Waiting
    /\ (\E r \in Requests : Overdue(r)) \/ (\E e \in Events : Overruns(e))
    /\ Fault
    /\ late' = (late \/ \E r \in Requests : Overdue(r))
    /\ Elapse

---------------------------------------------------------------------------

Next ==
    \/ Write
    \/ \E p \in Procs :
        \/ ExpireL1(p) \/ InvalidateAuthCache(p)
        \/ Claim(p) \/ Crash(p)
        \/ \E e \in Events :
            \/ DeleteAuthCache(p, e) \/ DeleteFails(p, e)
            \/ Publish(p, e) \/ PublishFails(p, e)
            \/ ScheduleSecondPass(p, e) \/ DeleteClaimed(p, e) \/ RetryClaimed(p, e)
            \/ SettleFails(p, e)
        \/ \E r \in Requests : LookupL2(r, p) \/ Load(r, p)
    \/ \E r \in Requests : FillL1(r) \/ StoreL1(r) \/ StoreL2(r) \/ StoreFails(r)
    \/ ExpireL2
    \/ Tick \/ SlowTick

Spec == Init /\ [][Next]_vars

\* Steps of every goroutine are eventually taken; time passes.  Nothing makes
\* keys change, requests arrive or L2 entries expire.
WorkStep(p) ==
    \/ Claim(p)
    \/ \E e \in Events :
        \/ DeleteAuthCache(p, e) \/ Publish(p, e)
        \/ ScheduleSecondPass(p, e) \/ DeleteClaimed(p, e) \/ RetryClaimed(p, e)

Fairness ==
    /\ \A p \in Procs :
        WF_vars(WorkStep(p)) /\ WF_vars(ExpireL1(p))
    /\ \A r \in Requests : WF_vars(FillL1(r) \/ StoreL1(r) \/ StoreL2(r))
    /\ SF_vars(Tick)

FairSpec == Spec /\ Fairness

---------------------------------------------------------------------------
(* Properties                                                              *)

\* A later change inserted an event: v must not be served.
Superseded(v) == v # NoEntry /\ \E e \in loud : v < e

\* While no reader outlived MaxRead: a version that a change with an event has
\* superseded and that is in L2, or in the hands of a request about to put it
\* there, has an outbox event that will still remove it.  The worker may
\* acknowledge an event only when nobody can bring back what it removed (the
\* second pass of processEvent and the claimed_by conditions of the repository).
\* Nothing of the kind holds for a change without an event: its entries are
\* left to the direct invalidation and to their TTL.
StaleHasEvent ==
    ~late =>
        /\ Superseded(l2) => \E e \in pending : e > l2
        /\ \A r \in Requests :
            Holding(r) /\ Found(val[r]) /\ Superseded(val[r]) =>
                \E e \in pending : e > val[r]

\* Every cache ends up empty or with a version no event has superseded, a "no
\* such key" from before the creation included, without the help of the L2
\* entry's TTL, whatever was lost on the way.
CachesConverge ==
    <>[](~late => \A v \in {l2} \cup {l1[p] : p \in Procs} : ~Superseded(v))
============================================================================
