-------------------------- MODULE ConcurrencySlots --------------------------
(***************************************************************************)
(* The concurrency slots of one account (or one user) and its wait queue:  *)
(* service/concurrency_service.go, repository/concurrency_cache.go and the *)
(* waiting loop of handler/gateway_helper.go; and the leases that Live     *)
(* calls keep after their request (service/openai_live.go).                *)
(*                                                                         *)
(* Redis holds a sorted set of request slots, one of Live leases, both     *)
(* counted against one limit, and a wait counter.  Every script is one     *)
(* atomic step.  A member is named by the request that added it: the ids   *)
(* are unique, and a request that failed never uses its id again.  The     *)
(* active index, kept by separate best-effort commands, only decides which *)
(* keys a cleanup visits, so that a visit is a choice.                     *)
(***************************************************************************)
EXTENDS Integers, FiniteSets

CONSTANTS
    Requests,        \* requests and Live calls
    Procs,           \* gateway processes
    Home,            \* process of each request
    MaxConcurrency,  \* limit of the account
    QueueLimit,      \* queueLimit
    MaxFaults        \* bound on crashes, starts, failed commands, long requests

ASSUME SlotsAssumption ==
    /\ IsFiniteSet(Requests)
    /\ Home \in [Requests -> Procs]
    /\ MaxConcurrency \in Nat \ {0} /\ QueueLimit \in Nat \ {0}
    /\ MaxFaults \in Nat

VARIABLES
    slots,   \* members of the request slots
    leases,  \* members of the Live leases
    aged,    \* slots older than their TTL
    stale,   \* leases older than theirs
    wait,    \* wait counter; 0 when its key does not exist
    pc,      \* position of each request
    lost,    \* requests that ran on after their slot or lease was removed
    faults

redisVars == <<slots, leases, aged, stale>>
vars == <<redisVars, wait, pc, lost, faults>>

Positions == {"idle", "ask", "enter", "queue", "got", "gone", "run", "handover", "live"}

\* Every variable has its type; the wait counter keeps within its limits.
SlotsTypeOK ==
    /\ slots \subseteq Requests /\ leases \subseteq Requests
    /\ aged \subseteq slots /\ stale \subseteq leases
    /\ wait \in 0..QueueLimit
    /\ pc \in [Requests -> Positions]
    /\ lost \subseteq Requests
    /\ faults \in 0..MaxFaults

Init ==
    /\ slots = {} /\ leases = {} /\ aged = {} /\ stale = {}
    /\ wait = 0
    /\ pc = [r \in Requests |-> "idle"]
    /\ lost = {}
    /\ faults = 0

Fault ==
    /\ faults < MaxFaults
    /\ faults' = faults + 1

GoTo(r, p) == pc' = [pc EXCEPT ![r] = p]

\* Requests that are served, or about to be.
Admitted == {"got", "run", "handover", "live"}
Running == {r \in Requests : pc[r] \in Admitted}

\* Redis keeps the slots S and the leases L.  Of the others, whoever runs has
\* lost its admission.
Keep(S, L) ==
    /\ slots' = S /\ aged' = aged \cap S
    /\ leases' = L /\ stale' = stale \cap L
    /\ lost' = lost \cup (Running \ (S \cup L))

\* Request r ends here; it leaves its members as S and L say.
End(r, S, L) ==
    /\ GoTo(r, "idle")
    /\ slots' = S /\ aged' = aged \cap S
    /\ leases' = L /\ stale' = stale \cap L
    /\ lost' = (lost \cup (Running \ (S \cup L))) \ {r}

---------------------------------------------------------------------------
(* Acquiring a slot                                                        *)

\* A new request; the id of an abandoned slot is not used again.
Arrive(r) ==
    /\ pc[r] = "idle" /\ r \notin slots \cup leases
    /\ GoTo(r, "ask")
    /\ UNCHANGED <<redisVars, wait, lost, faults>>

\* Mutant: the limit is off by one.
Vacant_OneMore(S, L) == Cardinality(S) + Cardinality(L) <= MaxConcurrency

Vacant(S, L) == Cardinality(S) + Cardinality(L) < MaxConcurrency

Asks(r) == pc[r] \in {"ask", "queue"}

\* Where a request goes with a slot, and where without.
Granted(r) == IF pc[r] = "ask" THEN "run" ELSE "got"
Failed(r) == IF pc[r] = "ask" THEN "idle" ELSE "gone"

\* acquireScript: drop the expired members, then add one below the limit.
Acquire(r) ==
    LET S == slots \ aged  L == leases \ stale IN
    /\ Asks(r) /\ Vacant(S, L)
    /\ GoTo(r, Granted(r))
    /\ Keep(S \cup {r}, L)
    /\ UNCHANGED <<wait, faults>>

\* No vacancy: the request turns to the wait queue, or stays in it.
Refuse(r) ==
    LET S == slots \ aged  L == leases \ stale IN
    /\ Asks(r) /\ ~Vacant(S, L)
    /\ GoTo(r, IF pc[r] = "ask" THEN "enter" ELSE "queue")
    /\ Keep(S, L)
    /\ UNCHANGED <<wait, faults>>

\* The script fails before or after its effect; the request is answered with
\* an error and its slot, if any, stays behind.
AcquireFails(r) ==
    LET S == slots \ aged  L == leases \ stale IN
    /\ Asks(r)
    /\ Fault
    /\ GoTo(r, Failed(r))
    /\ \/ Vacant(S, L) /\ Keep(S \cup {r}, L)
       \/ UNCHANGED <<redisVars, lost>>
    /\ UNCHANGED wait

---------------------------------------------------------------------------
(* The wait queue                                                          *)

\* incrementWaitScript
IncrementWaitCount(r) ==
    /\ pc[r] = "enter"
    /\ IF wait < QueueLimit
       THEN wait' = wait + 1 /\ GoTo(r, "queue")
       ELSE GoTo(r, "idle") /\ UNCHANGED wait
    /\ UNCHANGED <<redisVars, lost, faults>>

\* On an error the request may wait, counted or not.
IncrementFails(r) ==
    /\ pc[r] = "enter"
    /\ Fault
    /\ wait' = wait \/ (wait < QueueLimit /\ wait' = wait + 1)
    /\ GoTo(r, "queue")
    /\ UNCHANGED <<redisVars, lost>>

\* The wait ends: maxConcurrencyWait, or the client is gone.
WaitTimeout(r) ==
    /\ pc[r] = "queue"
    /\ GoTo(r, "gone")
    /\ UNCHANGED <<redisVars, wait, lost, faults>>

\* Mutant: DECR without a look at the counter.
Decremented_Always == wait - 1

\* decrementWaitScript
Decremented == IF wait > 0 THEN wait - 1 ELSE wait

\* The deferred decrement runs before the request is served or turned away.
DecrementWaitCount(r) ==
    /\ pc[r] \in {"got", "gone"}
    /\ wait' = Decremented
    /\ GoTo(r, IF pc[r] = "got" THEN "run" ELSE "idle")
    /\ UNCHANGED <<redisVars, lost, faults>>

DecrementFails(r) ==
    /\ pc[r] \in {"got", "gone"}
    /\ Fault
    /\ GoTo(r, IF pc[r] = "got" THEN "run" ELSE "idle")
    /\ UNCHANGED <<redisVars, wait, lost>>

\* Mutant: the counter has no TTL.
WaitExpires_Never == FALSE /\ UNCHANGED vars

\* The counter's TTL ends.  Every increment renews it, but it is configured apart
\* from the time a request waits: a request may still be waiting, and decrement
\* the counter afterwards.
WaitExpires ==
    /\ wait > 0
    /\ wait' = 0
    /\ UNCHANGED <<redisVars, pc, lost, faults>>

---------------------------------------------------------------------------
(* Releasing                                                               *)

\* The request is done, or was refused a lease.
Release(r) ==
    /\ pc[r] = "run"
    /\ End(r, slots \ {r}, leases)
    /\ UNCHANGED <<wait, faults>>

ReleaseFails(r) ==
    /\ pc[r] = "run"
    /\ Fault
    /\ End(r, slots, leases)
    /\ UNCHANGED wait

\* wrapReleaseOnDone: the client is gone, while the handler is still at work.
ReleaseOnDone(r) ==
    /\ pc[r] = "run" /\ r \in slots
    /\ Fault
    /\ Keep(slots \ {r}, leases)
    /\ UNCHANGED <<wait, pc>>

---------------------------------------------------------------------------
(* Live calls                                                              *)

\* One above the limit, for the slot that the lease replaces.
Replaceable(L) == Cardinality(slots) + Cardinality(L) < MaxConcurrency + 1

\* acquireLiveLeaseScript, which drops expired leases only.
AcquireLiveLease(r) ==
    LET L == leases \ stale IN
    /\ pc[r] = "run" /\ Replaceable(L)
    /\ GoTo(r, "handover")
    /\ Keep(slots, L \cup {r})
    /\ UNCHANGED <<wait, faults>>

\* The script fails, perhaps after its effect, and the slot is given back.
AcquireLiveLeaseFails(r) ==
    LET L == leases \ stale IN
    /\ pc[r] = "run"
    /\ Fault
    /\ End(r, slots \ {r}, IF Replaceable(L) THEN L \cup {r} ELSE L)
    /\ UNCHANGED wait

\* The upstream call exists: the request's slot is given back.
Handover(r) ==
    /\ pc[r] = "handover"
    /\ GoTo(r, "live")
    /\ Keep(slots \ {r}, leases)
    /\ UNCHANGED <<wait, faults>>

\* The upstream call fails: both are given back.
HandoverFails(r) ==
    /\ pc[r] = "handover"
    /\ Fault
    /\ End(r, slots \ {r}, leases \ {r})
    /\ UNCHANGED wait

\* Mutant: a lease that is gone is added again.
RefreshLiveLease_Recreates(r) ==
    LET L == leases \ stale IN
    /\ pc[r] = "live"
    /\ Keep(slots, L \cup {r})
    /\ UNCHANGED <<wait, pc, faults>>

\* refreshLiveLeaseScript: a call whose lease is gone is ended, as a lease that
\* was dropped is never added again.
RefreshLiveLease(r) ==
    LET L == leases \ stale IN
    /\ pc[r] = "live"
    /\ IF r \in L
       THEN Keep(slots, L) /\ UNCHANGED pc
       ELSE End(r, slots, L)
    /\ UNCHANGED <<wait, faults>>

\* The call ends, or its lease could not be refreshed.
ReleaseLiveLease(r) ==
    /\ pc[r] = "live"
    /\ End(r, slots, leases \ {r})
    /\ UNCHANGED <<wait, faults>>

ReleaseLiveLeaseFails(r) ==
    /\ pc[r] = "live"
    /\ Fault
    /\ End(r, slots, leases)
    /\ UNCHANGED wait

---------------------------------------------------------------------------
(* Time, cleanup and processes                                             *)

\* The TTL of a slot ends: its request is gone, or takes too long.
Age(r) ==
    /\ r \in slots \ aged
    /\ IF r \in Running THEN Fault ELSE UNCHANGED faults
    /\ aged' = aged \cup {r}
    /\ UNCHANGED <<slots, leases, stale, wait, pc, lost>>

\* A lease that is refreshed in time does not end; its call may be gone, or
\* Redis out of reach for the length of the TTL.
AgeLease(r) ==
    /\ r \in leases \ stale
    /\ IF r \in Running THEN Fault ELSE UNCHANGED faults
    /\ stale' = stale \cup {r}
    /\ UNCHANGED <<slots, leases, aged, wait, pc, lost>>

\* Mutant: the cleanup leaves expired slots to the next acquisition.
CleanupExpired_Never == FALSE /\ UNCHANGED vars

\* The cleanup worker, or the TTL of the key, drops expired members.
CleanupExpired ==
    /\ aged \cup stale # {}
    /\ Keep(slots \ aged, leases \ stale)
    /\ UNCHANGED <<wait, pc, faults>>

\* A process dies with its requests.
Crash(p) ==
    /\ Fault
    /\ \E r \in Requests : Home[r] = p /\ pc[r] # "idle"
    /\ pc' = [r \in Requests |-> IF Home[r] = p THEN "idle" ELSE pc[r]]
    /\ lost' = {r \in lost : Home[r] # p}
    /\ UNCHANGED <<redisVars, wait>>

\* CleanupStaleProcessSlots of a process that starts: it has no slots yet, and
\* every slot of another prefix goes, and then the wait counter.
StartProcess ==
    /\ slots # {} \/ wait > 0
    /\ Fault
    /\ Keep({}, leases)
    /\ wait' \in {0, wait}
    /\ UNCHANGED pc

---------------------------------------------------------------------------

Next ==
    \/ \E r \in Requests :
        \/ Arrive(r) \/ Acquire(r) \/ Refuse(r) \/ AcquireFails(r)
        \/ IncrementWaitCount(r) \/ IncrementFails(r) \/ WaitTimeout(r)
        \/ DecrementWaitCount(r) \/ DecrementFails(r)
        \/ Release(r) \/ ReleaseFails(r) \/ ReleaseOnDone(r)
        \/ AcquireLiveLease(r) \/ AcquireLiveLeaseFails(r) \/ Handover(r) \/ HandoverFails(r)
        \/ RefreshLiveLease(r) \/ ReleaseLiveLease(r) \/ ReleaseLiveLeaseFails(r)
        \/ Age(r) \/ AgeLease(r)
    \/ WaitExpires \/ CleanupExpired \/ StartProcess
    \/ \E p \in Procs : Crash(p)

Spec == Init /\ [][Next]_vars

\* A wait is bounded, deferred calls run, requests end, a Live call refreshes
\* its lease, time passes and the cleanup worker comes round.
Fairness ==
    /\ \A r \in Requests :
        /\ WF_vars(WaitTimeout(r) \/ DecrementWaitCount(r) \/ Release(r) \/ Handover(r))
        /\ WF_vars(RefreshLiveLease(r))
        /\ WF_vars((Age(r) \/ AgeLease(r)) /\ r \notin Running)
    /\ WF_vars(WaitExpires /\ \A r \in Requests : pc[r] \notin {"queue", "got", "gone"})
    /\ WF_vars(CleanupExpired)

FairSpec == Spec /\ Fairness

---------------------------------------------------------------------------
(* Properties                                                              *)

\* The requests served at once exceed the limit by at most the requests whose
\* slot was taken from them while they ran: by its TTL, by the start of another
\* process, or because their client left.  Nothing else admits too many: no
\* crash, no slot left behind, no lease that replaces a slot.
LimitHolds == Cardinality(Running \ lost) <= MaxConcurrency

\* Capacity comes back: a slot or lease without a request is removed at last,
\* whatever crash, lost answer or failed release left it.
CapacityReturns ==
    \A r \in Requests :
        (pc[r] = "idle" /\ r \in slots \cup leases) ~> (r \notin slots \cup leases)

\* A full wait queue takes requests again, even when crashed processes and
\* failed decrements left nothing in it but counts.
QueueReopens == (wait = QueueLimit) ~> (wait < QueueLimit)

\* A Live call whose lease is gone does not go on beside the limit.
LostLeaseEndsCall ==
    \A r \in Requests : (pc[r] = "live" /\ r \notin leases) ~> (pc[r] # "live")
=============================================================================
