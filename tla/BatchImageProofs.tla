--------------------------- MODULE BatchImageProofs ---------------------------
(***************************************************************************)
(* Type correctness of BatchImage and its safety invariants, for any       *)
(* number of workers, retries and faults, and any other holds.             *)
(***************************************************************************)
EXTENDS BatchImage, TLAPS

\* Facts that hold whatever the workers do.  The money: a claim of a hold or of
\* a capture moved it; who is past the reservation has a hold, and who marks the
\* job settled has captured it.  The submission: it knows no provider job until
\* it has stored one, and without one the job is not under way.
Submitted == {"submitted", "running", "indexing", "settling", "completed"}

MoneyInv ==
    /\ NoPhantomRelease
    /\ "hold" \in claims => "hold" \in moved
    /\ "capture" \in claims => "capture" \in moved
    /\ pc["submit"] \in {"upload", "send", "save"} => "hold" \in moved
    /\ status \in Submitted => "hold" \in moved
    /\ \A w \in Workers : pc[w] \in {"capture", "mark"} => "hold" \in moved
    /\ \A w \in Workers : pc[w] = "mark" => "capture" \in moved
    /\ status = "completed" => "capture" \in moved

JobInv ==
    /\ pc["submit"] = "start" => status = "none"
    /\ pc["submit"] \notin {"enqueue", "done"} => ~providerJob
    /\ status \in Submitted => providerJob

Inv == BatchTypeOK /\ MoneyInv /\ JobInv

\* While no worker lost its lock, only its holder works on the job, and the status
\* is as its position says.  Money that was captured or returned fits the status.
Holding == {"read", "process", "get", "index", "indexed", "unindexed", "release", "settle",
            "capture", "mark", "count", "exhaust", "fail", "check", "ack"}

Over == status \in {"failed", "cancelled"}

SerialInv ==
    /\ \A w \in Workers : pc[w] \in Holding => lock = w
    /\ \A w \in Workers : pc[w] = "get" => providerJob /\ status \in {"submitted", "running", "cancelled"}
    /\ \A w \in Workers : pc[w] \in {"index", "indexed", "unindexed"} => status = "indexing"
    /\ \A w \in Workers : pc[w] \in {"capture", "mark"} => status = "settling"
    /\ \A w \in Workers : pc[w] = "release" => Over
    /\ \A w \in Workers : pc[w] \notin {"exhaust", "fail"}
    /\ "capture" \in moved => status \in {"settling", "completed"}
    /\ "release" \in moved =>
        \/ Over
        \/ ~providerJob /\ pc["submit"] \notin {"start", "reserve", "upload", "send", "save"}

OnceInv ==
    /\ pc["owner"] = "release" => Over
    /\ pc["recovery"] = "release" => Over
    /\ ~overlapped /\ retries < MaxRetries => SerialInv

\* While no worker lost its lock, only its holder works on the job, so that none
\* takes a settling job for one it may let go; whoever is about to acknowledge the
\* job found it over.  Until it is over, the inflight key, the lists and the
\* workers agree.
InQueue == ready > 0 \/ delayed \/ active

QueueInv == ~overlapped =>
    /\ \A w \in Workers : pc[w] \in Holding => lock = w
    /\ \A w \in Workers : pc[w] = "process" => status # "settling"
    /\ \A w \in Workers : pc[w] \in {"release", "ack"} => Terminal(status)
    /\ ~Terminal(status) =>
        /\ inflight <=> InQueue
        /\ status \in {"running", "indexing", "settling"} => inflight
        /\ \A w \in Workers : pc[w] \notin {"idle", "unlock"} => inflight

\* Which statuses a change may start from.
LEMMA FromStatus ==
    /\ CanTransition(status, "uploading") => status = "created"
    /\ CanTransition(status, "submitted") => status \in {"created", "uploading"}
    /\ CanTransition(status, "cancelled") => status \in {"created", "uploading", "submitted", "running"}
    /\ CanTransition(status, "running") => status \in {"submitted", "running"}
    /\ CanTransition(status, "indexing") => status \in {"submitted", "running"}
    /\ CanTransition(status, "settling") => status = "indexing"
    /\ CanTransition(status, "failed") => status \notin {"none", "completed", "failed", "cancelled"}
BY DEF CanTransition, Terminal

\* What a release does to claims and money.
ReleaseEffect ==
    /\ claims' \subseteq Movements /\ moved' \subseteq claims'
    /\ "hold" \in claims' <=> "hold" \in claims
    /\ "hold" \in moved' <=> "hold" \in moved
    /\ "capture" \in claims' <=> "capture" \in claims
    /\ "capture" \in moved' <=> "capture" \in moved
    /\ "release" \in moved' => "release" \in moved \/ "hold" \in claims
    /\ moved' # {} => moved # {} \/ "hold" \in claims

ReleaseBy(p, q, r) ==
    /\ ReleaseEffect
    /\ GoTo(p, q) \/ GoTo(p, r)
    /\ UNCHANGED <<jobVars, payable, stranded, providerVars, queueVars, lockVars, faults>>

LEMMA ReleaseMoves ==
    ASSUME BatchTypeOK, NEW p, NEW q, NEW r, Release(p, q, r)
    PROVE  ReleaseBy(p, q, r)
<1>1. claims \subseteq Movements /\ moved \subseteq claims
  BY DEF BatchTypeOK
<1>2. UNCHANGED <<claims, moved>> => ReleaseEffect
  BY <1>1 DEF ReleaseEffect
<1>3. Released => ReleaseEffect
  BY <1>1 DEF Released, Move, ReleaseEffect, Movements
<1>4. Released \/ UNCHANGED <<claims, moved>>
  BY DEF Release
<1>5. GoTo(p, q) \/ GoTo(p, r)
  BY DEF Release
<1>6. UNCHANGED <<jobVars, payable, stranded, providerVars, queueVars, lockVars, faults>>
  BY DEF Release
<1> QED BY <1>2, <1>3, <1>4, <1>5, <1>6, Zenon DEF ReleaseBy

LEMMA ReleaseSteps ==
    ASSUME BatchTypeOK
    PROVE  /\ SubmitRelease =>
                \/ At("submit", "giveback") /\ ReleaseBy("submit", "done", "unreleased")
                \/ At("submit", "release") /\ ReleaseBy("submit", "record", "unreleased")
           /\ CancelRelease => At("owner", "release") /\ ReleaseBy("owner", "idle", "enqueue")
           /\ RecoveryRelease => At("recovery", "release") /\ ReleaseBy("recovery", "idle", "enqueue")
           /\ \A w \in Workers :
                /\ ReleaseTerminal(w) => At(w, "release") /\ ReleaseBy(w, "ack", "requeue")
                /\ Exhaust(w) => At(w, "exhaust") /\ ReleaseBy(w, "fail", "check")
<1>1. SubmitRelease =>
        \/ At("submit", "giveback") /\ ReleaseBy("submit", "done", "unreleased")
        \/ At("submit", "release") /\ ReleaseBy("submit", "record", "unreleased")
  BY ReleaseMoves, Zenon DEF SubmitRelease
<1>2. CancelRelease => At("owner", "release") /\ ReleaseBy("owner", "idle", "enqueue")
  BY ReleaseMoves, Zenon DEF CancelRelease
<1>3. RecoveryRelease => At("recovery", "release") /\ ReleaseBy("recovery", "idle", "enqueue")
  BY ReleaseMoves, Zenon DEF RecoveryRelease
<1>4. ASSUME NEW w \in Workers
      PROVE  /\ ReleaseTerminal(w) => At(w, "release") /\ ReleaseBy(w, "ack", "requeue")
             /\ Exhaust(w) => At(w, "exhaust") /\ ReleaseBy(w, "fail", "check")
  BY ReleaseMoves, Zenon DEF ReleaseTerminal, Exhaust
<1> QED BY <1>1, <1>2, <1>3, <1>4

\* The processes are distinct.
LEMMA Names ==
    /\ "submit" \in Procs /\ "owner" \in Procs /\ "recovery" \in Procs
    /\ \A w \in Workers : w \in Procs /\ w \notin {"submit", "owner", "recovery", "dead"} /\ w # NoWorker
    /\ \A p \in Procs : p \notin {"submit", "owner", "recovery"} => p \in Workers
BY BatchAssumption DEF Procs

\* The queue keeps its types.
QueueType == /\ ready \in 0..MaxReady
             /\ delayed \in BOOLEAN /\ active \in BOOLEAN /\ inflight \in BOOLEAN

LEMMA EnqueueType ==
    ASSUME QueueType, NEW p, NEW q, Enqueue(p, q)
    PROVE  QueueType'
<1>1. ready' \in 0..MaxReady
  BY BatchAssumption DEF QueueType, Enqueue
<1>2. inflight' \in BOOLEAN
  BY DEF QueueType, Enqueue
<1> QED BY <1>1, <1>2 DEF QueueType, Enqueue

\* A step keeps the types.
LEMMA TypeStep ==
    ASSUME Inv, [Next]_vars
    PROVE  BatchTypeOK'
<1> USE BatchAssumption DEF Inv, jobVars, moneyVars, providerVars, queueVars, lockVars
<1>1. CASE CreateJob
  <2>1. pc' \in [Procs -> Positions]
    BY <1>1 DEF CreateJob, At, GoTo, BatchTypeOK, Procs, Positions
  <2> QED BY <1>1, <2>1 DEF CreateJob, At, BatchTypeOK, JobInv, Statuses
<1>2. CASE ReserveHold
  <2>1. pc' \in [Procs -> Positions]
    BY <1>2 DEF ReserveHold, At, GoTo, Move, BatchTypeOK, Procs, Positions
  <2>2. claims' \subseteq Movements /\ moved' \subseteq claims'
    BY <1>2 DEF ReserveHold, Move, BatchTypeOK, Movements
  <2> QED BY <1>2, <2>1, <2>2 DEF ReserveHold, BatchTypeOK
<1>3. CASE StartUpload
  <2>1. pc' \in [Procs -> Positions]
    BY <1>3, FromStatus DEF StartUpload, At, GoTo, Transition, BatchTypeOK, Procs, Positions
  <2> QED BY <1>3, FromStatus, <2>1 DEF StartUpload, At, Transition, BatchTypeOK, JobInv, Statuses
<1>4. CASE ProviderSubmit
  <2>1. pc' \in [Procs -> Positions]
    BY <1>4 DEF ProviderSubmit, At, GoTo, BatchTypeOK, Procs, Positions
  <2> QED BY <1>4, <2>1 DEF ProviderSubmit, At, BatchTypeOK, JobInv, Statuses
<1>5. CASE SaveProviderJob
  <2>1. pc' \in [Procs -> Positions]
    BY <1>5, FromStatus DEF SaveProviderJob, At, GoTo, BatchTypeOK, Procs, Positions
  <2>2. providerJob' \in BOOLEAN
    BY <1>5 DEF SaveProviderJob, BatchTypeOK
  <2> QED BY <1>5, <2>1, <2>2 DEF SaveProviderJob, BatchTypeOK, Statuses
<1>6. CASE AbortOrphan
  <2>1. pc' \in [Procs -> Positions]
    BY <1>6 DEF AbortOrphan, At, GoTo, ProviderCancel, BatchTypeOK, Procs, Positions
  <2> QED BY <1>6, <2>1 DEF AbortOrphan, At, ProviderCancel, BatchTypeOK, JobInv, Statuses
<1>7. CASE SubmitRelease
  <2>1. pc' \in [Procs -> Positions]
    BY <1>7, ReleaseSteps DEF At, GoTo, ReleaseBy, ReleaseEffect, BatchTypeOK, Procs, Positions
  <2> QED BY <1>7, ReleaseSteps, <2>1 DEF At, ReleaseBy, ReleaseEffect, BatchTypeOK, JobInv, Statuses
<1>8. CASE RecordFailure
  <2>1. pc' \in [Procs -> Positions]
    BY <1>8 DEF RecordFailure, At, GoTo, BatchTypeOK, Procs, Positions
  <2> QED BY <1>8, <2>1 DEF RecordFailure, At, BatchTypeOK, JobInv, Statuses
<1>9. CASE SubmitEnqueue
  <2>1. pc' \in [Procs -> Positions]
    BY <1>9 DEF SubmitEnqueue, At, GoTo, Enqueue, BatchTypeOK, Procs, Positions
  <2>2. QueueType'
    BY <1>9, EnqueueType DEF SubmitEnqueue, BatchTypeOK, QueueType
  <2> QED BY <1>9, <2>1, <2>2 DEF SubmitEnqueue, At, Enqueue, BatchTypeOK, QueueType
<1>10. CASE CancelReads
  <2>1. pc' \in [Procs -> Positions]
    BY <1>10 DEF CancelReads, At, GoTo, Done, Terminal, BatchTypeOK, Procs, Positions
  <2> QED BY <1>10, <2>1 DEF CancelReads, At, Done, Terminal, BatchTypeOK, JobInv, Statuses
<1>11. CASE CancelAtProvider
  <2>1. pc' \in [Procs -> Positions]
    BY <1>11 DEF CancelAtProvider, At, GoTo, ProviderCancel, BatchTypeOK, Procs, Positions
  <2> QED BY <1>11, <2>1 DEF CancelAtProvider, At, ProviderCancel, BatchTypeOK, JobInv, Statuses
<1>12. CASE CancelTransition
  <2>1. pc' \in [Procs -> Positions]
    BY <1>12, FromStatus DEF CancelTransition, At, GoTo, Transition, BatchTypeOK, Procs, Positions
  <2> QED BY <1>12, FromStatus, <2>1 DEF CancelTransition, At, Transition, BatchTypeOK, JobInv, Statuses
<1>13. CASE CancelRelease
  <2>1. pc' \in [Procs -> Positions]
    BY <1>13, ReleaseSteps DEF At, GoTo, ReleaseBy, ReleaseEffect, BatchTypeOK, Procs, Positions
  <2> QED BY <1>13, ReleaseSteps, <2>1 DEF At, ReleaseBy, ReleaseEffect, BatchTypeOK, JobInv, Statuses
<1>14. CASE Resubmit
  <2>1. pc' \in [Procs -> Positions]
    BY <1>14 DEF Resubmit, At, GoTo, BatchTypeOK, Procs, Positions
  <2> QED BY <1>14, <2>1 DEF Resubmit, At, BatchTypeOK, JobInv, Statuses
<1>15. CASE OwnerEnqueue
  <2>1. pc' \in [Procs -> Positions]
    BY <1>15 DEF OwnerEnqueue, At, GoTo, Enqueue, BatchTypeOK, Procs, Positions
  <2>2. QueueType'
    BY <1>15, EnqueueType DEF OwnerEnqueue, BatchTypeOK, QueueType
  <2> QED BY <1>15, <2>1, <2>2 DEF OwnerEnqueue, At, Enqueue, BatchTypeOK, QueueType
<1>16. CASE FailStale
  <2>1. pc' \in [Procs -> Positions]
    BY <1>16 DEF FailStale, At, GoTo, Fault, BatchTypeOK, Procs, Positions
  <2> QED BY <1>16, <2>1 DEF FailStale, At, Fault, BatchTypeOK, JobInv, Statuses
<1>17. CASE RecoveryRelease
  <2>1. pc' \in [Procs -> Positions]
    BY <1>17, ReleaseSteps DEF At, GoTo, ReleaseBy, ReleaseEffect, BatchTypeOK, Procs, Positions
  <2> QED BY <1>17, ReleaseSteps, <2>1 DEF At, ReleaseBy, ReleaseEffect, BatchTypeOK, JobInv, Statuses
<1>18. CASE RecoveryEnqueue
  <2>1. pc' \in [Procs -> Positions]
    BY <1>18 DEF RecoveryEnqueue, At, GoTo, Enqueue, BatchTypeOK, Procs, Positions
  <2>2. QueueType'
    BY <1>18, EnqueueType DEF RecoveryEnqueue, BatchTypeOK, QueueType
  <2> QED BY <1>18, <2>1, <2>2 DEF RecoveryEnqueue, At, Enqueue, BatchTypeOK, QueueType
<1>19. ASSUME NEW w \in Workers, Reserve(w) PROVE BatchTypeOK'
  <2>1. pc' \in [Procs -> Positions]
    BY <1>19 DEF Reserve, At, GoTo, BatchTypeOK, Procs, Positions
  <2> QED BY <1>19, <2>1 DEF Reserve, At, BatchTypeOK, JobInv, Statuses
<1>20. ASSUME NEW w \in Workers, TryLock(w) PROVE BatchTypeOK'
  <2>1. pc' \in [Procs -> Positions]
    BY <1>20 DEF TryLock, At, GoTo, BatchTypeOK, Procs, Positions
  <2> QED BY <1>20, <2>1 DEF TryLock, At, BatchTypeOK, JobInv, Statuses
<1>21. ASSUME NEW w \in Workers, Pipeline(w) PROVE BatchTypeOK'
  <2>1. pc' \in [Procs -> Positions]
    BY <1>21 DEF Pipeline, At, GoTo, Step, BatchTypeOK, Procs, Positions
  <2> QED BY <1>21, <2>1 DEF Pipeline, At, Step, BatchTypeOK, JobInv, Statuses
<1>22. ASSUME NEW w \in Workers, Process(w) PROVE BatchTypeOK'
  <2>1. pc' \in [Procs -> Positions]
    BY <1>22 DEF Process, At, GoTo, Step, Done, Terminal, BatchTypeOK, Procs, Positions
  <2> QED BY <1>22, <2>1 DEF Process, At, Step, Done, Terminal, BatchTypeOK, JobInv, Statuses
<1>23. ASSUME NEW w \in Workers, Get(w) PROVE BatchTypeOK'
  <2>1. pc' \in [Procs -> Positions]
    BY <1>23, FromStatus DEF Get, At, GoTo, Transition, Step, BatchTypeOK, Procs, Positions
  <2> QED BY <1>23, FromStatus, <2>1 DEF Get, At, Transition, Step, BatchTypeOK, JobInv, Statuses
<1>24. ASSUME NEW w \in Workers, Index(w) PROVE BatchTypeOK'
  <2>1. pc' \in [Procs -> Positions]
    BY <1>24 DEF Index, At, GoTo, Step, BatchTypeOK, Procs, Positions
  <2> QED BY <1>24, <2>1 DEF Index, At, Step, BatchTypeOK, JobInv, Statuses
<1>25. ASSUME NEW w \in Workers, Indexed(w) PROVE BatchTypeOK'
  <2>1. pc' \in [Procs -> Positions]
    BY <1>25, FromStatus DEF Indexed, At, GoTo, Transition, BatchTypeOK, Procs, Positions
  <2> QED BY <1>25, FromStatus, <2>1 DEF Indexed, At, Transition, BatchTypeOK, JobInv, Statuses
<1>26. ASSUME NEW w \in Workers, Unindexed(w) PROVE BatchTypeOK'
  <2>1. pc' \in [Procs -> Positions]
    BY <1>26, FromStatus DEF Unindexed, At, GoTo, Transition, BatchTypeOK, Procs, Positions
  <2> QED BY <1>26, FromStatus, <2>1 DEF Unindexed, At, Transition, BatchTypeOK, JobInv, Statuses
<1>27. ASSUME NEW w \in Workers, ReleaseTerminal(w) PROVE BatchTypeOK'
  <2>1. pc' \in [Procs -> Positions]
    BY <1>27, ReleaseSteps DEF At, GoTo, ReleaseBy, ReleaseEffect, BatchTypeOK, Procs, Positions
  <2> QED BY <1>27, ReleaseSteps, <2>1 DEF At, ReleaseBy, ReleaseEffect, BatchTypeOK, JobInv, Statuses
<1>28. ASSUME NEW w \in Workers, Settle(w) PROVE BatchTypeOK'
  <2>1. pc' \in [Procs -> Positions]
    BY <1>28 DEF Settle, At, GoTo, Step, BatchTypeOK, Procs, Positions
  <2> QED BY <1>28, <2>1 DEF Settle, At, Step, BatchTypeOK, JobInv, Statuses
<1>29. ASSUME NEW w \in Workers, Capture(w) PROVE BatchTypeOK'
  <2>1. pc' \in [Procs -> Positions]
    BY <1>29 DEF Capture, At, GoTo, Move, BatchTypeOK, Procs, Positions
  <2>2. claims' \subseteq Movements /\ moved' \subseteq claims'
    BY <1>29 DEF Capture, Move, BatchTypeOK, Movements
  <2> QED BY <1>29, <2>1, <2>2 DEF Capture, BatchTypeOK
<1>30. ASSUME NEW w \in Workers, MarkSettled(w) PROVE BatchTypeOK'
  <2>1. pc' \in [Procs -> Positions]
    BY <1>30 DEF MarkSettled, At, GoTo, BatchTypeOK, Procs, Positions
  <2> QED BY <1>30, <2>1 DEF MarkSettled, At, BatchTypeOK, JobInv, Statuses
<1>31. ASSUME NEW w \in Workers, CountFailure(w) PROVE BatchTypeOK'
  <2>1. pc' \in [Procs -> Positions]
    BY <1>31 DEF CountFailure, AfterFailure, At, GoTo, BatchTypeOK, Procs, Positions
  <2> QED BY <1>31, <2>1 DEF CountFailure, At, BatchTypeOK, JobInv, Statuses
<1>32. ASSUME NEW w \in Workers, Exhaust(w) PROVE BatchTypeOK'
  <2>1. pc' \in [Procs -> Positions]
    BY <1>32, ReleaseSteps DEF At, GoTo, ReleaseBy, ReleaseEffect, BatchTypeOK, Procs, Positions
  <2> QED BY <1>32, ReleaseSteps, <2>1 DEF At, ReleaseBy, ReleaseEffect, BatchTypeOK, JobInv, Statuses
<1>33. ASSUME NEW w \in Workers, FailExhausted(w) PROVE BatchTypeOK'
  <2>1. pc' \in [Procs -> Positions]
    BY <1>33, FromStatus DEF FailExhausted, At, GoTo, Transition, BatchTypeOK, Procs, Positions
  <2> QED BY <1>33, FromStatus, <2>1 DEF FailExhausted, At, Transition, BatchTypeOK, JobInv, Statuses
<1>34. ASSUME NEW w \in Workers, Check(w) PROVE BatchTypeOK'
  <2>1. pc' \in [Procs -> Positions]
    BY <1>34 DEF Check, At, GoTo, Step, Terminal, BatchTypeOK, Procs, Positions
  <2> QED BY <1>34, <2>1 DEF Check, Step, BatchTypeOK
<1>35. ASSUME NEW w \in Workers, Ack(w) PROVE BatchTypeOK'
  <2>1. pc' \in [Procs -> Positions]
    BY <1>35 DEF Ack, At, GoTo, BatchTypeOK, Procs, Positions
  <2> QED BY <1>35, <2>1 DEF Ack, BatchTypeOK
<1>36. ASSUME NEW w \in Workers, RequeueAfter(w) PROVE BatchTypeOK'
  <2>1. pc' \in [Procs -> Positions]
    BY <1>36 DEF RequeueAfter, At, GoTo, BatchTypeOK, Procs, Positions
  <2> QED BY <1>36, <2>1 DEF RequeueAfter, BatchTypeOK
<1>37. ASSUME NEW w \in Workers, Unlock(w) PROVE BatchTypeOK'
  <2>1. pc' \in [Procs -> Positions]
    BY <1>37 DEF Unlock, At, GoTo, BatchTypeOK, Procs, Positions
  <2> QED BY <1>37, <2>1 DEF Unlock, BatchTypeOK
<1>38. CASE MoveDueDelayed
  <2>1. pc' \in [Procs -> Positions]
    BY <1>38 DEF MoveDueDelayed, At, GoTo, BatchTypeOK, Procs, Positions
  <2>2. ready' \in 0..MaxReady
    BY <1>38 DEF MoveDueDelayed, BatchTypeOK
  <2> QED BY <1>38, <2>1, <2>2 DEF MoveDueDelayed, BatchTypeOK
<1>39. CASE RecoverStaleActive
  <2>1. pc' \in [Procs -> Positions]
    BY <1>39 DEF RecoverStaleActive, At, GoTo, Fault, AllIdle, BatchTypeOK, Procs, Positions
  <2>2. ready' \in 0..MaxReady
    BY <1>39 DEF RecoverStaleActive, BatchTypeOK
  <2>3. faults' \in 0..MaxFaults
    BY <1>39 DEF RecoverStaleActive, Fault, BatchTypeOK
  <2> QED BY <1>39, <2>1, <2>2, <2>3 DEF RecoverStaleActive, BatchTypeOK
<1>40. CASE LockLapses
  <2>1. pc' \in [Procs -> Positions]
    BY <1>40 DEF LockLapses, At, GoTo, Fault, BatchTypeOK, Procs, Positions
  <2>2. faults' \in 0..MaxFaults
    BY <1>40 DEF LockLapses, Fault, BatchTypeOK
  <2>3. overlapped' \in BOOLEAN
    BY <1>40 DEF LockLapses, BatchTypeOK
  <2> QED BY <1>40, <2>1, <2>2, <2>3 DEF LockLapses, BatchTypeOK
<1>41. CASE ProviderEnds
  <2>1. pc' \in [Procs -> Positions]
    BY <1>41 DEF ProviderEnds, At, GoTo, BatchTypeOK, Procs, Positions
  <2> QED BY <1>41, <2>1 DEF ProviderEnds, At, BatchTypeOK, JobInv, Statuses
<1>42. ASSUME NEW p \in Procs, CallFails(p) PROVE BatchTypeOK'
  <2>1. pc' \in [Procs -> Positions]
    BY <1>42 DEF CallFails, At, GoTo, Fault, ErrorOf, SubmitError, OwnerError, RecoveryError, WorkerError, AfterFailure, BatchTypeOK, Procs, Positions
  <2> QED BY <1>42, <2>1 DEF CallFails, At, Fault, BatchTypeOK, JobInv, Statuses
<1>43. ASSUME NEW p \in Procs, Crash(p) PROVE BatchTypeOK'
  <2>1. pc' \in [Procs -> Positions]
    BY <1>43 DEF Crash, At, GoTo, Fault, BatchTypeOK, Procs, Positions
  <2> QED BY <1>43, <2>1 DEF Crash, At, Fault, BatchTypeOK, JobInv, Statuses
<1>44. CASE UNCHANGED vars
  BY <1>44 DEF vars, BatchTypeOK
<1> QED
  BY <1>1, <1>2, <1>3, <1>4, <1>5, <1>6, <1>7, <1>8, <1>9, <1>10, <1>11, <1>12, <1>13, <1>14, <1>15, <1>16, <1>17, <1>18, <1>19, <1>20, <1>21, <1>22, <1>23, <1>24, <1>25, <1>26, <1>27, <1>28, <1>29, <1>30, <1>31, <1>32, <1>33, <1>34, <1>35, <1>36, <1>37, <1>38, <1>39, <1>40, <1>41, <1>42, <1>43, <1>44
     DEF Next, Submit, Owner, Recovery, Work

\* A step keeps the facts about money and submission.
LEMMA MoneyStep ==
    ASSUME Inv, [Next]_vars
    PROVE  (MoneyInv /\ JobInv)'
<1>0. pc \in [Procs -> Positions] /\ retries \in 0..MaxRetries /\ moved \subseteq claims /\ BatchTypeOK
  BY DEF Inv, BatchTypeOK
<1> USE <1>0, Names, BatchAssumption
    DEF Inv, MoneyInv, JobInv, NoPhantomRelease, Submitted,
        jobVars, moneyVars, providerVars, queueVars, lockVars
<1>1. CASE CreateJob
  BY <1>1 DEF CreateJob, At, GoTo
<1>2. CASE ReserveHold
  BY <1>2 DEF ReserveHold, At, GoTo, Move
<1>3. CASE StartUpload
  BY <1>3, FromStatus DEF StartUpload, At, GoTo, Transition
<1>4. CASE ProviderSubmit
  BY <1>4 DEF ProviderSubmit, At, GoTo
<1>5. CASE SaveProviderJob
  BY <1>5, FromStatus DEF SaveProviderJob, At, GoTo
<1>6. CASE AbortOrphan
  BY <1>6 DEF AbortOrphan, At, GoTo, ProviderCancel
<1>7. CASE SubmitRelease
  BY <1>7, ReleaseSteps DEF At, GoTo, ReleaseBy, ReleaseEffect
<1>8. CASE RecordFailure
  BY <1>8 DEF RecordFailure, At, GoTo
<1>9. CASE SubmitEnqueue
  BY <1>9 DEF SubmitEnqueue, At, GoTo, Enqueue
<1>10. CASE CancelReads
  BY <1>10 DEF CancelReads, At, GoTo, Done, Terminal
<1>11. CASE CancelAtProvider
  BY <1>11 DEF CancelAtProvider, At, GoTo, ProviderCancel
<1>12. CASE CancelTransition
  BY <1>12, FromStatus DEF CancelTransition, At, GoTo, Transition
<1>13. CASE CancelRelease
  BY <1>13, ReleaseSteps DEF At, GoTo, ReleaseBy, ReleaseEffect
<1>14. CASE Resubmit
  BY <1>14 DEF Resubmit, At, GoTo
<1>15. CASE OwnerEnqueue
  BY <1>15 DEF OwnerEnqueue, At, GoTo, Enqueue
<1>16. CASE FailStale
  BY <1>16 DEF FailStale, At, GoTo, Fault
<1>17. CASE RecoveryRelease
  BY <1>17, ReleaseSteps DEF At, GoTo, ReleaseBy, ReleaseEffect
<1>18. CASE RecoveryEnqueue
  BY <1>18 DEF RecoveryEnqueue, At, GoTo, Enqueue
<1>19. ASSUME NEW w \in Workers, Reserve(w) PROVE (MoneyInv /\ JobInv)'
  BY <1>19 DEF Reserve, At, GoTo
<1>20. ASSUME NEW w \in Workers, TryLock(w) PROVE (MoneyInv /\ JobInv)'
  BY <1>20 DEF TryLock, At, GoTo
<1>21. ASSUME NEW w \in Workers, Pipeline(w) PROVE (MoneyInv /\ JobInv)'
  BY <1>21 DEF Pipeline, At, GoTo, Step
<1>22. ASSUME NEW w \in Workers, Process(w) PROVE (MoneyInv /\ JobInv)'
  BY <1>22 DEF Process, At, GoTo, Step, Done, Terminal
<1>23. ASSUME NEW w \in Workers, Get(w) PROVE (MoneyInv /\ JobInv)'
  BY <1>23, FromStatus DEF Get, At, GoTo, Transition, Step
<1>24. ASSUME NEW w \in Workers, Index(w) PROVE (MoneyInv /\ JobInv)'
  BY <1>24 DEF Index, At, GoTo, Step
<1>25. ASSUME NEW w \in Workers, Indexed(w) PROVE (MoneyInv /\ JobInv)'
  BY <1>25, FromStatus DEF Indexed, At, GoTo, Transition
<1>26. ASSUME NEW w \in Workers, Unindexed(w) PROVE (MoneyInv /\ JobInv)'
  BY <1>26, FromStatus DEF Unindexed, At, GoTo, Transition
<1>27. ASSUME NEW w \in Workers, ReleaseTerminal(w) PROVE (MoneyInv /\ JobInv)'
  BY <1>27, ReleaseSteps DEF At, GoTo, ReleaseBy, ReleaseEffect
<1>28. ASSUME NEW w \in Workers, Settle(w) PROVE (MoneyInv /\ JobInv)'
  BY <1>28 DEF Settle, At, GoTo, Step
<1>29. ASSUME NEW w \in Workers, Capture(w) PROVE (MoneyInv /\ JobInv)'
  BY <1>29 DEF Capture, At, GoTo, Move
<1>30. ASSUME NEW w \in Workers, MarkSettled(w) PROVE (MoneyInv /\ JobInv)'
  BY <1>30 DEF MarkSettled, At, GoTo
<1>31. ASSUME NEW w \in Workers, CountFailure(w) PROVE (MoneyInv /\ JobInv)'
  BY <1>31 DEF CountFailure, AfterFailure, At, GoTo
<1>32. ASSUME NEW w \in Workers, Exhaust(w) PROVE (MoneyInv /\ JobInv)'
  BY <1>32, ReleaseSteps DEF At, GoTo, ReleaseBy, ReleaseEffect
<1>33. ASSUME NEW w \in Workers, FailExhausted(w) PROVE (MoneyInv /\ JobInv)'
  BY <1>33, FromStatus DEF FailExhausted, At, GoTo, Transition
<1>34. ASSUME NEW w \in Workers, Check(w) PROVE (MoneyInv /\ JobInv)'
  BY <1>34 DEF Check, At, GoTo, Step, Terminal
<1>35. ASSUME NEW w \in Workers, Ack(w) PROVE (MoneyInv /\ JobInv)'
  BY <1>35 DEF Ack, At, GoTo
<1>36. ASSUME NEW w \in Workers, RequeueAfter(w) PROVE (MoneyInv /\ JobInv)'
  BY <1>36 DEF RequeueAfter, At, GoTo
<1>37. ASSUME NEW w \in Workers, Unlock(w) PROVE (MoneyInv /\ JobInv)'
  BY <1>37 DEF Unlock, At, GoTo
<1>38. CASE MoveDueDelayed
  BY <1>38 DEF MoveDueDelayed, At, GoTo
<1>39. CASE RecoverStaleActive
  BY <1>39 DEF RecoverStaleActive, At, GoTo, Fault, AllIdle
<1>40. CASE LockLapses
  BY <1>40 DEF LockLapses, At, GoTo, Fault
<1>41. CASE ProviderEnds
  BY <1>41 DEF ProviderEnds, At, GoTo
<1>42. ASSUME NEW p \in Procs, CallFails(p) PROVE (MoneyInv /\ JobInv)'
  BY <1>42 DEF CallFails, At, GoTo, Fault, ErrorOf, SubmitError, OwnerError, RecoveryError, WorkerError, AfterFailure
<1>43. ASSUME NEW p \in Procs, Crash(p) PROVE (MoneyInv /\ JobInv)'
  BY <1>43 DEF Crash, At, GoTo, Fault
<1>44. CASE UNCHANGED vars
  BY <1>44 DEF vars
<1> QED
  BY <1>1, <1>2, <1>3, <1>4, <1>5, <1>6, <1>7, <1>8, <1>9, <1>10, <1>11, <1>12, <1>13, <1>14, <1>15, <1>16, <1>17, <1>18, <1>19, <1>20, <1>21, <1>22, <1>23, <1>24, <1>25, <1>26, <1>27, <1>28, <1>29, <1>30, <1>31, <1>32, <1>33, <1>34, <1>35, <1>36, <1>37, <1>38, <1>39, <1>40, <1>41, <1>42, <1>43, <1>44
     DEF Next, Submit, Owner, Recovery, Work

\* A step keeps what holds while no worker lost its lock.
LEMMA OnceStep ==
    ASSUME Inv, OnceInv, [Next]_vars
    PROVE  OnceInv'
<1>0. pc \in [Procs -> Positions] /\ retries \in 0..MaxRetries /\ moved \subseteq claims /\ BatchTypeOK
  BY DEF Inv, BatchTypeOK
<1> USE <1>0, Names, BatchAssumption
    DEF Inv, JobInv, Submitted, OnceInv, SerialInv, Over, Holding,
        jobVars, moneyVars, providerVars, queueVars, lockVars
<1>1. CASE CreateJob
  BY <1>1 DEF CreateJob, At, GoTo
<1>2. CASE ReserveHold
  BY <1>2 DEF ReserveHold, At, GoTo, Move
<1>3. CASE StartUpload
  BY <1>3, FromStatus DEF StartUpload, At, GoTo, Transition
<1>4. CASE ProviderSubmit
  BY <1>4 DEF ProviderSubmit, At, GoTo
<1>5. CASE SaveProviderJob
  BY <1>5, FromStatus DEF SaveProviderJob, At, GoTo
<1>6. CASE AbortOrphan
  BY <1>6 DEF AbortOrphan, At, GoTo, ProviderCancel
<1>7. CASE SubmitRelease
  BY <1>7, ReleaseSteps DEF At, GoTo, ReleaseBy, ReleaseEffect
<1>8. CASE RecordFailure
  <2>1. /\ \A x \in Procs : x # "submit" => pc'[x] = pc[x]
        /\ pc'["submit"] \in {"done", "enqueue"}
    BY <1>8 DEF RecordFailure, GoTo
  <2>2. /\ status' = "failed" /\ status \notin Submitted /\ ~providerJob
        /\ UNCHANGED <<moved, providerJob, retries, lock, overlapped>>
    BY <1>8 DEF RecordFailure
  <2> QED BY <2>1, <2>2
<1>9. CASE SubmitEnqueue
  BY <1>9 DEF SubmitEnqueue, At, GoTo, Enqueue
<1>10. CASE CancelReads
  BY <1>10 DEF CancelReads, At, GoTo, Done, Terminal
<1>11. CASE CancelAtProvider
  BY <1>11 DEF CancelAtProvider, At, GoTo, ProviderCancel
<1>12. CASE CancelTransition
  BY <1>12, FromStatus DEF CancelTransition, At, GoTo, Transition
<1>13. CASE CancelRelease
  <2>1. /\ Over /\ ("capture" \in moved' => "capture" \in moved)
        /\ GoTo("owner", "idle") \/ GoTo("owner", "enqueue")
        /\ UNCHANGED <<status, providerJob, retries, lock, overlapped>>
    BY <1>13, ReleaseSteps DEF ReleaseBy, ReleaseEffect, At
  <2>2. /\ \A x \in Procs : x # "owner" => pc'[x] = pc[x]
        /\ pc'["owner"] # "release"
    BY <2>1 DEF GoTo
  <2> QED BY <2>1, <2>2
<1>14. CASE Resubmit
  BY <1>14 DEF Resubmit, At, GoTo
<1>15. CASE OwnerEnqueue
  BY <1>15 DEF OwnerEnqueue, At, GoTo, Enqueue
<1>16. CASE FailStale
  BY <1>16 DEF FailStale, At, GoTo, Fault
<1>17. CASE RecoveryRelease
  <2>1. /\ Over /\ ("capture" \in moved' => "capture" \in moved)
        /\ GoTo("recovery", "idle") \/ GoTo("recovery", "enqueue")
        /\ UNCHANGED <<status, providerJob, retries, lock, overlapped>>
    BY <1>17, ReleaseSteps DEF ReleaseBy, ReleaseEffect, At
  <2>2. /\ \A x \in Procs : x # "recovery" => pc'[x] = pc[x]
        /\ pc'["recovery"] # "release"
    BY <2>1 DEF GoTo
  <2> QED BY <2>1, <2>2
<1>18. CASE RecoveryEnqueue
  BY <1>18 DEF RecoveryEnqueue, At, GoTo, Enqueue
<1>19. ASSUME NEW w \in Workers, Reserve(w) PROVE OnceInv'
  BY <1>19 DEF Reserve, At, GoTo
<1>20. ASSUME NEW w \in Workers, TryLock(w) PROVE OnceInv'
  BY <1>20 DEF TryLock, At, GoTo
<1>21. ASSUME NEW w \in Workers, Pipeline(w) PROVE OnceInv'
  BY <1>21 DEF Pipeline, At, GoTo, Step
<1>22. ASSUME NEW w \in Workers, Process(w) PROVE OnceInv'
  <2>1. \A x \in Procs : x # w => pc'[x] = pc[x]
    BY <1>22 DEF Process, Step, GoTo
  <2>2. /\ pc[w] = "process"
        /\ pc'[w] \in {"ack", "release", "requeue", "index", "get"}
        /\ pc'[w] = "release" => Over
        /\ pc'[w] = "index" => status = "indexing"
        /\ pc'[w] = "get" => status \in {"submitted", "running"}
    BY <1>22, <1>0 DEF Process, Step, GoTo, At, Done, Terminal, BatchTypeOK, Statuses
  <2> QED BY <1>22, <2>1, <2>2 DEF Process, Step
<1>23. ASSUME NEW w \in Workers, Get(w) PROVE OnceInv'
  BY <1>23, FromStatus DEF Get, At, GoTo, Transition, Step
<1>24. ASSUME NEW w \in Workers, Index(w) PROVE OnceInv'
  BY <1>24 DEF Index, At, GoTo, Step
<1>25. ASSUME NEW w \in Workers, Indexed(w) PROVE OnceInv'
  BY <1>25, FromStatus DEF Indexed, At, GoTo, Transition
<1>26. ASSUME NEW w \in Workers, Unindexed(w) PROVE OnceInv'
  BY <1>26, FromStatus DEF Unindexed, At, GoTo, Transition
<1>27. ASSUME NEW w \in Workers, ReleaseTerminal(w) PROVE OnceInv'
  <2>1. /\ pc[w] = "release"
        /\ (~overlapped /\ retries < MaxRetries => Over) /\ ("capture" \in moved' => "capture" \in moved)
        /\ GoTo(w, "ack") \/ GoTo(w, "requeue")
        /\ UNCHANGED <<status, providerJob, retries, lock, overlapped>>
    BY <1>27, ReleaseSteps DEF ReleaseBy, ReleaseEffect, At
  <2>2. /\ \A x \in Procs : x # w => pc'[x] = pc[x]
        /\ pc'[w] \in {"ack", "requeue"}
    BY <2>1 DEF GoTo
  <2> QED BY <2>1, <2>2
<1>28. ASSUME NEW w \in Workers, Settle(w) PROVE OnceInv'
  BY <1>28 DEF Settle, At, GoTo, Step
<1>29. ASSUME NEW w \in Workers, Capture(w) PROVE OnceInv'
  BY <1>29 DEF Capture, At, GoTo, Move
<1>30. ASSUME NEW w \in Workers, MarkSettled(w) PROVE OnceInv'
  BY <1>30 DEF MarkSettled, At, GoTo
<1>31. ASSUME NEW w \in Workers, CountFailure(w) PROVE OnceInv'
  BY <1>31 DEF CountFailure, AfterFailure, At, GoTo
<1>32. ASSUME NEW w \in Workers, Exhaust(w) PROVE OnceInv'
  BY <1>32, ReleaseSteps DEF At, GoTo, ReleaseBy, ReleaseEffect
<1>33. ASSUME NEW w \in Workers, FailExhausted(w) PROVE OnceInv'
  BY <1>33, FromStatus DEF FailExhausted, At, GoTo, Transition
<1>34. ASSUME NEW w \in Workers, Check(w) PROVE OnceInv'
  BY <1>34 DEF Check, At, GoTo, Step, Terminal
<1>35. ASSUME NEW w \in Workers, Ack(w) PROVE OnceInv'
  BY <1>35 DEF Ack, At, GoTo
<1>36. ASSUME NEW w \in Workers, RequeueAfter(w) PROVE OnceInv'
  BY <1>36 DEF RequeueAfter, At, GoTo
<1>37. ASSUME NEW w \in Workers, Unlock(w) PROVE OnceInv'
  BY <1>37 DEF Unlock, At, GoTo
<1>38. CASE MoveDueDelayed
  BY <1>38 DEF MoveDueDelayed, At, GoTo
<1>39. CASE RecoverStaleActive
  BY <1>39 DEF RecoverStaleActive, At, GoTo, Fault, AllIdle
<1>40. CASE LockLapses
  BY <1>40 DEF LockLapses, At, GoTo, Fault
<1>41. CASE ProviderEnds
  BY <1>41 DEF ProviderEnds, At, GoTo
<1>42. ASSUME NEW p \in Procs, CallFails(p) PROVE OnceInv'
  BY <1>42 DEF CallFails, At, GoTo, Fault, ErrorOf, SubmitError, OwnerError, RecoveryError, WorkerError, AfterFailure
<1>43. ASSUME NEW p \in Procs, Crash(p) PROVE OnceInv'
  BY <1>43 DEF Crash, At, GoTo, Fault
<1>44. CASE UNCHANGED vars
  BY <1>44 DEF vars
<1> QED
  BY <1>1, <1>2, <1>3, <1>4, <1>5, <1>6, <1>7, <1>8, <1>9, <1>10, <1>11, <1>12, <1>13, <1>14, <1>15, <1>16, <1>17, <1>18, <1>19, <1>20, <1>21, <1>22, <1>23, <1>24, <1>25, <1>26, <1>27, <1>28, <1>29, <1>30, <1>31, <1>32, <1>33, <1>34, <1>35, <1>36, <1>37, <1>38, <1>39, <1>40, <1>41, <1>42, <1>43, <1>44
     DEF Next, Submit, Owner, Recovery, Work

\* A step keeps the agreement of queue and workers.
LEMMA QueueStep ==
    ASSUME Inv, QueueInv, [Next]_vars
    PROVE  QueueInv'
<1>0. pc \in [Procs -> Positions] /\ ready \in 0..MaxReady /\ BatchTypeOK
  BY DEF Inv, BatchTypeOK
<1> USE <1>0, Names, BatchAssumption
    DEF Inv, JobInv, Submitted, QueueInv, InQueue, Holding, Terminal,
        jobVars, moneyVars, providerVars, queueVars, lockVars
<1>1. CASE CreateJob
  BY <1>1 DEF CreateJob, At, GoTo
<1>2. CASE ReserveHold
  BY <1>2 DEF ReserveHold, At, GoTo, Move
<1>3. CASE StartUpload
  BY <1>3, FromStatus DEF StartUpload, At, GoTo, Transition
<1>4. CASE ProviderSubmit
  BY <1>4 DEF ProviderSubmit, At, GoTo
<1>5. CASE SaveProviderJob
  BY <1>5, FromStatus DEF SaveProviderJob, At, GoTo
<1>6. CASE AbortOrphan
  BY <1>6 DEF AbortOrphan, At, GoTo, ProviderCancel
<1>7. CASE SubmitRelease
  BY <1>7, ReleaseSteps DEF At, GoTo, ReleaseBy, ReleaseEffect
<1>8. CASE RecordFailure
  BY <1>8 DEF RecordFailure, At, GoTo
<1>9. CASE SubmitEnqueue
  BY <1>9 DEF SubmitEnqueue, At, GoTo, Enqueue
<1>10. CASE CancelReads
  BY <1>10 DEF CancelReads, At, GoTo, Done, Terminal
<1>11. CASE CancelAtProvider
  BY <1>11 DEF CancelAtProvider, At, GoTo, ProviderCancel
<1>12. CASE CancelTransition
  BY <1>12, FromStatus DEF CancelTransition, At, GoTo, Transition
<1>13. CASE CancelRelease
  BY <1>13, ReleaseSteps DEF At, GoTo, ReleaseBy, ReleaseEffect
<1>14. CASE Resubmit
  BY <1>14 DEF Resubmit, At, GoTo
<1>15. CASE OwnerEnqueue
  BY <1>15 DEF OwnerEnqueue, At, GoTo, Enqueue
<1>16. CASE FailStale
  BY <1>16 DEF FailStale, At, GoTo, Fault
<1>17. CASE RecoveryRelease
  BY <1>17, ReleaseSteps DEF At, GoTo, ReleaseBy, ReleaseEffect
<1>18. CASE RecoveryEnqueue
  BY <1>18 DEF RecoveryEnqueue, At, GoTo, Enqueue
<1>19. ASSUME NEW w \in Workers, Reserve(w) PROVE QueueInv'
  BY <1>19 DEF Reserve, At, GoTo
<1>20. ASSUME NEW w \in Workers, TryLock(w) PROVE QueueInv'
  BY <1>20 DEF TryLock, At, GoTo
<1>21. ASSUME NEW w \in Workers, Pipeline(w) PROVE QueueInv'
  BY <1>21 DEF Pipeline, At, GoTo, Step
<1>22. ASSUME NEW w \in Workers, Process(w) PROVE QueueInv'
  BY <1>22 DEF Process, At, GoTo, Step, Done, Terminal
<1>23. ASSUME NEW w \in Workers, Get(w) PROVE QueueInv'
  BY <1>23, FromStatus DEF Get, At, GoTo, Transition, Step
<1>24. ASSUME NEW w \in Workers, Index(w) PROVE QueueInv'
  BY <1>24 DEF Index, At, GoTo, Step
<1>25. ASSUME NEW w \in Workers, Indexed(w) PROVE QueueInv'
  BY <1>25, FromStatus DEF Indexed, At, GoTo, Transition
<1>26. ASSUME NEW w \in Workers, Unindexed(w) PROVE QueueInv'
  BY <1>26, FromStatus DEF Unindexed, At, GoTo, Transition
<1>27. ASSUME NEW w \in Workers, ReleaseTerminal(w) PROVE QueueInv'
  BY <1>27, ReleaseSteps DEF At, GoTo, ReleaseBy, ReleaseEffect
<1>28. ASSUME NEW w \in Workers, Settle(w) PROVE QueueInv'
  BY <1>28 DEF Settle, At, GoTo, Step
<1>29. ASSUME NEW w \in Workers, Capture(w) PROVE QueueInv'
  BY <1>29 DEF Capture, At, GoTo, Move
<1>30. ASSUME NEW w \in Workers, MarkSettled(w) PROVE QueueInv'
  BY <1>30 DEF MarkSettled, At, GoTo
<1>31. ASSUME NEW w \in Workers, CountFailure(w) PROVE QueueInv'
  BY <1>31 DEF CountFailure, AfterFailure, At, GoTo
<1>32. ASSUME NEW w \in Workers, Exhaust(w) PROVE QueueInv'
  BY <1>32, ReleaseSteps DEF At, GoTo, ReleaseBy, ReleaseEffect
<1>33. ASSUME NEW w \in Workers, FailExhausted(w) PROVE QueueInv'
  BY <1>33, FromStatus DEF FailExhausted, At, GoTo, Transition
<1>34. ASSUME NEW w \in Workers, Check(w) PROVE QueueInv'
  BY <1>34 DEF Check, At, GoTo, Step, Terminal
<1>35. ASSUME NEW w \in Workers, Ack(w) PROVE QueueInv'
  BY <1>35 DEF Ack, At, GoTo
<1>36. ASSUME NEW w \in Workers, RequeueAfter(w) PROVE QueueInv'
  BY <1>36 DEF RequeueAfter, At, GoTo
<1>37. ASSUME NEW w \in Workers, Unlock(w) PROVE QueueInv'
  BY <1>37 DEF Unlock, At, GoTo
<1>38. CASE MoveDueDelayed
  BY <1>38 DEF MoveDueDelayed, At, GoTo
<1>39. CASE RecoverStaleActive
  BY <1>39 DEF RecoverStaleActive, At, GoTo, Fault, AllIdle
<1>40. CASE LockLapses
  BY <1>40 DEF LockLapses, At, GoTo, Fault
<1>41. CASE ProviderEnds
  BY <1>41 DEF ProviderEnds, At, GoTo
<1>42. ASSUME NEW p \in Procs, CallFails(p) PROVE QueueInv'
  BY <1>42 DEF CallFails, At, GoTo, Fault, ErrorOf, SubmitError, OwnerError, RecoveryError, WorkerError, AfterFailure
<1>43. ASSUME NEW p \in Procs, Crash(p) PROVE QueueInv'
  BY <1>43 DEF Crash, At, GoTo, Fault
<1>44. CASE UNCHANGED vars
  BY <1>44 DEF vars
<1> QED
  BY <1>1, <1>2, <1>3, <1>4, <1>5, <1>6, <1>7, <1>8, <1>9, <1>10, <1>11, <1>12, <1>13, <1>14, <1>15, <1>16, <1>17, <1>18, <1>19, <1>20, <1>21, <1>22, <1>23, <1>24, <1>25, <1>26, <1>27, <1>28, <1>29, <1>30, <1>31, <1>32, <1>33, <1>34, <1>35, <1>36, <1>37, <1>38, <1>39, <1>40, <1>41, <1>42, <1>43, <1>44
     DEF Next, Submit, Owner, Recovery, Work

LEMMA InvCorrect == Spec => [](Inv /\ OnceInv /\ QueueInv)
<1>1. Init => Inv /\ OnceInv /\ QueueInv
  <2> SUFFICES ASSUME Init PROVE Inv /\ OnceInv /\ QueueInv
    OBVIOUS
  <2>1. /\ pc \in [Procs -> Positions]
        /\ pc["submit"] = "start" /\ pc["owner"] = "idle" /\ pc["recovery"] = "idle"
        /\ \A w \in Workers : pc[w] = "idle"
    BY Names DEF Init, Positions
  <2>2. BatchTypeOK
    <3>1. retries \in 0..MaxRetries /\ ready \in 0..MaxReady /\ faults \in 0..MaxFaults
      BY BatchAssumption DEF Init
    <3>2. /\ providerJob \in BOOLEAN /\ payable \in BOOLEAN /\ stranded \in BOOLEAN /\ stop \in BOOLEAN /\ overlapped \in BOOLEAN
          /\ delayed \in BOOLEAN /\ active \in BOOLEAN /\ inflight \in BOOLEAN
      BY Zenon DEF Init
    <3> QED BY <2>1, <3>1, <3>2 DEF Init, BatchTypeOK, Statuses
  <2>3. MoneyInv /\ JobInv /\ OnceInv
    BY <2>1 DEF Init, MoneyInv, NoPhantomRelease, JobInv, OnceInv, SerialInv, Over, Holding, Submitted
  <2>4. QueueInv
    BY <2>1 DEF Init, QueueInv, InQueue, Holding, Terminal
  <2> QED BY <2>2, <2>3, <2>4 DEF Inv
<1>2. Inv /\ OnceInv /\ QueueInv /\ [Next]_vars => (Inv /\ OnceInv /\ QueueInv)'
  BY TypeStep, MoneyStep, OnceStep, QueueStep DEF Inv
<1> QED BY <1>1, <1>2, PTL DEF Spec

\* The variables keep their types, and a job with a provider job never goes back
\* to a status of its submission.
THEOREM BatchTypeCorrect == Spec => []BatchTypeOK
<1>1. Inv => BatchTypeOK
  BY DEF Inv
<1> QED BY <1>1, InvCorrect, PTL

\* The release statement never pays out, and the capture statement never charges,
\* a hold that the reserve statement did not make.
THEOREM NoPhantomCorrect == Spec => []NoPhantomRelease
<1>1. Inv => NoPhantomRelease
  BY DEF Inv, MoneyInv
<1> QED BY <1>1, InvCorrect, PTL

\* MarkBatchImageJobSettled completes only jobs whose hold was captured, however
\* many workers settle the job at once.
THEOREM ChargedCorrect == Spec => []CompletedIsCharged
<1>1. Inv => CompletedIsCharged
  BY DEF Inv, MoneyInv, CompletedIsCharged
<1> QED BY <1>1, InvCorrect, PTL

\* As long as no worker loses its lock at work and the settlement does not give
\* up, Cancel, recovery, Submit and the workers never return a captured hold, nor
\* capture a returned one.
THEOREM SettledOnceCorrect == Spec => []HoldSettledOnce
<1>1. Inv /\ OnceInv => HoldSettledOnce
  BY BatchAssumption DEF Inv, BatchTypeOK, JobInv, Submitted, OnceInv, SerialInv, Over, HoldSettledOnce
<1> QED BY <1>1, InvCorrect, PTL

\* Reserve, acknowledgement, requeueing, the mover and the recovery of stale jobs,
\* crashes between any two of them included, never drop a job whose results are
\* outstanding or unpaid, as long as no worker loses its lock at work.
THEOREM StaysQueuedCorrect == Spec => []UnfinishedStaysQueued
<1>1. QueueInv => UnfinishedStaysQueued
  BY DEF QueueInv, InQueue, Terminal, UnfinishedStaysQueued
<1> QED BY <1>1, InvCorrect, PTL
=============================================================================
