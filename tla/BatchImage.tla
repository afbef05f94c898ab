------------------------------ MODULE BatchImage ------------------------------
(***************************************************************************)
(* One batch image job and the money held for it: its submission, the      *)
(* owner's cancellations, the recovery of stale submissions, the Redis     *)
(* queue and the workers that poll the provider, index the results and     *)
(* settle (service/batch_image_*.go, repository/batch_image_*.go and the   *)
(* hold statements of repository/usage_billing_repo.go).                   *)
(*                                                                         *)
(* Every database transaction, Redis script and provider call is one step. *)
(* The held amount is one unit; the other batches of the user keep         *)
(* OtherHolds units frozen in the same balance.                            *)
(***************************************************************************)
EXTENDS Integers, FiniteSets

CONSTANTS
    Workers,     \* worker goroutines, of any instances
    NoWorker,    \* the lock is free
    OtherHolds,  \* frozen for other batches of the user
    MaxRetries,  \* batchImageSettlementMaxRetries
    MaxReady,    \* bound on the copies of the job in the ready list
    MaxFaults    \* bound on crashes, failed calls and missed heartbeats

ASSUME BatchAssumption ==
    /\ IsFiniteSet(Workers) /\ NoWorker \notin Workers
    /\ Workers \cap {"submit", "owner", "recovery", "dead"} = {} /\ NoWorker # "dead"
    /\ OtherHolds \in Nat
    /\ MaxRetries \in Nat \ {0} /\ MaxReady \in Nat \ {0} /\ MaxFaults \in Nat

VARIABLES
    status,      \* status of the job, "none" before it exists
    providerJob, \* provider_job_name is set
    retries,     \* retry_count, counted up to MaxRetries
    claims,      \* request ids in usage_billing_dedup
    moved,       \* money movements that were made
    payable,     \* the settlement's own checks accept the job
    stranded,    \* history: a request or the recovery ended between the last status
                 \* it wrote and the release or the queue that was to follow
    provider,    \* the job at the provider
    stop,        \* the provider was asked to cancel it
    ready, delayed, active, inflight,  \* the job in the queue structures
    lock,        \* holder of the job lock; "dead" when its holder is gone
    pc,          \* position of each process
    overlapped,  \* a worker lost the lock while it worked
    faults

jobVars == <<status, providerJob, retries>>
moneyVars == <<claims, moved, payable, stranded>>
providerVars == <<provider, stop>>
queueVars == <<ready, delayed, active, inflight>>
lockVars == <<lock, overlapped>>
vars == <<jobVars, moneyVars, providerVars, queueVars, lockVars, pc, faults>>

Procs == {"submit", "owner", "recovery"} \cup Workers

Statuses == {"none", "created", "uploading", "submitted", "running", "indexing",
             "settling", "completed", "failed", "cancelled"}
Movements == {"hold", "capture", "release"}
Positions == {"start", "reserve", "upload", "send", "save", "abort", "giveback", "record",
              "unreleased", "done", "idle", "transition", "release", "enqueue", "lock", "read",
              "process", "get", "index", "indexed", "unindexed", "settle", "capture", "mark",
              "count", "exhaust", "fail", "check", "ack", "requeue", "unlock"}

\* Every variable has its type, no money moves without a claim, and a job with a
\* provider job is past its submission.
BatchTypeOK ==
    /\ status \in Statuses /\ providerJob \in BOOLEAN /\ retries \in 0..MaxRetries
    /\ providerJob => status \notin {"none", "created", "uploading"}
    /\ claims \subseteq Movements /\ moved \subseteq claims
    /\ payable \in BOOLEAN /\ stranded \in BOOLEAN
    /\ provider \in {"none", "running", "succeeded", "failed", "cancelled"} /\ stop \in BOOLEAN
    /\ ready \in 0..MaxReady
    /\ delayed \in BOOLEAN /\ active \in BOOLEAN /\ inflight \in BOOLEAN
    /\ lock \in Workers \cup {NoWorker, "dead"} /\ overlapped \in BOOLEAN
    /\ pc \in [Procs -> Positions]
    /\ faults \in 0..MaxFaults

Init ==
    /\ status = "none" /\ providerJob = FALSE /\ retries = 0
    /\ claims = {} /\ moved = {} /\ payable \in BOOLEAN /\ stranded = FALSE
    /\ provider = "none" /\ stop = FALSE
    /\ ready = 0 /\ delayed = FALSE /\ active = FALSE /\ inflight = FALSE
    /\ lock = NoWorker /\ overlapped = FALSE
    /\ pc = [p \in Procs |-> IF p = "submit" THEN "start" ELSE "idle"]
    /\ faults = 0

At(p, q) == pc[p] = q
GoTo(p, q) == pc' = [pc EXCEPT ![p] = q]

Fault ==
    /\ faults < MaxFaults
    /\ faults' = faults + 1

---------------------------------------------------------------------------
(* The job's status                                                        *)

Terminal(s) == s \in {"completed", "failed", "cancelled"}

\* isBatchImageProcessorDoneStatus
Done(s) == s = "settling" \/ Terminal(s)

\* Mutant: whatever is not over may be cancelled.
CanTransition_CancelAny(from, to) ==
    /\ from # "none" /\ ~Terminal(from)
    /\ to \in {"failed", "cancelled"} \/ <<from, to>> \in
        {<<"created", "uploading">>, <<"created", "submitted">>, <<"uploading", "submitted">>,
         <<"submitted", "running">>, <<"submitted", "indexing">>,
         <<"running", "running">>, <<"running", "indexing">>,
         <<"indexing", "settling">>, <<"settling", "completed">>}

CanTransition(from, to) ==
    /\ from # "none" /\ ~Terminal(from)
    /\ \/ to = "failed"
       \/ to = "cancelled" /\ from \in {"created", "uploading", "submitted", "running"}
       \/ <<from, to>> \in
            {<<"created", "uploading">>, <<"created", "submitted">>, <<"uploading", "submitted">>,
             <<"submitted", "running">>, <<"submitted", "indexing">>,
             <<"running", "running">>, <<"running", "indexing">>,
             <<"indexing", "settling">>, <<"settling", "completed">>}

\* TransitionBatchImageJobStatus: on to q where the change is allowed, else to r.
Transition(p, to, q, r) ==
    /\ IF CanTransition(status, to)
       THEN status' = to /\ GoTo(p, q)
       ELSE UNCHANGED status /\ GoTo(p, r)
    /\ UNCHANGED <<providerJob, retries, moneyVars, providerVars, queueVars, lockVars, faults>>

---------------------------------------------------------------------------
(* The hold                                                                *)

One(m) == IF m \in moved THEN 1 ELSE 0
Frozen == OtherHolds + One("hold") - One("capture") - One("release")

\* A claim and its movement commit together.  Whether a claim that exists has the
\* same fingerprint matters to captures only.
Move(m) == claims' = claims \cup {m} /\ moved' = moved \cup {m}

\* Mutant: no look at the claim of the hold.
Released_Phantom ==
    \/ "release" \in claims /\ UNCHANGED <<claims, moved>>
    \/ "release" \notin claims /\ Move("release")

\* ReleaseBatchImageBalance.  A release of what was never held commits its claim
\* and moves nothing; a second release finds the claim.
Released ==
    \/ "release" \in claims /\ UNCHANGED <<claims, moved>>
    \/ /\ "release" \notin claims /\ "hold" \notin claims
       /\ claims' = claims \cup {"release"} /\ UNCHANGED moved
    \/ /\ "release" \notin claims /\ "hold" \in claims
       /\ Move("release")

\* On to q with the hold released, or to r with too little frozen.
Release(p, q, r) ==
    /\ IF "release" \in claims \/ "hold" \notin claims \/ Frozen > 0
       THEN Released /\ GoTo(p, q)
       ELSE UNCHANGED <<claims, moved>> /\ GoTo(p, r)
    /\ UNCHANGED <<jobVars, payable, stranded, providerVars, queueVars, lockVars, faults>>

---------------------------------------------------------------------------
(* The queue                                                               *)

\* batchImageEnqueueScript
Enqueue(p, q) ==
    /\ IF inflight
       THEN UNCHANGED <<ready, inflight>>
       ELSE ready < MaxReady /\ ready' = ready + 1 /\ inflight' = TRUE
    /\ GoTo(p, q)
    /\ UNCHANGED <<jobVars, moneyVars, providerVars, delayed, active, lockVars, faults>>

MoveDueDelayed ==
    /\ delayed /\ ready < MaxReady
    /\ delayed' = FALSE /\ ready' = ready + 1
    /\ UNCHANGED <<jobVars, moneyVars, providerVars, active, inflight, lockVars, pc, faults>>

AllIdle == \A w \in Workers : At(w, "idle")

\* RecoverStaleActive.  A worker's heartbeat keeps its job from it.
RecoverStaleActive ==
    /\ active /\ ready < MaxReady
    /\ IF AllIdle THEN UNCHANGED faults ELSE Fault
    /\ active' = FALSE /\ ready' = ready + 1
    /\ UNCHANGED <<jobVars, moneyVars, providerVars, delayed, inflight, lockVars, pc>>


\* The lock's TTL ends: its holder died, or its heartbeat fails.
LockLapses ==
    /\ lock # NoWorker
    /\ \/ lock = "dead" /\ UNCHANGED <<overlapped, faults>>
       \/ lock # "dead" /\ Fault /\ overlapped' = TRUE
    /\ lock' = NoWorker
    /\ UNCHANGED <<jobVars, moneyVars, providerVars, queueVars, pc>>

---------------------------------------------------------------------------
(* Submit                                                                  *)

CreateJob ==
    /\ At("submit", "start")
    /\ status' = "created" /\ GoTo("submit", "reserve")
    /\ UNCHANGED <<providerJob, retries, moneyVars, providerVars, queueVars, lockVars, faults>>

\* reserveBatchImageBalanceHold; the balance may be too low.
ReserveHold ==
    /\ At("submit", "reserve")
    /\ \/ Move("hold") /\ GoTo("submit", "upload")
       \/ UNCHANGED <<claims, moved>> /\ GoTo("submit", "record")
    /\ UNCHANGED <<jobVars, payable, stranded, providerVars, queueVars, lockVars, faults>>

\* A job that was cancelled meanwhile keeps its status.
StartUpload == At("submit", "upload") /\ Transition("submit", "uploading", "send", "giveback")

\* provider.Submit
ProviderSubmit ==
    /\ At("submit", "send")
    /\ \/ provider' = "running" /\ GoTo("submit", "save")
       \/ UNCHANGED provider /\ GoTo("submit", "release")
    /\ UNCHANGED <<jobVars, moneyVars, stop, queueVars, lockVars, faults>>

\* Mutant: the name is stored and the status left as it is.
SaveProviderJob_KeepsStatus ==
    /\ At("submit", "save")
    /\ IF CanTransition(status, "submitted")
       THEN providerJob' = TRUE /\ GoTo("submit", "enqueue")
       ELSE UNCHANGED providerJob /\ GoTo("submit", "abort")
    /\ UNCHANGED <<status, retries, moneyVars, providerVars, queueVars, lockVars, faults>>

\* UpdateBatchImageJobProviderSubmit
SaveProviderJob ==
    /\ At("submit", "save")
    /\ IF CanTransition(status, "submitted")
       THEN status' = "submitted" /\ providerJob' = TRUE /\ GoTo("submit", "enqueue")
       ELSE UNCHANGED <<status, providerJob>> /\ GoTo("submit", "abort")
    /\ UNCHANGED <<retries, moneyVars, providerVars, queueVars, lockVars, faults>>

\* provider.Cancel, which a job that ended ignores.
ProviderCancel(p, q) ==
    /\ stop' = TRUE /\ GoTo(p, q)
    /\ UNCHANGED <<jobVars, moneyVars, provider, queueVars, lockVars, faults>>

AbortOrphan == At("submit", "abort") /\ ProviderCancel("submit", "done")

\* releaseFailedSubmitHold; only a failed release is tried again by a worker.
SubmitRelease ==
    \/ At("submit", "giveback") /\ Release("submit", "done", "unreleased")
    \/ At("submit", "release") /\ Release("submit", "record", "unreleased")

\* RecordBatchImageJobSubmitFailure, whatever the status is by now.
RecordFailure ==
    /\ pc["submit"] \in {"record", "unreleased"}
    /\ status' = "failed"
    /\ GoTo("submit", IF At("submit", "record") THEN "done" ELSE "enqueue")
    /\ UNCHANGED <<providerJob, retries, moneyVars, providerVars, queueVars, lockVars, faults>>

SubmitEnqueue == At("submit", "enqueue") /\ Enqueue("submit", "done")

\* Where Submit goes on when the call at a position fails.
SubmitError ==
    [q \in {"reserve", "upload", "save", "abort", "giveback", "release", "record", "unreleased", "enqueue"} |->
        CASE q = "reserve" -> "record"
          [] q = "upload" -> "release"
          [] q = "save" -> "abort"
          [] q \in {"giveback", "release"} -> "unreleased"
          [] q = "unreleased" -> "enqueue"
          [] OTHER -> "done"]

Submit == CreateJob \/ ReserveHold \/ StartUpload \/ ProviderSubmit \/ SaveProviderJob
    \/ AbortOrphan \/ SubmitRelease \/ RecordFailure \/ SubmitEnqueue

---------------------------------------------------------------------------
(* The owner: Cancel, and Submit again with the same idempotency key       *)

\* Cancel reads the job and decides.
CancelReads ==
    /\ At("owner", "idle")
    /\ status \notin {"none", "settling", "completed"}
    /\ GoTo("owner", CASE Done(status) -> "release"
                       [] ~Done(status) /\ providerJob -> "abort"
                       [] OTHER -> "transition")
    /\ UNCHANGED <<jobVars, moneyVars, providerVars, queueVars, lockVars, faults>>

CancelAtProvider == At("owner", "abort") /\ ProviderCancel("owner", "enqueue")

CancelTransition == At("owner", "transition") /\ Transition("owner", "cancelled", "release", "idle")

CancelRelease == At("owner", "release") /\ Release("owner", "idle", "enqueue")

\* A replayed Submit puts a submitted job into the queue.
Resubmit ==
    /\ At("owner", "idle") /\ status = "submitted"
    /\ GoTo("owner", "enqueue")
    /\ UNCHANGED <<jobVars, moneyVars, providerVars, queueVars, lockVars, faults>>

OwnerEnqueue == At("owner", "enqueue") /\ Enqueue("owner", "idle")

OwnerError ==
    [q \in {"release", "abort", "transition", "enqueue"} |-> IF q = "release" THEN "enqueue" ELSE "idle"]

Owner == CancelReads \/ CancelAtProvider \/ CancelTransition \/ CancelRelease \/ Resubmit \/ OwnerEnqueue

---------------------------------------------------------------------------
(* Recovery of stale submissions                                           *)

\* FailStaleUnsubmittedBatchImageJob.  The heartbeat keeps a submission that is
\* under way from it, unless it fails.
FailStale ==
    /\ At("recovery", "idle")
    /\ status \in {"created", "uploading"} /\ ~providerJob
    /\ IF At("submit", "done") THEN UNCHANGED faults ELSE Fault
    /\ status' = "failed" /\ GoTo("recovery", "release")
    /\ UNCHANGED <<providerJob, retries, moneyVars, providerVars, queueVars, lockVars>>

RecoveryRelease == At("recovery", "release") /\ Release("recovery", "idle", "enqueue")

RecoveryEnqueue == At("recovery", "enqueue") /\ Enqueue("recovery", "idle")

RecoveryError ==
    [q \in {"release", "enqueue"} |-> IF q = "release" THEN "enqueue" ELSE "idle"]

Recovery == FailStale \/ RecoveryRelease \/ RecoveryEnqueue

---------------------------------------------------------------------------
(* A worker takes the job                                                  *)

Step(w, q) ==
    /\ GoTo(w, q)
    /\ UNCHANGED <<jobVars, moneyVars, providerVars, queueVars, lockVars, faults>>

\* batchImageReserveScript
Reserve(w) ==
    /\ At(w, "idle") /\ ready > 0
    /\ ready' = ready - 1 /\ active' = TRUE
    /\ GoTo(w, "lock")
    /\ UNCHANGED <<jobVars, moneyVars, providerVars, delayed, inflight, lockVars, faults>>

TryLock(w) ==
    /\ At(w, "lock")
    /\ IF lock = NoWorker
       THEN lock' = w /\ GoTo(w, "read")
       ELSE UNCHANGED lock /\ GoTo(w, "requeue")
    /\ UNCHANGED <<jobVars, moneyVars, providerVars, queueVars, overlapped, faults>>

\* Mutant: a settling job is left to the provider's processor.
Pipeline_NoSettlement(w) == At(w, "read") /\ Step(w, "process")

\* BatchImagePipelineProcessor.Process
Pipeline(w) == At(w, "read") /\ Step(w, IF status = "settling" THEN "settle" ELSE "process")

\* BatchImageProviderProcessor.Process reads the job again.
Process(w) ==
    /\ At(w, "process")
    /\ Step(w, CASE status \in {"settling", "completed"} -> "ack"
                 [] status \in {"failed", "cancelled"} -> "release"
                 [] ~Done(status) /\ ~providerJob -> "requeue"
                 [] ~Done(status) /\ providerJob /\ status = "indexing" -> "index"
                 [] OTHER -> "get")

\* provider.Get and the change of status it leads to.  A job that ended at the
\* provider stays ended, so that the answer is as good at the second call.
Get(w) ==
    /\ At(w, "get")
    /\ \/ provider = "running" /\ Step(w, "requeue")
       \/ provider = "running" /\ Transition(w, "running", "requeue", "requeue")
       \/ provider = "succeeded" /\ Transition(w, "indexing", "index", "requeue")
       \/ provider \in {"failed", "cancelled"} /\ Transition(w, provider, "release", "requeue")

\* Index: results that cannot be read fail the job; the items are replaced only
\* while it is indexing.
Index(w) ==
    /\ At(w, "index")
    /\ \/ Step(w, IF status = "indexing" THEN "indexed" ELSE "requeue")
       \/ Step(w, "unindexed")

Indexed(w) == At(w, "indexed") /\ Transition(w, "settling", "requeue", "requeue")

Unindexed(w) == At(w, "unindexed") /\ Transition(w, "failed", "release", "requeue")

\* releaseTerminalHold
ReleaseTerminal(w) == At(w, "release") /\ Release(w, "ack", "requeue")

---------------------------------------------------------------------------
(* Settlement                                                              *)

\* Settle reads the job, and gives up before it checks the results and the price.
\* The keys of the job, which it looks at first, are set by Submit.
Settle(w) ==
    /\ At(w, "settle")
    /\ Step(w, CASE status = "completed" -> "ack"
                 [] status \notin {"completed", "settling"} -> "requeue"
                 [] status = "settling" /\ retries >= MaxRetries -> "exhaust"
                 [] OTHER -> IF payable THEN "capture" ELSE "count")

\* Mutant: an answer without a result is taken for success.
Capture_Unchecked(w) ==
    /\ At(w, "capture")
    /\ \/ "capture" \notin claims /\ Frozen > 0 /\ Move("capture")
       \/ UNCHANGED <<claims, moved>>
    /\ GoTo(w, "mark")
    /\ UNCHANGED <<jobVars, payable, stranded, providerVars, queueVars, lockVars, faults>>

\* CaptureBatchImageBalance.  A second capture finds the claim; after an overlap it
\* may be of other results, whose fingerprint is refused.
Capture(w) ==
    /\ At(w, "capture")
    /\ IF "capture" \notin claims /\ Frozen > 0 THEN Move("capture") ELSE UNCHANGED <<claims, moved>>
    /\ \/ ("capture" \in claims \/ Frozen > 0) /\ GoTo(w, "mark")
       \/ (IF "capture" \in claims THEN overlapped ELSE Frozen <= 0) /\ GoTo(w, "count")
    /\ UNCHANGED <<jobVars, payable, stranded, providerVars, queueVars, lockVars, faults>>

\* MarkBatchImageJobSettled
MarkSettled(w) ==
    /\ At(w, "mark")
    /\ IF status = "settling"
       THEN status' = "completed" /\ GoTo(w, "ack")
       ELSE UNCHANGED status /\ GoTo(w, "requeue")
    /\ UNCHANGED <<providerJob, retries, moneyVars, providerVars, queueVars, lockVars, faults>>

\* Where Settle's error leads: only a failed capture is a billing failure.
AfterFailure == IF payable THEN "check" ELSE "requeue"

\* recordSettlementFailure
CountFailure(w) ==
    LET n == IF retries < MaxRetries THEN retries + 1 ELSE retries IN
    /\ At(w, "count")
    /\ retries' = n
    /\ GoTo(w, IF n = MaxRetries THEN "exhaust" ELSE AfterFailure)
    /\ UNCHANGED <<status, providerJob, moneyVars, providerVars, queueVars, lockVars, faults>>

\* failExhaustedSettlement: the release first, and then the status.
Exhaust(w) == At(w, "exhaust") /\ Release(w, "fail", "check")

FailExhausted(w) == At(w, "fail") /\ Transition(w, "failed", "ack", "requeue")

\* A billing failure: the pipeline looks whether the job is over.
Check(w) == At(w, "check") /\ Step(w, IF Terminal(status) THEN "ack" ELSE "requeue")

---------------------------------------------------------------------------
(* A worker lets the job go                                                *)

Ack(w) ==
    /\ At(w, "ack")
    /\ active' = FALSE /\ delayed' = FALSE /\ inflight' = FALSE
    /\ GoTo(w, "unlock")
    /\ UNCHANGED <<jobVars, moneyVars, providerVars, ready, lockVars, faults>>

RequeueAfter(w) ==
    /\ At(w, "requeue")
    /\ active' = FALSE /\ delayed' = TRUE
    /\ GoTo(w, "unlock")
    /\ UNCHANGED <<jobVars, moneyVars, providerVars, ready, inflight, lockVars, faults>>

\* The lock is deleted by its token only.
Unlock(w) ==
    /\ At(w, "unlock")
    /\ lock' = IF lock = w THEN NoWorker ELSE lock
    /\ GoTo(w, "idle")
    /\ UNCHANGED <<jobVars, moneyVars, providerVars, queueVars, overlapped, faults>>

\* Where a worker goes on when the call at a position fails.
WorkerError ==
    [q \in {"lock", "read", "process", "get", "index", "indexed", "unindexed", "release", "settle",
            "capture", "mark", "count", "exhaust", "fail", "check", "ack", "requeue"} |->
        CASE q = "capture" -> "count"
          [] q = "count" -> AfterFailure
          [] q = "exhaust" -> "check"
          [] q \in {"ack", "requeue"} -> "unlock"
          [] OTHER -> "requeue"]

Work(w) == Reserve(w) \/ TryLock(w) \/ Pipeline(w) \/ Process(w) \/ Get(w) \/ Index(w)
    \/ Indexed(w) \/ Unindexed(w) \/ ReleaseTerminal(w) \/ Settle(w) \/ Capture(w)
    \/ MarkSettled(w) \/ CountFailure(w) \/ Exhaust(w) \/ FailExhausted(w) \/ Check(w)
    \/ Ack(w) \/ RequeueAfter(w) \/ Unlock(w)

---------------------------------------------------------------------------
(* The provider and the faults                                             *)

\* The provider's job ends; cancelled only if it was asked to.
ProviderEnds ==
    /\ provider = "running"
    /\ provider' \in {"succeeded", "failed"} \cup (IF stop THEN {"cancelled"} ELSE {})
    /\ UNCHANGED <<jobVars, moneyVars, stop, queueVars, lockVars, pc, faults>>

ErrorOf(p) ==
    CASE p = "submit" -> SubmitError
      [] p = "owner" -> OwnerError
      [] p = "recovery" -> RecoveryError
      [] OTHER -> WorkerError

\* A request or the recovery that goes no further leaves the job to nobody: it is
\* past what the recovery of stale submissions looks for, and not in the queue.
Strands(p) ==
    /\ p \notin Workers /\ pc[p] \in {"release", "enqueue"}
    /\ status \notin {"created", "uploading"} /\ ~inflight

\* A database, Redis or provider call fails without effect.
CallFails(p) ==
    /\ pc[p] \in DOMAIN ErrorOf(p)
    /\ Fault
    /\ GoTo(p, ErrorOf(p)[pc[p]])
    /\ stranded' = (stranded \/ (At(p, "enqueue") /\ Strands(p)))
    /\ UNCHANGED <<jobVars, claims, moved, payable, providerVars, queueVars, lockVars>>

\* The process dies; nobody renews its lock any more.
Crash(p) ==
    /\ pc[p] \notin {"idle", "start", "done"}
    /\ Fault
    /\ GoTo(p, IF p = "submit" THEN "done" ELSE "idle")
    /\ lock' = IF lock = p THEN "dead" ELSE lock
    /\ stranded' = (stranded \/ Strands(p))
    /\ UNCHANGED <<jobVars, claims, moved, payable, providerVars, queueVars, overlapped>>

---------------------------------------------------------------------------

Next ==
    \/ Submit \/ Owner \/ Recovery
    \/ \E w \in Workers : Work(w)
    \/ MoveDueDelayed \/ RecoverStaleActive \/ LockLapses \/ ProviderEnds
    \/ \E p \in Procs : CallFails(p) \/ Crash(p)

Spec == Init /\ [][Next]_vars

\* Processes that did not crash go on, the loops of the mover and of the two
\* recoveries come round, TTLs end, and the provider finishes what it accepted.  The
\* owner's requests are served to their end; that there is another is not assumed.
Fairness ==
    /\ WF_vars(Submit) /\ WF_vars(Owner /\ ~At("owner", "idle"))
    /\ WF_vars(Recovery /\ UNCHANGED faults)
    /\ \A w \in Workers : WF_vars(Work(w))
    /\ WF_vars(MoveDueDelayed) /\ WF_vars(ProviderEnds)
    /\ WF_vars(RecoverStaleActive /\ UNCHANGED faults)
    /\ WF_vars(LockLapses /\ UNCHANGED faults)

FairSpec == Spec /\ Fairness

---------------------------------------------------------------------------
(* Properties                                                              *)

\* Nobody is given money that was never held, and nobody is charged for it.
NoPhantomRelease == moved # {} => "hold" \in moved

\* A hold is captured or returned, not both, whatever cancellation, recovery,
\* crash or failed call comes in between; except where a worker lost its lock
\* while it worked, or the settlement gave up after it had captured.
HoldSettledOnce ==
    {"capture", "release"} \subseteq moved => overlapped \/ retries = MaxRetries

\* A completed job was paid for, also with two workers at work on it.
CompletedIsCharged == status = "completed" => "capture" \in moved

\* A job whose results are outstanding or unpaid is somewhere in the queue, and
\* is not put into it twice.  A job that is only submitted may not be: Submit stores
\* the provider's job before it enqueues.
UnfinishedStaysQueued ==
    status \in {"running", "indexing", "settling"} /\ ~overlapped =>
        inflight /\ (ready > 0 \/ delayed \/ active)


\* The comments of ReleaseStaleUnsubmittedOnce: once it has failed a job, the release
\* must go on and a failed one must be tried again, "or the frozen balance leaks for
\* ever".
RecoveredHoldReturns ==
    (At("recovery", "release") /\ "hold" \in moved) ~> ("release" \in claims \/ overlapped)

\* Where the release of a hold is taken as done, the money is back.
ReleaseReturns ==
    {"hold", "release"} \subseteq claims => {"capture", "release"} \cap moved # {}
=============================================================================
