------------------------ MODULE SystemOperationLock ------------------------
(***************************************************************************)
(* The global lock of update, rollback and restart                         *)
(* (service/system_operation_lock_service.go), kept in one row of          *)
(* idempotency_records: Acquire, the renewal goroutine, Release, a crash   *)
(* of the holder and the cleanup of expired rows.  A worker is one call    *)
(* of SystemHandler.PerformUpdate, Rollback or RestartService.             *)
(***************************************************************************)
EXTENDS IdempotencyRecords

CONSTANTS
    Workers,        \* concurrent calls, of any gateway instance
    RenewInterval,  \* renewInterval, in ticks
    MaxRun,         \* bound on the ticks an operation runs (systemUpdateTimeout)
    MaxFaults       \* bound on crashes, failed statements and late renewals

ASSUME LockAssumption ==
    /\ RenewInterval \in Nat \ {0} /\ RenewInterval < ProcessingTimeout
    /\ MaxRun \in Nat /\ MaxFaults \in Nat

VARIABLES
    pc,       \* position in Acquire, or "run" while the operation runs
    op,       \* operationID
    lag,      \* ticks since Acquire read the clock
    held,     \* record id
    from,     \* status the row was read with
    renewal,  \* the renewal goroutine: "off", "wait" or "sending"
    due,      \* ticks since its last attempt
    ran,      \* ticks the operation has run
    faults

callVars == <<op, held, from>>
timeVars == <<lag, due, ran>>
vars == <<row, pc, callVars, timeVars, renewal, faults>>

Positions == {"idle", "create", "get", "reclaim", "run"}
Claiming == {"create", "get", "reclaim"}

\* Every variable has its type.
LockTypeOK ==
    /\ RowType
    /\ pc \in [Workers -> Positions]
    /\ op \in [Workers -> Fingerprints \cup {NoFingerprint}]
    /\ lag \in [Workers -> 0..MaxLag]
    /\ held \in [Workers -> RowIds \cup {NoRow}]
    /\ from \in [Workers -> {"none", "processing", "succeeded", "failed_retryable"}]
    /\ renewal \in [Workers -> {"off", "wait", "sending"}]
    /\ due \in [Workers -> 0..RenewInterval]
    /\ ran \in [Workers -> 0..MaxRun]
    /\ faults \in 0..MaxFaults
    /\ \A w \in Workers : pc[w] # "idle" => op[w] \in Fingerprints

Init ==
    /\ RowInit
    /\ pc = [w \in Workers |-> "idle"]
    /\ op = [w \in Workers |-> NoFingerprint]
    /\ lag = [w \in Workers |-> 0]
    /\ held = [w \in Workers |-> NoRow]
    /\ from = [w \in Workers |-> "none"]
    /\ renewal = [w \in Workers |-> "off"]
    /\ due = [w \in Workers |-> 0]
    /\ ran = [w \in Workers |-> 0]
    /\ faults = 0

Fault ==
    /\ faults < MaxFaults
    /\ faults' = faults + 1

GoTo(w, p) == pc' = [pc EXCEPT ![w] = p]

\* Acquire succeeded: the operation and the renewal goroutine start.
Start(w) ==
    /\ GoTo(w, "run")
    /\ held' = [held EXCEPT ![w] = id']
    /\ from' = [from EXCEPT ![w] = "none"]
    /\ lag' = [lag EXCEPT ![w] = 0]
    /\ renewal' = [renewal EXCEPT ![w] = "wait"]
    /\ UNCHANGED <<op, due, ran>>

\* The call is over; a renewal statement under way, if any, is not.
Return(w, sending) ==
    /\ GoTo(w, "idle")
    /\ from' = [from EXCEPT ![w] = "none"]
    /\ lag' = [lag EXCEPT ![w] = 0]
    /\ ran' = [ran EXCEPT ![w] = 0]
    /\ renewal' = [renewal EXCEPT ![w] = IF sending THEN @ ELSE "off"]
    /\ op' = [op EXCEPT ![w] = IF sending THEN @ ELSE NoFingerprint]
    /\ held' = [held EXCEPT ![w] = IF sending THEN @ ELSE NoRow]
    /\ due' = [due EXCEPT ![w] = IF sending THEN @ ELSE 0]

\* Acquire reads the clock.
Acquire(w, f) ==
    /\ pc[w] = "idle" /\ renewal[w] = "off"
    /\ GoTo(w, "create")
    /\ op' = [op EXCEPT ![w] = f]
    /\ UNCHANGED <<row, held, from, timeVars, renewal, faults>>

\* CreateProcessing inserts the row, or finds one in the way.
CreateProcessing(w) ==
    /\ pc[w] = "create"
    /\ \/ /\ \E i \in RowIds : Insert(i, op[w], lag[w]) /\ \A v \in Workers : held[v] # i
          /\ Start(w)
       \/ /\ Present
          /\ GoTo(w, "get")
          /\ UNCHANGED <<row, callVars, timeVars, renewal>>
    /\ UNCHANGED faults

\* The check on the row that was read, n ticks after the clock was.
Busy(n) == status = "processing" /\ left > -n

\* GetByScopeAndKeyHash: the row is gone or busy (an error), or up for reclaim.
GetExisting(w) ==
    /\ pc[w] = "get"
    /\ \/ /\ ~Present \/ Busy(lag[w])
          /\ Return(w, FALSE)
       \/ /\ Present /\ ~Busy(lag[w])
          /\ GoTo(w, "reclaim")
          /\ held' = [held EXCEPT ![w] = id]
          /\ from' = [from EXCEPT ![w] = status]
          /\ UNCHANGED <<op, timeVars, renewal>>
    /\ UNCHANGED <<row, faults>>

\* TryReclaim; if another call was faster, its row is only read for the message.
TryReclaim(w) ==
    /\ pc[w] = "reclaim"
    /\ \/ /\ Reclaimable(held[w], from[w], lag[w])
          /\ Reclaim(lag[w])
          /\ Start(w)
       \/ /\ ~Reclaimable(held[w], from[w], lag[w])
          /\ Return(w, FALSE)
          /\ UNCHANGED row
    /\ UNCHANGED faults

\* renewLoop: the ticker fires.
RenewTick(w) ==
    /\ renewal[w] = "wait" /\ due[w] = RenewInterval
    /\ renewal' = [renewal EXCEPT ![w] = "sending"]
    /\ UNCHANGED <<row, pc, callVars, timeVars, faults>>

\* Mutant: the loop does not look at stopCh.
AfterAttempt_NoStop(w, goOn) ==
    /\ renewal' = [renewal EXCEPT ![w] = IF goOn THEN "wait" ELSE "off"]
    /\ due' = [due EXCEPT ![w] = 0]
    /\ UNCHANGED <<pc, callVars, lag, ran>>

\* An attempt is over: the loop waits again (goOn) or ends; after Release it
\* ends in either case.
AfterAttempt(w, goOn) ==
    \/ /\ pc[w] = "run"
       /\ renewal' = [renewal EXCEPT ![w] = IF goOn THEN "wait" ELSE "off"]
       /\ due' = [due EXCEPT ![w] = 0]
       /\ UNCHANGED <<pc, callVars, lag, ran>>
    \/ /\ pc[w] = "idle"
       /\ Return(w, FALSE)

\* renewLoop: ExtendProcessingLock; no row means that ownership is lost and
\* ends the loop.
Renew(w) ==
    /\ renewal[w] = "sending"
    /\ \/ Extendable(held[w], op[w]) /\ Extend /\ AfterAttempt(w, TRUE)
       \/ ~Extendable(held[w], op[w]) /\ UNCHANGED row /\ AfterAttempt(w, FALSE)
    /\ UNCHANGED faults

\* The statement fails: the loop tries again after the next interval.
RenewFails(w) ==
    /\ renewal[w] = "sending"
    /\ Fault
    /\ AfterAttempt(w, TRUE)
    /\ UNCHANGED row

\* Release, before its statement: close(stopCh) ends a waiting loop; a statement
\* under way is not recalled.
Leave(w) ==
    /\ pc[w] = "run"
    /\ Return(w, renewal[w] = "sending")

\* The statement of Release: by id, succeeded (locked_until NULL) or failed
\* (locked_until now).
MarkReleased(i) ==
    \/ Mark(i, "succeeded", -MaxLag, Ttl)
    \/ Mark(i, "failed_retryable", 0, Ttl)

\* The operation is over and gives up the lock.
Release(w) ==
    /\ Leave(w)
    /\ MarkReleased(held[w])
    /\ UNCHANGED faults

\* The statement of Release fails; its error is dropped.
ReleaseFails(w) ==
    /\ Leave(w)
    /\ Fault
    /\ UNCHANGED row

\* The process dies, and its renewal goroutine with it.
Crash(w) ==
    /\ pc[w] # "idle"
    /\ Fault
    /\ Return(w, FALSE)
    /\ UNCHANGED row

\* IdempotencyCleanupService.
Cleanup ==
    /\ Delete
    /\ UNCHANGED <<pc, callVars, timeVars, renewal, faults>>

\* A renewal that is due has not been made.
RenewalLate(w) == renewal[w] # "off" /\ due[w] = RenewInterval

\* Time passes.  That it passes a renewal that is due counts as a fault.
Tick ==
    /\ \A w \in Workers :
        /\ pc[w] \in Claiming => lag[w] < MaxLag
        /\ pc[w] = "run" => ran[w] < MaxRun
    /\ Age
    /\ lag' = [w \in Workers |-> IF pc[w] \in Claiming THEN lag[w] + 1 ELSE lag[w]]
    /\ due' = [w \in Workers |->
                IF renewal[w] # "off" /\ due[w] < RenewInterval THEN due[w] + 1 ELSE due[w]]
    /\ ran' = [w \in Workers |-> IF pc[w] = "run" THEN ran[w] + 1 ELSE ran[w]]
    /\ IF \E w \in Workers : RenewalLate(w) THEN Fault ELSE UNCHANGED faults
    /\ UNCHANGED <<pc, callVars, renewal>>

Proceed(w) ==
    CreateProcessing(w) \/ GetExisting(w) \/ TryReclaim(w) \/ RenewTick(w) \/ Renew(w)

Next ==
    \/ \E w \in Workers :
          \/ Proceed(w) \/ Release(w)
          \/ RenewFails(w) \/ ReleaseFails(w) \/ Crash(w)
          \/ \E f \in Fingerprints : Acquire(w, f)
    \/ Cleanup
    \/ Tick

Spec == Init /\ [][Next]_vars

\* Goroutines are scheduled, operations end (systemUpdateTimeout) and time passes.
Fairness ==
    /\ \A w \in Workers : WF_vars(Proceed(w)) /\ WF_vars(Release(w) \/ ReleaseFails(w))
    /\ WF_vars(Tick)

FairSpec == Spec /\ Fairness

-----------------------------------------------------------------------------

\* ErrSystemOperationBusy, "another system operation is in progress", and the
\* comment of systemUpdateContext that a retry during an update "hits the system
\* operation lock": no two system operations run at the same time.
OneOperationAtATime ==
    \A v, w \in Workers : pc[v] = "run" /\ pc[w] = "run" => v = w

\* A lock does not outlive its holder: after a crash or a failed Release the row
\* is given up or becomes reclaimable (lease expiry in Acquire).
LockIsFreed == status = "processing" ~> status # "processing" \/ left <= 0

-----------------------------------------------------------------------------
(* The invariant the proof rests on. *)

\* Operations end before the lease does, renewed or not.
ShortOperations == MaxLag + MaxRun < ProcessingTimeout /\ MaxLag + MaxRun < Ttl

\* The running operation is alone and its lock is in force: it was taken at most
\* MaxLag ticks before the operation started.
LeaseCovers ==
    \A w \in Workers :
        pc[w] = "run" =>
            /\ status = "processing" /\ held[w] = id
            /\ left >= ProcessingTimeout - MaxLag - ran[w]
            /\ life >= Ttl - MaxLag - ran[w]
            /\ \A v \in Workers : pc[v] = "run" => v = w
=============================================================================
