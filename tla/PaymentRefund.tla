--------------------------- MODULE PaymentRefund ---------------------------
(***************************************************************************)
(* Refunds of a delivered payment order (service/payment_refund.go).       *)
(*                                                                         *)
(* Several administrators may refund or finalize the same order at the     *)
(* same time; each request is a worker, and one action is one statement or *)
(* one call of the provider.  Statements name one order, so one order is   *)
(* modelled.  Fulfillment (PaymentFulfillment) no longer writes the status *)
(* of an order that is COMPLETED.                                          *)
(*                                                                         *)
(* An amount is deducted or not: deducted counts how often the purchase,   *)
(* balance or subscription days, was taken back from the user, minus how   *)
(* often it was given back.  REFUNDED also stands for PARTIALLY_REFUNDED.  *)
(***************************************************************************)
EXTENDS Integers

CONSTANTS
    Workers,   \* concurrent requests of administrators
    MaxFaults, \* bound on crashes and failed statements
    MaxNet     \* bound on the net deductions, either way, at which a request starts

ASSUME RefundAssumption == MaxFaults \in Nat /\ MaxNet \in Nat

VARIABLES
    query,       \* the provider implements RefundQueryProvider
    sub,         \* the order bought a subscription, else balance
    status,      \* payment_orders.status
    deducted,    \* net number of deductions from the user
    revoked,     \* the subscription was revoked because too few days were left
    failedRow,   \* the audit row REFUND_ROLLBACK_FAILED exists
    pendingRow,  \* the audit row REFUND_PENDING: "none", or its deductionRollbackOK
    successRow,  \* the audit row REFUND_SUCCESS exists
    refund,      \* the refund at the provider
    pc, was, take, asked, clean,  \* the workers: position, p.Order.Status, an amount
                                  \* to deduct, the amount first planned, rollbackOK
    settled,     \* history: the refund that succeeded was to deduct
    lost,        \* history: a failure went unnoticed: an audit row neither written nor
                 \* read, or a change of the balance reported as failed that was made
    blurred,     \* history, where refunds can be queried: a finalization met another
                 \* one or a refund that was prepared, died after its deduction, or
                 \* took a deduction for undone that the log says was not
    faults

order == <<query, sub>>
rows == <<failedRow, pendingRow, successRow>>
request == <<pc, was, take, asked, clean>>
history == <<settled, lost, blurred>>
vars == <<order, status, deducted, revoked, rows, refund, request, history, faults>>

\* The statuses PrepareRefund and ExecuteRefund accept.
Refundable == {"COMPLETED", "REFUND_REQUESTED", "REFUND_PENDING", "REFUND_FAILED"}

\* Positions of ExecuteRefund once it has won the order, up to its last UPDATE.
Executing == {"check", "deduct", "gateway", "undoFailed", "undoPending",
              "markPending", "markFailed", "restore", "markOk"}

\* Positions of QueryAndFinalizeRefund before it writes the order.
Finalizing == {"detail", "query", "finalCheck", "finalDeduct", "finalOk", "finalFailed"}

\* Every variable has its type.
RefundTypeOK ==
    /\ query \in BOOLEAN /\ sub \in BOOLEAN /\ revoked \in BOOLEAN
    /\ status \in Refundable \cup {"REFUNDING", "REFUNDED"}
    /\ deducted \in Int
    /\ failedRow \in BOOLEAN /\ successRow \in BOOLEAN
    /\ pendingRow \in {"none", "ok", "failed"}
    /\ refund \in {"none", "pending", "done", "refused"}
    /\ pc \in [Workers -> {"idle", "lock", "auditPending", "auditOk"} \cup Executing \cup Finalizing]
    /\ was \in [Workers -> Refundable \cup {"none"}]
    /\ take \in [Workers -> BOOLEAN] /\ asked \in [Workers -> BOOLEAN]
    /\ clean \in [Workers -> BOOLEAN]
    /\ settled \in BOOLEAN /\ lost \in BOOLEAN /\ blurred \in BOOLEAN
    /\ faults \in 0..MaxFaults

Init ==
    /\ query \in BOOLEAN /\ sub \in BOOLEAN
    /\ status = "COMPLETED"
    /\ deducted = 0 /\ revoked = FALSE
    /\ failedRow = FALSE /\ pendingRow = "none" /\ successRow = FALSE
    /\ refund = "none"
    /\ pc = [w \in Workers |-> "idle"]
    /\ was = [w \in Workers |-> "none"]
    /\ take = [w \in Workers |-> FALSE]
    /\ asked = [w \in Workers |-> FALSE]
    /\ clean = [w \in Workers |-> FALSE]
    /\ settled = FALSE /\ lost = FALSE /\ blurred = FALSE
    /\ faults = 0

Fault ==
    /\ faults < MaxFaults
    /\ faults' = faults + 1

GoTo(w, p) == pc' = [pc EXCEPT ![w] = p]

\* The request is answered.
Return(w) ==
    /\ GoTo(w, "idle")
    /\ was' = [was EXCEPT ![w] = "none"]
    /\ take' = [take EXCEPT ![w] = FALSE]
    /\ asked' = [asked EXCEPT ![w] = FALSE]
    /\ clean' = [clean EXCEPT ![w] = FALSE]

-----------------------------------------------------------------------------
(* Request and plan. *)

\* RequestRefund, by the user, of a balance order.
RequestRefund ==
    /\ status = "COMPLETED" /\ ~sub
    /\ status' = "REFUND_REQUESTED"
    /\ UNCHANGED <<order, deducted, revoked, rows, refund, request, history, faults>>

\* PrepareRefund and prepDeduct: the order is read, and the plan has an amount to
\* deduct if that is asked for and there is one.  A subscription may be found in
\* the cache although it was revoked.
PrepareRefund(w) ==
    /\ pc[w] = "idle" /\ status \in Refundable
    /\ deducted \in -MaxNet..MaxNet
    /\ GoTo(w, "lock")
    /\ was' = [was EXCEPT ![w] = status]
    /\ \E amount \in BOOLEAN :
        /\ take' = [take EXCEPT ![w] = amount]
        /\ asked' = [asked EXCEPT ![w] = amount]
    /\ blurred' = (blurred \/ \E v \in Workers : pc[v] \in Finalizing)
    /\ UNCHANGED <<order, status, deducted, revoked, rows, refund, clean, settled, lost, faults>>

-----------------------------------------------------------------------------
(* ExecuteRefund. *)

\* Mutant: a refund in progress does not keep others out.
Lockable_Refunding == status \in Refundable \cup {"REFUNDING"}

\* Mutant: the UPDATE asks for the id alone.
Lockable_ById == status # "none"

\* The WHERE clause of the UPDATE to REFUNDING.
Lockable == status \in Refundable

\* ExecuteRefund wins the order, or reports that its status changed.
LockOrder(w) ==
    /\ pc[w] = "lock"
    /\ \/ /\ Lockable
          /\ status' = "REFUNDING"
          /\ GoTo(w, IF take[w] THEN "check" ELSE "gateway")
          /\ UNCHANGED <<was, take, asked, clean>>
       \/ /\ ~Lockable
          /\ Return(w)
          /\ UNCHANGED status
    /\ UNCHANGED <<order, deducted, revoked, rows, refund, history, faults>>

\* Mutant: the audit row is not looked for.
AlreadyDeducted_Never == failedRow /\ ~failedRow

\* hasAuditLog(REFUND_ROLLBACK_FAILED): an earlier deduction was not undone.
AlreadyDeducted == failedRow

\* The deduction is skipped if an earlier one was not undone.  A failed count
\* reads as "no such row".
CheckRow(w) ==
    /\ pc[w] = "check"
    /\ \/ /\ AlreadyDeducted
          /\ take' = [take EXCEPT ![w] = FALSE]
          /\ GoTo(w, "gateway")
          /\ UNCHANGED <<lost, faults>>
       \/ /\ ~AlreadyDeducted
          /\ GoTo(w, "deduct")
          /\ UNCHANGED <<take, lost, faults>>
       \/ /\ Fault
          /\ GoTo(w, "deduct")
          /\ lost' = (lost \/ failedRow)
          /\ UNCHANGED take
    /\ UNCHANGED <<order, status, deducted, revoked, rows, refund, was, asked, clean, settled, blurred>>

\* Mutant: nothing is deducted.
TakeBack_Not == UNCHANGED deducted /\ revoked' \in {FALSE, sub}

\* mutateRefundBalance, or ExtendSubscription by a negative number of days; a
\* subscription without enough days left is revoked.
TakeBack ==
    /\ deducted' = deducted + 1
    /\ revoked' \in {FALSE, sub}

\* The deduction.  A subscription revoked meanwhile is not found.
Deduct(w) ==
    /\ pc[w] = "deduct"
    /\ \/ ~revoked /\ TakeBack /\ GoTo(w, "gateway")
       \/ revoked /\ UNCHANGED <<deducted, revoked>> /\ GoTo(w, "restore")
    /\ UNCHANGED <<order, status, rows, refund, was, take, asked, clean, history, faults>>

\* The deduction reports an error.  It may have been made all the same: the answer
\* to the commit is lost, or the days of a subscription are stored and the read or
\* the invalidation of a cache after that fails.
DeductFails(w) ==
    /\ pc[w] = "deduct"
    /\ Fault
    /\ GoTo(w, "restore")
    /\ \/ UNCHANGED <<deducted, revoked, lost>>
       \/ ~revoked /\ TakeBack /\ lost' = TRUE
    /\ UNCHANGED <<order, status, rows, refund, was, take, asked, clean, settled, blurred>>

\* gwRefund: the provider refunds (or the order has no trade number and the call
\* is skipped), answers "pending", or there is an error, before or after the
\* provider has acted.
GatewayRefund(w) ==
    /\ pc[w] = "gateway"
    /\ \/ refund' \in {"done", refund} /\ GoTo(w, "markOk")
       \/ refund' = (IF refund = "done" THEN "done" ELSE "pending") /\ GoTo(w, "undoPending")
       \/ refund' \in {"done", refund} /\ GoTo(w, "undoFailed")
    /\ UNCHANGED <<order, status, deducted, revoked, rows, was, take, asked, clean, history, faults>>

\* What follows RollbackRefund in handleGwFail and in markRefundPending.
AfterRollback(w, ok) ==
    /\ clean' = [clean EXCEPT ![w] = ok]
    /\ GoTo(w, CASE pc[w] = "undoPending" -> "markPending"
                 [] pc[w] = "undoFailed" -> IF ok THEN "restore" ELSE "markFailed")

\* Mutant: the amount is not given back.
GiveBack_Not == UNCHANGED deducted

\* mutateRefundBalance, or ExtendSubscription, by the amount that was deducted.
GiveBack == deducted' = deducted - 1

\* RollbackRefund: the deduction of this plan, if any, is undone; the days of a
\* revoked subscription cannot be, which the audit row records.
RollbackRefund(w) ==
    /\ pc[w] \in {"undoFailed", "undoPending"}
    /\ \/ ~take[w] /\ AfterRollback(w, TRUE) /\ UNCHANGED <<deducted, failedRow>>
       \/ take[w] /\ ~revoked /\ GiveBack /\ AfterRollback(w, TRUE)
          /\ UNCHANGED failedRow
       \/ take[w] /\ revoked /\ failedRow' = TRUE /\ AfterRollback(w, FALSE)
          /\ UNCHANGED deducted
    /\ UNCHANGED <<order, status, revoked, pendingRow, successRow, refund, was, take, asked,
                   history, faults>>

\* Undoing reports an error, though it may have been done, as in DeductFails; the
\* audit row is written, or that fails too and is only logged.
RollbackFails(w) ==
    /\ pc[w] \in {"undoFailed", "undoPending"} /\ take[w]
    /\ Fault
    /\ AfterRollback(w, FALSE)
    /\ failedRow' \in {TRUE, failedRow}
    /\ \/ UNCHANGED deducted /\ lost' = (lost \/ ~failedRow')
       \/ ~revoked /\ GiveBack /\ lost' = TRUE
    /\ UNCHANGED <<order, status, revoked, pendingRow, successRow, refund, was, take, asked,
                   settled, blurred>>

\* The status restoreStatus goes back to.
RestoredStatus(s) == IF s = "REFUND_REQUESTED" THEN s ELSE "COMPLETED"

\* restoreStatus: an UPDATE by id.
RestoreStatus(w) ==
    /\ pc[w] = "restore"
    /\ status' = RestoredStatus(was[w])
    /\ Return(w)
    /\ UNCHANGED <<order, deducted, revoked, rows, refund, history, faults>>

\* handleGwFail after a failed rollback, and finalizeRefundFailed: by id.
MarkRefundFailed(w) ==
    /\ pc[w] \in {"markFailed", "finalFailed"}
    /\ status' = "REFUND_FAILED"
    /\ Return(w)
    /\ UNCHANGED <<order, deducted, revoked, rows, refund, history, faults>>

\* The status markRefundPending stores.
PendingStatus == "REFUND_PENDING"

\* markRefundPending: the UPDATE by id.
MarkRefundPending(w) ==
    /\ pc[w] = "markPending"
    /\ status' = PendingStatus
    /\ GoTo(w, "auditPending")
    /\ UNCHANGED <<order, deducted, revoked, rows, refund, was, take, asked, clean, history, faults>>

\* markRefundPending: the audit row.  (order_id, action) is unique, so the row
\* of an earlier attempt stays and the error is only logged.
AuditPending(w) ==
    /\ pc[w] = "auditPending"
    /\ pendingRow' = IF pendingRow # "none" THEN pendingRow
                     ELSE IF clean[w] THEN "ok" ELSE "failed"
    /\ Return(w)
    /\ UNCHANGED <<order, status, deducted, revoked, failedRow, successRow, refund, history, faults>>

\* markRefundOk: the UPDATE by id.
MarkRefundOk(w) ==
    /\ pc[w] \in {"markOk", "finalOk"}
    /\ status' = "REFUNDED"
    /\ settled' = asked[w]
    /\ GoTo(w, "auditOk")
    /\ UNCHANGED <<order, deducted, revoked, rows, refund, was, take, asked, clean, lost, blurred, faults>>

\* markRefundOk: the audit row.
AuditOk(w) ==
    /\ pc[w] = "auditOk"
    /\ successRow' = TRUE
    /\ Return(w)
    /\ UNCHANGED <<order, status, deducted, revoked, failedRow, pendingRow, refund, history, faults>>

-----------------------------------------------------------------------------
(* QueryAndFinalizeRefund. *)

\* The order is read and is REFUND_PENDING.
QueryAndFinalize(w) ==
    /\ query
    /\ pc[w] = "idle" /\ status = "REFUND_PENDING"
    /\ deducted \in -MaxNet..MaxNet
    /\ GoTo(w, "detail")
    /\ blurred' = (blurred \/ \E v \in Workers : pc[v] \in {"lock"} \cup Finalizing)
    /\ UNCHANGED <<order, status, deducted, revoked, rows, refund, was, take, asked, clean,
                   settled, lost, faults>>

\* latestRefundPendingDetail: without a row, or if it cannot be read, the rollback
\* counts as done.
ReadDetail(w) ==
    /\ pc[w] = "detail"
    /\ \/ clean' = [clean EXCEPT ![w] = pendingRow # "failed"] /\ UNCHANGED faults
       \/ clean' = [clean EXCEPT ![w] = TRUE] /\ Fault
    /\ blurred' = (blurred \/ (failedRow /\ clean'[w]))
    /\ GoTo(w, "query")
    /\ UNCHANGED <<order, status, deducted, revoked, rows, refund, was, take, asked, settled, lost>>

\* The amount refundFinalizePlan and prepDeduct leave to deduct.
FinalAmount(w) == clean[w] /\ (~sub \/ ~revoked)

\* QueryRefund at the provider decides.
QueryRefund(w) ==
    /\ pc[w] = "query"
    /\ \/ /\ refund = "done"
          /\ take' = [take EXCEPT ![w] = FinalAmount(w)]
          /\ asked' = [asked EXCEPT ![w] = FinalAmount(w)]
          /\ GoTo(w, "finalCheck")
          /\ UNCHANGED <<was, clean>>
       \/ refund = "refused" /\ GoTo(w, "finalFailed") /\ UNCHANGED <<was, take, asked, clean>>
       \/ refund \in {"none", "pending"} /\ Return(w)
    /\ UNCHANGED <<order, status, deducted, revoked, rows, refund, history, faults>>

\* applyRefundFinalDeduction: nothing is deducted after a REFUND_SUCCESS row.
FinalCheck(w) ==
    /\ pc[w] = "finalCheck"
    /\ \/ GoTo(w, IF take[w] /\ ~successRow THEN "finalDeduct" ELSE "finalOk")
          /\ UNCHANGED <<lost, faults>>
       \/ /\ Fault /\ lost' = (lost \/ successRow)
          /\ GoTo(w, IF take[w] THEN "finalDeduct" ELSE "finalOk")
    /\ UNCHANGED <<order, status, deducted, revoked, rows, refund, was, take, asked, clean, settled, blurred>>

\* applyRefundFinalDeduction: the deduction, or an error.
FinalDeduct(w) ==
    /\ pc[w] = "finalDeduct"
    /\ \/ ~revoked /\ TakeBack /\ GoTo(w, "finalOk") /\ UNCHANGED <<was, take, asked, clean>>
       \/ revoked /\ UNCHANGED <<deducted, revoked>> /\ Return(w)
    /\ UNCHANGED <<order, status, rows, refund, history, faults>>

-----------------------------------------------------------------------------

\* The provider decides on a pending refund (external).
ProviderSettles ==
    /\ refund = "pending"
    /\ refund' \in {"done", "refused"}
    /\ UNCHANGED <<order, status, deducted, revoked, rows, request, history, faults>>

\* The process dies, the request's context is cancelled, or a statement fails
\* after which nothing more is written.
Crash(w) ==
    /\ pc[w] # "idle"
    /\ Fault
    /\ Return(w)
    /\ blurred' = (blurred \/ pc[w] = "finalOk")
    /\ UNCHANGED <<order, status, deducted, revoked, rows, refund, settled, lost>>

Next ==
    \/ RequestRefund \/ ProviderSettles
    \/ \E w \in Workers :
          \/ PrepareRefund(w) \/ LockOrder(w) \/ CheckRow(w) \/ Deduct(w) \/ DeductFails(w)
          \/ GatewayRefund(w) \/ RollbackRefund(w) \/ RollbackFails(w) \/ RestoreStatus(w)
          \/ MarkRefundFailed(w) \/ MarkRefundPending(w) \/ AuditPending(w)
          \/ MarkRefundOk(w) \/ AuditOk(w)
          \/ QueryAndFinalize(w) \/ ReadDetail(w) \/ QueryRefund(w) \/ FinalCheck(w)
          \/ FinalDeduct(w) \/ Crash(w)

Spec == Init /\ [][Next]_vars

-----------------------------------------------------------------------------
(* Properties. *)

\* One ExecuteRefund works on an order at a time: the UPDATE to REFUNDING is a
\* lock that even a crash does not open.  Only a finalization that meets it does,
\* which writes the order by id.
OneRefundAtATime ==
    ~blurred => \A v, w \in Workers : pc[v] \in Executing /\ pc[w] \in Executing => v = w

\* However often a refund is retried after gateway errors, pending answers, crashes
\* and failed rollbacks, the user is charged for it at most once (ExecuteRefund,
\* RollbackRefund, applyRefundFinalDeduction).
DeductedOnce == ~lost /\ ~blurred => deducted \in {0, 1}

\* A refund that was not carried out keeps nothing from the user: outside
\* REFUNDING and REFUNDED, and while nobody is about to write REFUNDED, a deduction
\* is left only where the audit log says that it could not be undone (handleGwFail,
\* markRefundPending).
NothingKept ==
    /\ ~lost /\ ~blurred
    /\ status \in Refundable /\ deducted # 0 /\ \A w \in Workers : pc[w] # "finalOk"
    => failedRow

\* When the refund has succeeded, what was to be deducted is deducted, by this
\* attempt, by its finalization, or by an earlier one that could not be undone
\* (markRefundOk).
RefundIsSettled == ~lost /\ ~blurred /\ status = "REFUNDED" /\ settled => deducted = 1

\* A refunded order is not refunded again or given back (every UPDATE by id).
RefundedStays == [][~blurred /\ status = "REFUNDED" => status' = "REFUNDED"]_vars

\* The comment in ExecuteRefund: "Skip balance deduction on retry if previous
\* attempt already deducted but failed to roll back".
RollbackFailureSkips == [][failedRow /\ ~lost' /\ ~blurred => deducted' <= deducted]_vars

\* The comment of mutateRefundBalance: "The order remains in a refund status
\* while this runs".
DeductedInRefundStatus == [][~blurred /\ deducted' # deducted => status # "COMPLETED"]_vars

-----------------------------------------------------------------------------
(* The invariant the proof rests on. *)

\* The order is locked by whoever executes, and as good as locked by whoever
\* finalizes: everybody else is idle or about to write an audit row.
LockInv ==
    /\ \A w \in Workers : pc[w] \in Executing => status = "REFUNDING"
    /\ \A w \in Workers : pc[w] \in Finalizing => status = "REFUND_PENDING" /\ query
    /\ \A v, w \in Workers : pc[v] \in Executing /\ pc[w] \in Executing => v = w
    /\ \A v, w \in Workers :
        pc[v] \in Finalizing /\ pc[w] \in {"lock"} \cup Finalizing => v = w
    /\ \A w \in Workers : pc[w] = "auditOk" => status = "REFUNDED"
    /\ successRow => status = "REFUNDED"

\* A deduction is under way, final, or on record as not undone.
DeductionInv ==
    /\ deducted \in {0, 1} /\ (revoked => sub)
    /\ failedRow => deducted = 1
    /\ deducted = 1 /\ ~failedRow =>
        status \in {"REFUNDING", "REFUNDED"} \/ \E w \in Workers : pc[w] = "finalOk"
    /\ status = "REFUNDED" /\ settled => deducted = 1

\* What the position of a worker says of the deduction; what a finalization is to
\* deduct is not deducted yet, and can be.
PlanOf(w) ==
    /\ pc[w] = "lock" => take[w] = asked[w]
    /\ pc[w] \in {"check", "deduct"} => take[w]
    /\ pc[w] = "check" => deducted = 0 \/ failedRow
    /\ pc[w] = "deduct" => deducted = 0
    /\ pc[w] \in {"gateway", "undoFailed", "undoPending", "markOk"} =>
        /\ take[w] => deducted = 1 /\ ~failedRow
        /\ ~take[w] => (deducted = 1 => failedRow)
        /\ asked[w] => take[w] \/ failedRow
    /\ pc[w] \in {"markPending", "markFailed", "restore"} => (deducted = 1 => failedRow)
    /\ pc[w] = "query" /\ clean[w] => ~failedRow
    /\ pc[w] = "finalFailed" => (deducted = 1 => failedRow)
    /\ pc[w] \in {"finalCheck", "finalDeduct"} =>
        take[w] = asked[w] /\ (take[w] => deducted = 0 /\ ~revoked)
    /\ pc[w] = "finalDeduct" => take[w]
    /\ pc[w] = "finalOk" /\ asked[w] => deducted = 1

PlanInv == \A w \in Workers : PlanOf(w)

\* The inductive invariant.
RefundInv == ~blurred => LockInv /\ (~lost => DeductionInv /\ PlanInv)
=============================================================================
