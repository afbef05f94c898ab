------------------------- MODULE PaymentFulfillment -------------------------
(***************************************************************************)
(* The life of a payment order from its creation to the delivery of what   *)
(* was bought: payment_order.go (creation), payment_order_lifecycle.go      *)
(* (cancel, expire, verify, reconcile), payment_fulfillment.go              *)
(* (notification, fulfillment lease, delivery, rebate, completion, retry)  *)
(* and the part of redeem_service.go that credits the balance.             *)
(*                                                                         *)
(* Every request or background sweep that works on an order is a worker:   *)
(* a goroutine of some gateway instance.  One action is one statement that *)
(* reads or writes shared state (a conditional UPDATE, a transaction, a    *)
(* call of the payment provider); between two of them any other worker may *)
(* run, the worker may crash, and time may pass.                           *)
(*                                                                         *)
(* Time is relative: age[o] is now - updated_at of the row and ttl[o] is   *)
(* expires_at - now, both saturating, so that no absolute clock is needed. *)
(* The version of a row is the identity of its updated_at stamp, which     *)
(* every UPDATE of a payment order renews (ent UpdateDefault).             *)
(***************************************************************************)
EXTENDS Naturals, FiniteSets

CONSTANTS
    Orders,       \* payment orders that may be created
    SubOrders,    \* those of them that buy a subscription; the others buy balance
    Workers,      \* concurrent requests and sweeps
    NoOrder,      \* the order of an idle worker
    Lease,        \* paymentFulfillmentLeaseDuration, in ticks
    Grace,        \* paymentGraceMinutes, in ticks
    OrderTimeout, \* cfg.OrderTimeoutMin, in ticks
    MaxAge,       \* ages above this are not told apart
    MaxOrders,    \* bound on the orders that are created
    MaxFaults     \* bound on crashes, failed calls and stalled workers

ASSUME ConstantsAssumption ==
    /\ SubOrders \subseteq Orders
    /\ NoOrder \notin Orders
    /\ Lease \in Nat \ {0} /\ Grace \in Nat /\ OrderTimeout \in Nat
    /\ MaxAge \in Nat /\ MaxAge >= Lease /\ MaxAge > Grace
    /\ MaxOrders \in Nat /\ MaxFaults \in Nat

VARIABLES
    status,    \* payment_orders.status, "NONE" before the insert
    ver,       \* which write of the row updated_at stems from
    age,       \* now - updated_at
    ttl,       \* expires_at - now
    paidAt,    \* paid_at is set
    trade,     \* payment_trade_no holds the provider's trade number
    upstream,  \* the payment at the provider
    ack,       \* how the provider's webhook was acknowledged: see ReturnNil
    voucher,   \* the redeem code, or the SUBSCRIPTION_ASSIGNED audit row
    granted,   \* how often balance or days were given to the user
    rebated,   \* the AFFILIATE_REBATE_APPLIED / SKIPPED audit row exists
    accrued,   \* how often the inviter's rebate was settled
    mails,     \* how often the success mail was dispatched
    pc, ord, entry, lease, seen,  \* the workers: position, order, caller,
                                  \* lease.version, trade number in the snapshot
    faults     \* faults so far

rowVars == <<status, ver, age, paidAt, trade>>
deliveryVars == <<voucher, granted, rebated, accrued, mails>>
workerVars == <<pc, ord, entry, lease, seen>>
vars == <<rowVars, ttl, upstream, ack, deliveryVars, workerVars, faults>>

Statuses == {"NONE", "PENDING", "PAID", "RECHARGING", "COMPLETED", "EXPIRED",
             "CANCELLED", "FAILED", "REFUND_REQUESTED"}

\* Positions of a worker that was granted a fulfillment lease.
Delivering == {"reload", "lookup", "createCode", "redeem", "redeemTx", "assign",
               "assignTx", "rebate", "markCompleted", "completeLost", "markFailed"}

Positions == Delivering \cup
    {"idle", "invoke", "saveDetails", "createFailed", "confirm", "toPaid",
     "alreadyProcessed", "execute", "acquire", "leaseLost", "notify",
     "query", "persist", "closeUpstream", "cancelCas"}

Entries == {"none", "create", "webhook", "cancel", "expire", "verify", "retry"}

TypeOfRows ==
    /\ status \in [Orders -> Statuses]
    /\ ver \in [Orders -> Nat]
    /\ age \in [Orders -> 0..MaxAge]
    /\ ttl \in [Orders -> 0..OrderTimeout]
    /\ paidAt \in [Orders -> BOOLEAN]
    /\ trade \in [Orders -> BOOLEAN]
    /\ upstream \in [Orders -> {"absent", "made", "open", "full", "wrong", "closed"}]
    /\ voucher \in [Orders -> {"none", "unused", "used"}]
    /\ granted \in [Orders -> Nat]
    /\ rebated \in [Orders -> BOOLEAN]
    /\ accrued \in [Orders -> Nat]
    /\ mails \in [Orders -> Nat]
    /\ faults \in 0..MaxFaults

TypeOfWorkers ==
    /\ ack \in [Orders -> {"none", "ok", "late", "blind"}]
    /\ pc \in [Workers -> Positions]
    /\ ord \in [Workers -> Orders \cup {NoOrder}]
    /\ \A w \in Workers : pc[w] # "idle" => ord[w] \in Orders
    /\ entry \in [Workers -> Entries]
    /\ lease \in [Workers -> Nat]
    /\ seen \in [Workers -> BOOLEAN]

\* Every variable has its type, and a worker that is not idle has an order.
TypeOK == TypeOfRows /\ TypeOfWorkers

Init ==
    /\ status = [o \in Orders |-> "NONE"]
    /\ ver = [o \in Orders |-> 0]
    /\ age = [o \in Orders |-> 0]
    /\ ttl = [o \in Orders |-> OrderTimeout]
    /\ paidAt = [o \in Orders |-> FALSE]
    /\ trade = [o \in Orders |-> FALSE]
    /\ upstream = [o \in Orders |-> "absent"]
    /\ ack = [o \in Orders |-> "none"]
    /\ voucher = [o \in Orders |-> "none"]
    /\ granted = [o \in Orders |-> 0]
    /\ rebated = [o \in Orders |-> FALSE]
    /\ accrued = [o \in Orders |-> 0]
    /\ mails = [o \in Orders |-> 0]
    /\ pc = [w \in Workers |-> "idle"]
    /\ ord = [w \in Workers |-> NoOrder]
    /\ entry = [w \in Workers |-> "none"]
    /\ lease = [w \in Workers |-> 0]
    /\ seen = [w \in Workers |-> FALSE]
    /\ faults = 0

-----------------------------------------------------------------------------
(* Steps every handler is made of. *)

\* An UPDATE of the row of order o that leaves its status s: updated_at is now.
Write(o, s) ==
    /\ status' = [status EXCEPT ![o] = s]
    /\ ver' = [ver EXCEPT ![o] = @ + 1]
    /\ age' = [age EXCEPT ![o] = 0]

GoTo(w, p) == pc' = [pc EXCEPT ![w] = p]

\* An idle worker takes up order o on behalf of caller e.
Begin(w, o, e, p) ==
    /\ pc[w] = "idle"
    /\ GoTo(w, p)
    /\ ord' = [ord EXCEPT ![w] = o]
    /\ entry' = [entry EXCEPT ![w] = e]
    /\ seen' = [seen EXCEPT ![w] = trade[o]]
    /\ UNCHANGED lease

\* The worker answers its caller and is idle again.
Release(w) ==
    /\ GoTo(w, "idle")
    /\ ord' = [ord EXCEPT ![w] = NoOrder]
    /\ entry' = [entry EXCEPT ![w] = "none"]
    /\ lease' = [lease EXCEPT ![w] = 0]
    /\ seen' = [seen EXCEPT ![w] = FALSE]

\* HandlePaymentNotification returned nil: the webhook handler writes 2xx and
\* the provider stops redelivering.  kind is "ok" when the code takes the order
\* for processed, "late" when the payment came after the expiry grace, and
\* "blind" when the row could not be read.
ReturnNil(w, kind) ==
    /\ Release(w)
    /\ ack' = IF entry[w] = "webhook" THEN [ack EXCEPT ![ord[w]] = kind] ELSE ack

\* The worker answers without acknowledging a webhook: an error (HTTP 500, the
\* provider redelivers), or a caller other than the webhook.
Return(w) ==
    /\ Release(w)
    /\ UNCHANGED ack

Fault ==
    /\ faults < MaxFaults
    /\ faults' = faults + 1

-----------------------------------------------------------------------------
(* Order creation (payment_order.go). *)

\* createOrderInTx: the row is inserted PENDING and given its recharge code.
CreateOrder(w, o) ==
    /\ status[o] = "NONE"
    /\ Cardinality({p \in Orders : status[p] # "NONE"}) < MaxOrders
    /\ Begin(w, o, "create", "invoke")
    /\ Write(o, "PENDING")
    /\ UNCHANGED <<ttl, paidAt, trade, upstream, ack, deliveryVars, faults>>

\* invokeProvider, the provider call: the payment exists but the user has not
\* been told where to pay; or the call fails.
InvokeProvider(w) ==
    /\ pc[w] = "invoke"
    /\ \/ /\ upstream' = [upstream EXCEPT ![ord[w]] = "made"]
          /\ GoTo(w, "saveDetails")
          /\ UNCHANGED faults
       \/ /\ Fault
          /\ GoTo(w, "createFailed")
          /\ UNCHANGED upstream
    /\ UNCHANGED <<rowVars, ttl, ack, deliveryVars, ord, entry, lease, seen>>

\* invokeProvider, the UPDATE by id that stores the payment details; the user
\* gets the address to pay at.  Some providers already return their trade number.
SaveDetails(w) ==
    /\ pc[w] = "saveDetails"
    /\ LET o == ord[w] IN
       /\ Write(o, status[o])
       /\ \E known \in BOOLEAN : trade' = [trade EXCEPT ![o] = @ \/ known]
       /\ upstream' = [upstream EXCEPT ![o] = IF @ = "made" THEN "open" ELSE @]
    /\ Return(w)
    /\ UNCHANGED <<ttl, paidAt, deliveryVars, faults>>

\* That UPDATE fails: the user never sees the payment.
SaveDetailsFails(w) ==
    /\ pc[w] = "saveDetails"
    /\ Fault
    /\ upstream' = [upstream EXCEPT ![ord[w]] = "absent"]
    /\ GoTo(w, "createFailed")
    /\ UNCHANGED <<rowVars, ttl, ack, deliveryVars, ord, entry, lease, seen>>

\* CreateOrder's error path: SetStatus(FAILED) by id, whatever the status is now.
MarkCreateFailed(w) ==
    /\ pc[w] = "createFailed"
    /\ Write(ord[w], "FAILED")
    /\ Return(w)
    /\ UNCHANGED <<ttl, paidAt, trade, upstream, deliveryVars, faults>>

-----------------------------------------------------------------------------
(* The payment provider and the user (external). *)

\* The user pays: the amount of the order, or another one.
Pay(o) ==
    /\ upstream[o] = "open"
    /\ \E amount \in {"full", "wrong"} : upstream' = [upstream EXCEPT ![o] = amount]
    /\ UNCHANGED <<rowVars, ttl, ack, deliveryVars, workerVars, faults>>

\* The provider delivers its webhook, at least once, possibly again after the
\* acknowledgement.  GetWebhookProviders and the signature check come first; the
\* handler acknowledges a provider it cannot look up (except WeChat's) like a row
\* it cannot read, and ReadFailsSilently stands for both.
Webhook(w, o) ==
    /\ upstream[o] \in {"full", "wrong"}
    /\ Begin(w, o, "webhook", "confirm")
    /\ UNCHANGED <<rowVars, ttl, upstream, ack, deliveryVars, faults>>

-----------------------------------------------------------------------------
(* Notification (payment_fulfillment.go). *)

\* Mutant: the amount is not compared.
ConfirmChecks_AnyAmount(o) == upstream[o] \in {"full", "wrong"}

\* confirmPayment's checks of provider key, metadata and amount.
ConfirmChecks(o) == upstream[o] = "full"

\* confirmPayment: the checks pass, or one fails and an error is returned.
ConfirmPayment(w) ==
    /\ pc[w] = "confirm"
    /\ \/ /\ ConfirmChecks(ord[w])
          /\ GoTo(w, "toPaid")
          /\ UNCHANGED <<ack, ord, entry, lease, seen>>
       \/ /\ ~ConfirmChecks(ord[w])
          /\ Return(w)
    /\ UNCHANGED <<rowVars, ttl, upstream, deliveryVars, faults>>

\* confirmPayment and alreadyProcessed answer a failed read of the row with nil.
ReadFailsSilently(w) ==
    /\ pc[w] \in {"confirm", "alreadyProcessed"}
    /\ Fault
    /\ ReturnNil(w, "blind")
    /\ UNCHANGED <<rowVars, ttl, upstream, deliveryVars>>

\* The WHERE clause of toPaid.
PayableRow(o) ==
    \/ status[o] \in {"PENDING", "CANCELLED"}
    \/ status[o] = "EXPIRED" /\ age[o] <= Grace

\* toPaid: the conditional UPDATE to PAID.
ToPaid(w) ==
    /\ pc[w] = "toPaid"
    /\ LET o == ord[w] IN
       \/ /\ PayableRow(o)
          /\ Write(o, "PAID")
          /\ paidAt' = [paidAt EXCEPT ![o] = TRUE]
          /\ trade' = [trade EXCEPT ![o] = TRUE]
          /\ GoTo(w, "execute")
       \/ /\ ~PayableRow(o)
          /\ GoTo(w, "alreadyProcessed")
          /\ UNCHANGED rowVars
    /\ UNCHANGED <<ttl, upstream, ack, deliveryVars, ord, entry, lease, seen, faults>>

\* Mutant: an order in progress counts as processed.
ResumableStatuses_NotRecharging == {"FAILED", "PAID"}

\* The statuses alreadyProcessed hands to executeFulfillment.
ResumableStatuses == {"FAILED", "PAID", "RECHARGING"}

\* alreadyProcessed: the row is read again and decides.
AlreadyProcessed(w) ==
    /\ pc[w] = "alreadyProcessed"
    /\ LET s == status[ord[w]] IN
       \/ /\ s \in ResumableStatuses
          /\ GoTo(w, "execute")
          /\ UNCHANGED <<ack, ord, entry, lease, seen>>
       \/ s = "EXPIRED" /\ ReturnNil(w, "late")
       \/ /\ s \notin ResumableStatuses \cup {"EXPIRED"}
          /\ ReturnNil(w, "ok")
    /\ UNCHANGED <<rowVars, ttl, upstream, deliveryVars, faults>>

-----------------------------------------------------------------------------
(* The fulfillment lease. *)

\* ExecuteBalanceFulfillment / ExecuteSubscriptionFulfillment up to the lease.
ExecuteFulfillment(w) ==
    /\ pc[w] = "execute"
    /\ LET s == status[ord[w]] IN
       \/ /\ s \in {"PAID", "FAILED", "RECHARGING"}
          /\ GoTo(w, "acquire")
          /\ UNCHANGED <<ack, ord, entry, lease, seen>>
       \/ s = "COMPLETED" /\ ReturnNil(w, "ok")
       \/ s \notin {"PAID", "FAILED", "RECHARGING", "COMPLETED"} /\ Return(w)
    /\ UNCHANGED <<rowVars, ttl, upstream, deliveryVars, faults>>

\* Mutant: an abandoned RECHARGING row is never taken over.
Claimable_NoTakeover(o) == status[o] \in {"PAID", "FAILED"}

\* The WHERE clause of acquirePaymentFulfillmentLease.
Claimable(o) ==
    \/ status[o] \in {"PAID", "FAILED"}
    \/ status[o] = "RECHARGING" /\ age[o] >= Lease

\* acquirePaymentFulfillmentLease: the conditional UPDATE to RECHARGING.
AcquireLease(w) ==
    /\ pc[w] = "acquire"
    /\ LET o == ord[w] IN
       \/ /\ Claimable(o)
          /\ Write(o, "RECHARGING")
          /\ GoTo(w, "reload")
          /\ UNCHANGED <<paidAt, trade>>
       \/ /\ ~Claimable(o)
          /\ GoTo(w, "leaseLost")
          /\ UNCHANGED rowVars
    /\ UNCHANGED <<ttl, upstream, ack, deliveryVars, ord, entry, lease, seen, faults>>

\* No row was claimed: nil if the order is COMPLETED by now, else a conflict.
LeaseLost(w) ==
    /\ pc[w] = "leaseLost"
    /\ IF status[ord[w]] = "COMPLETED" THEN ReturnNil(w, "ok") ELSE Return(w)
    /\ UNCHANGED <<rowVars, ttl, upstream, deliveryVars, faults>>

\* The claimed row is read back; its updated_at becomes lease.version.
ReloadLease(w) ==
    /\ pc[w] = "reload"
    /\ LET o == ord[w] IN
       \/ /\ status[o] = "RECHARGING"
          /\ lease' = [lease EXCEPT ![w] = ver[o]]
          /\ GoTo(w, IF o \in SubOrders THEN "assign" ELSE "lookup")
          /\ UNCHANGED <<ack, ord, entry, seen>>
       \/ /\ status[o] # "RECHARGING"
          /\ Return(w)
    /\ UNCHANGED <<rowVars, ttl, upstream, deliveryVars, faults>>

-----------------------------------------------------------------------------
(* doBalance. *)

\* Mutant: a code that exists counts as redeemed.
ResolveRedeemAction_ExistsIsUsed(v) ==
    CASE v = "none" -> "createCode" [] v = "unused" -> "rebate" [] v = "used" -> "rebate"

\* resolveRedeemAction: create, redeem or skip to the rebate.
ResolveRedeemAction(v) ==
    CASE v = "none" -> "createCode" [] v = "unused" -> "redeem" [] v = "used" -> "rebate"

\* The redeem code is looked up.  A failed lookup counts as "does not exist".
LookupCode(w) ==
    /\ pc[w] = "lookup"
    /\ \/ /\ GoTo(w, ResolveRedeemAction(voucher[ord[w]]))
          /\ UNCHANGED faults
       \/ Fault /\ GoTo(w, "createCode")
    /\ UNCHANGED <<rowVars, ttl, upstream, ack, deliveryVars, ord, entry, lease, seen>>

\* CreateCode: the code column is unique.
CreateCode(w) ==
    /\ pc[w] = "createCode"
    /\ \/ /\ voucher[ord[w]] = "none"
          /\ voucher' = [voucher EXCEPT ![ord[w]] = "unused"]
          /\ GoTo(w, "redeem")
       \/ /\ voucher[ord[w]] # "none"
          /\ GoTo(w, "markFailed")
          /\ UNCHANGED voucher
    /\ UNCHANGED <<rowVars, ttl, upstream, ack, granted, rebated, accrued, mails,
                   ord, entry, lease, seen, faults>>

\* Redeem up to its transaction: the check of the code's status.  The rate limit
\* and the Redis lock, which lapses after its TTL and is skipped when Redis
\* fails, can only refuse: that is DeliveryFails.
RedeemChecks(w) ==
    /\ pc[w] = "redeem"
    /\ GoTo(w, IF voucher[ord[w]] = "unused" THEN "redeemTx" ELSE "markFailed")
    /\ UNCHANGED <<rowVars, ttl, upstream, ack, deliveryVars, ord, entry, lease, seen, faults>>

\* Mutant: Use updates by id alone.
UseMatches_ById(o) == voucher[o] # "none"

\* The WHERE clause of redeemCodeRepository.Use.
UseMatches(o) == voucher[o] = "unused"

\* Redeem's transaction: Use (WHERE status = 'unused') and UpdateBalance commit
\* together, or the code was used meanwhile and nothing happens.
RedeemTx(w) ==
    /\ pc[w] = "redeemTx"
    /\ LET o == ord[w] IN
       \/ /\ UseMatches(o)
          /\ voucher' = [voucher EXCEPT ![o] = "used"]
          /\ granted' = [granted EXCEPT ![o] = @ + 1]
          /\ GoTo(w, "rebate")
       \/ /\ ~UseMatches(o)
          /\ GoTo(w, "markFailed")
          /\ UNCHANGED <<voucher, granted>>
    /\ UNCHANGED <<rowVars, ttl, upstream, ack, rebated, accrued, mails,
                   ord, entry, lease, seen, faults>>

-----------------------------------------------------------------------------
(* doSub. *)

\* ensurePaymentSubscriptionAssigned reads the assignment audit row.
AssignChecks(w) ==
    /\ pc[w] = "assign"
    /\ GoTo(w, IF voucher[ord[w]] = "used" THEN "rebate" ELSE "assignTx")
    /\ UNCHANGED <<rowVars, ttl, upstream, ack, deliveryVars, ord, entry, lease, seen, faults>>

\* Mutant: payment_audit_logs(order_id, action) is not unique.
AuditInsertable_NotUnique(o) == voucher[o] \in {"none", "used"}

\* The insert of SUBSCRIPTION_ASSIGNED passes the unique index.
AuditInsertable(o) == voucher[o] = "none"

\* Its commit: the days and the audit row together; when a concurrent
\* transaction inserted the audit row first, the unique index makes this one
\* roll back and the order counts as assigned.
AssignTx(w) ==
    /\ pc[w] = "assignTx"
    /\ LET o == ord[w] IN
       \/ /\ AuditInsertable(o)
          /\ voucher' = [voucher EXCEPT ![o] = "used"]
          /\ granted' = [granted EXCEPT ![o] = @ + 1]
       \/ /\ ~AuditInsertable(o)
          /\ UNCHANGED <<voucher, granted>>
    /\ GoTo(w, "rebate")
    /\ UNCHANGED <<rowVars, ttl, upstream, ack, rebated, accrued, mails,
                   ord, entry, lease, seen, faults>>

-----------------------------------------------------------------------------
(* Rebate and completion. *)

\* Mutant: the claim does not look for an earlier outcome.
RebateClaimable_Always(o) == rebated[o] \in BOOLEAN

\* tryClaimAffiliateRebateAudit inserts its row.
RebateClaimable(o) == ~rebated[o]

\* applyAffiliateRebateForOrder: claim, accrual and outcome in one transaction;
\* the claim inserts nothing when an outcome row exists.
ApplyRebate(w) ==
    /\ pc[w] = "rebate"
    /\ LET o == ord[w] IN
       \/ /\ RebateClaimable(o)
          /\ rebated' = [rebated EXCEPT ![o] = TRUE]
          /\ accrued' = [accrued EXCEPT ![o] = @ + 1]
       \/ /\ ~RebateClaimable(o)
          /\ UNCHANGED <<rebated, accrued>>
    /\ GoTo(w, "markCompleted")
    /\ UNCHANGED <<rowVars, ttl, upstream, ack, voucher, granted, mails,
                   ord, entry, lease, seen, faults>>

\* Mutant: neither the lease version nor a finished order is looked at.
HoldsLease_ById(w) == status[ord[w]] \in {"RECHARGING", "COMPLETED"}

\* The WHERE clause of markCompleted and markFailed.
HoldsLease(w) == status[ord[w]] = "RECHARGING" /\ ver[ord[w]] = lease[w]

\* markCompleted: the conditional UPDATE to COMPLETED.
MarkCompleted(w) ==
    /\ pc[w] = "markCompleted"
    /\ \/ /\ HoldsLease(w)
          /\ Write(ord[w], "COMPLETED")
          /\ GoTo(w, "notify")
          /\ UNCHANGED <<paidAt, trade>>
       \/ /\ ~HoldsLease(w)
          /\ GoTo(w, "completeLost")
          /\ UNCHANGED rowVars
    /\ UNCHANGED <<ttl, upstream, ack, deliveryVars, ord, entry, lease, seen, faults>>

\* No row was completed: nil if another worker completed it, else an error,
\* which ExecuteBalanceFulfillment passes to markFailed.
CompleteLost(w) ==
    /\ pc[w] = "completeLost"
    /\ \/ status[ord[w]] = "COMPLETED" /\ ReturnNil(w, "ok")
       \/ /\ status[ord[w]] # "COMPLETED"
          /\ GoTo(w, "markFailed")
          /\ UNCHANGED <<ack, ord, entry, lease, seen>>
    /\ UNCHANGED <<rowVars, ttl, upstream, deliveryVars, faults>>

\* The rest of markCompleted: audit row and success mail.
Notify(w) ==
    /\ pc[w] = "notify"
    /\ mails' = [mails EXCEPT ![ord[w]] = @ + 1]
    /\ ReturnNil(w, "ok")
    /\ UNCHANGED <<rowVars, ttl, upstream, voucher, granted, rebated, accrued, faults>>

\* A statement of doBalance or doSub fails; the error goes to markFailed.
DeliveryFails(w) ==
    /\ pc[w] \in {"lookup", "createCode", "redeem", "redeemTx", "assign", "assignTx",
                  "rebate", "markCompleted"}
    /\ Fault
    /\ GoTo(w, "markFailed")
    /\ UNCHANGED <<rowVars, ttl, upstream, ack, deliveryVars, ord, entry, lease, seen>>

\* markFailed: the conditional UPDATE to FAILED; the error is returned.
MarkFailed(w) ==
    /\ pc[w] = "markFailed"
    /\ \/ /\ HoldsLease(w)
          /\ Write(ord[w], "FAILED")
       \/ /\ ~HoldsLease(w)
          /\ UNCHANGED <<status, ver, age>>
    /\ Return(w)
    /\ UNCHANGED <<ttl, paidAt, trade, upstream, deliveryVars, faults>>

\* Mutant: the PaidAt check is missing.
Retryable_Unpaid(o) == status[o] \in {"FAILED", "PAID", "RECHARGING"}

\* The early returns of RetryFulfillment.
Retryable(o) == paidAt[o] /\ status[o] \in {"FAILED", "PAID", "RECHARGING"}

\* RetryFulfillment: an administrator's retry of a paid order.
RetryFulfillment(w, o) ==
    /\ Retryable(o)
    /\ Begin(w, o, "retry", "execute")
    /\ UNCHANGED <<rowVars, ttl, upstream, ack, deliveryVars, faults>>

-----------------------------------------------------------------------------
(* Cancel, expire, verify, reconcile (payment_order_lifecycle.go). *)

\* CancelOrder and AdminCancelOrder.
CancelOrder(w, o) ==
    /\ status[o] = "PENDING"
    /\ Begin(w, o, "cancel", "query")
    /\ UNCHANGED <<rowVars, ttl, upstream, ack, deliveryVars, faults>>

\* ExpireTimedOutOrders picks up an overdue order.
ExpireTimedOutOrders(w, o) ==
    /\ status[o] = "PENDING" /\ ttl[o] = 0
    /\ Begin(w, o, "expire", "query")
    /\ UNCHANGED <<rowVars, ttl, upstream, ack, deliveryVars, faults>>

\* VerifyOrderByOutTradeNo; ReconcilePendingWxpayOrders does the same for
\* pending orders that are not overdue.
VerifyOrder(w, o) ==
    /\ status[o] \in {"PENDING", "EXPIRED"}
    /\ Begin(w, o, "verify", "query")
    /\ UNCHANGED <<rowVars, ttl, upstream, ack, deliveryVars, faults>>

\* checkPaidWithOptions returns "": a canceller goes on, a verifier is done.
NotPaid(w) ==
    \/ /\ entry[w] \in {"cancel", "expire"}
       /\ GoTo(w, "cancelCas")
       /\ UNCHANGED <<ack, ord, entry, lease, seen>>
    \/ entry[w] = "verify" /\ Return(w)

\* checkPaidWithOptions: QueryOrder at the provider.  Paid: the trade number is
\* stored first if the snapshot lacks it.  Unpaid: a canceller closes the payment.
QueryUpstream(w) ==
    /\ pc[w] = "query"
    /\ LET paid == upstream[ord[w]] \in {"full", "wrong"} IN
       \/ /\ paid
          /\ GoTo(w, IF seen[w] THEN "confirm" ELSE "persist")
          /\ UNCHANGED <<ack, ord, entry, lease, seen, faults>>
       \/ /\ ~paid /\ entry[w] # "verify"
          /\ GoTo(w, "closeUpstream")
          /\ UNCHANGED <<ack, ord, entry, lease, seen, faults>>
       \/ /\ ~paid /\ entry[w] = "verify"
          /\ NotPaid(w)
          /\ UNCHANGED faults
       \/ Fault /\ NotPaid(w)
    /\ UNCHANGED <<rowVars, ttl, upstream, deliveryVars>>

\* The trade number is stored by an UPDATE that asks for nothing but the id.
PersistTradeNo(w) ==
    /\ pc[w] = "persist"
    /\ Write(ord[w], status[ord[w]])
    /\ trade' = [trade EXCEPT ![ord[w]] = TRUE]
    /\ GoTo(w, "confirm")
    /\ UNCHANGED <<paidAt, ttl, upstream, ack, deliveryVars, ord, entry, lease, seen, faults>>

\* CancelPayment at the provider; its error is ignored, not every provider has it.
CloseUpstream(w) ==
    /\ pc[w] = "closeUpstream"
    /\ LET o == ord[w] IN
       \/ upstream[o] \in {"made", "open"} /\ upstream' = [upstream EXCEPT ![o] = "closed"]
       \/ UNCHANGED upstream
    /\ GoTo(w, "cancelCas")
    /\ UNCHANGED <<rowVars, ttl, ack, deliveryVars, ord, entry, lease, seen, faults>>

\* Mutant: the row is cancelled by id.
Cancellable_ById(o) == status[o] # "NONE"

\* The WHERE clause of cancelCore.
Cancellable(o) == status[o] = "PENDING"

\* Mutant: the caller's name is stored instead of the final status.
FinalStatus_Caller(e) == e

\* The status cancelCore is called with.
FinalStatus(e) == IF e = "expire" THEN "EXPIRED" ELSE "CANCELLED"

\* cancelCore: the conditional UPDATE from PENDING.
CancelCas(w) ==
    /\ pc[w] = "cancelCas"
    /\ LET o == ord[w] IN
       \/ /\ Cancellable(o)
          /\ Write(o, FinalStatus(entry[w]))
       \/ /\ ~Cancellable(o)
          /\ UNCHANGED <<status, ver, age>>
    /\ Return(w)
    /\ UNCHANGED <<ttl, paidAt, trade, upstream, deliveryVars, faults>>

-----------------------------------------------------------------------------
(* Around the handlers. *)

\* RequestRefund (payment_refund.go), the user's own step out of COMPLETED.
RequestRefund(o) ==
    /\ status[o] = "COMPLETED" /\ o \notin SubOrders
    /\ Write(o, "REFUND_REQUESTED")
    /\ UNCHANGED <<ttl, paidAt, trade, upstream, ack, deliveryVars, workerVars, faults>>

\* The process dies, or the request's context is cancelled and every further
\* statement of the worker fails.
Crash(w) ==
    /\ pc[w] # "idle"
    /\ Fault
    /\ Return(w)
    /\ UNCHANGED <<rowVars, ttl, upstream, deliveryVars>>

\* A tick would make the lease of a running worker stale.
Overruns(o) ==
    /\ status[o] = "RECHARGING" /\ age[o] + 1 = Lease
    /\ \E w \in Workers : ord[w] = o /\ pc[w] \in Delivering

\* Time passes for the rows that exist.  That a worker outlives its lease counts
\* as a fault.
Tick ==
    /\ age' = [o \in Orders |-> IF status[o] # "NONE" /\ age[o] < MaxAge THEN age[o] + 1 ELSE age[o]]
    /\ ttl' = [o \in Orders |-> IF status[o] # "NONE" /\ ttl[o] > 0 THEN ttl[o] - 1 ELSE ttl[o]]
    /\ IF \E o \in Orders : Overruns(o) THEN Fault ELSE UNCHANGED faults
    /\ UNCHANGED <<status, ver, paidAt, trade, upstream, ack, deliveryVars, workerVars>>

\* What a worker does next when nothing goes wrong.
Proceed(w) ==
    \/ InvokeProvider(w) \/ SaveDetails(w) \/ MarkCreateFailed(w)
    \/ ConfirmPayment(w) \/ ToPaid(w) \/ AlreadyProcessed(w)
    \/ ExecuteFulfillment(w) \/ AcquireLease(w) \/ LeaseLost(w) \/ ReloadLease(w)
    \/ LookupCode(w) \/ CreateCode(w) \/ RedeemChecks(w) \/ RedeemTx(w)
    \/ AssignChecks(w) \/ AssignTx(w)
    \/ ApplyRebate(w) \/ MarkCompleted(w) \/ CompleteLost(w) \/ Notify(w) \/ MarkFailed(w)
    \/ QueryUpstream(w) \/ PersistTradeNo(w) \/ CloseUpstream(w) \/ CancelCas(w)

Next ==
    \/ \E w \in Workers :
          \/ Proceed(w)
          \/ SaveDetailsFails(w) \/ ReadFailsSilently(w) \/ DeliveryFails(w) \/ Crash(w)
    \/ \E w \in Workers, o \in Orders :
          \/ CreateOrder(w, o) \/ Webhook(w, o) \/ RetryFulfillment(w, o)
          \/ CancelOrder(w, o) \/ ExpireTimedOutOrders(w, o) \/ VerifyOrder(w, o)
    \/ \E o \in Orders : Pay(o) \/ RequestRefund(o)
    \/ Tick

Spec == Init /\ [][Next]_vars

\* Requests run to an end (goroutines are scheduled), time passes, and the
\* provider redelivers a webhook until it is acknowledged.  Redelivery is
\* strongly fair because a request is always accepted: the finite set of
\* workers is the model's.
Fairness ==
    /\ \A w \in Workers : WF_vars(Proceed(w))
    /\ WF_vars(Tick)
    /\ \A o \in Orders : SF_vars(ack[o] = "none" /\ \E w \in Workers : Webhook(w, o))

FairSpec == Spec /\ Fairness

-----------------------------------------------------------------------------
(* Properties. *)

Closed == {"COMPLETED", "REFUND_REQUESTED"}

Delivered(o) == granted[o] = 1

\* Balance or subscription days are given at most once per order and the
\* inviter's rebate settled at most once, however often the webhook is
\* delivered, the lease changes hands or a worker dies between two statements.
DeliveredAtMostOnce ==
    \A o \in Orders : granted[o] <= 1 /\ accrued[o] <= 1

\* Nothing is given for an order the user has not paid in full: not by a retry,
\* not for a FAILED order whose creation failed, not under a lease taken over.
DeliveredOnlyIfPaid ==
    \A o \in Orders : granted[o] > 0 \/ accrued[o] > 0 => upstream[o] = "full"

\* COMPLETED is only written once the balance or the days and then the rebate
\* are committed, whichever workers did the parts (markCompleted, doBalance, doSub).
CompletedIsDelivered ==
    \A o \in Orders :
        /\ status[o] \in Closed => rebated[o]
        /\ rebated[o] => Delivered(o)

\* When the webhook is acknowledged because the order counts as processed
\* (alreadyProcessed, a lost lease, a finished fulfillment), the purchase is
\* delivered: the provider is never told to stop while no one has done the work.
AckedIsDelivered == \A o \in Orders : ack[o] = "ok" => Delivered(o)

\* markCompleted dispatches the success mail at most once per order.
MailedAtMostOnce == \A o \in Orders : mails[o] <= 1

\* An order is never taken back: a paid row never again becomes PENDING,
\* CANCELLED or EXPIRED under a canceller or sweep that looked at it earlier,
\* and a COMPLETED row is left for a refund only, never for FAILED or RECHARGING.
NeverTakenBack ==
    [][\A o \in Orders :
        /\ paidAt[o] => status'[o] \in {"PAID", "RECHARGING", "FAILED"} \cup Closed
        /\ status[o] \in Closed => status'[o] \in Closed]_vars

\* A payment in full ends in delivery, whatever crashes, failed statements and
\* lost leases come first, unless the webhook was acknowledged as too late or
\* after a failed read.
PaymentIsDelivered ==
    \A o \in Orders : upstream[o] = "full" ~> Delivered(o) \/ ack[o] \in {"late", "blind"}

\* The payment service implements PaymentDelivery: payment, delivery, rebate and
\* completion come in this order and once each, for every interleaving.
Delivery == INSTANCE PaymentDelivery WITH
    paid <- {o \in Orders : upstream[o] = "full"},
    given <- granted,
    settled <- {o \in Orders : rebated[o]},
    closed <- {o \in Orders : status[o] \in Closed},
    processed <- {o \in Orders : ack[o] = "ok"}

DeliverySpec == Delivery!ASpec

-----------------------------------------------------------------------------
(* The invariant the proofs rest on. *)

Creating == {"invoke", "saveDetails", "createFailed"}

\* Positions reached only after the payment was confirmed.
Confirmed == Delivering \cup
    {"toPaid", "alreadyProcessed", "execute", "acquire", "leaseLost", "notify"}

\* What the ledger rows say: a used code or assignment row and the credit
\* commit together, and so do the rebate's audit row and the accrual.
LedgerInv ==
    \A o \in Orders :
        /\ granted[o] = IF voucher[o] = "used" THEN 1 ELSE 0
        /\ accrued[o] = IF rebated[o] THEN 1 ELSE 0
        /\ rebated[o] => voucher[o] = "used"
        /\ voucher[o] = "used" => upstream[o] = "full"
        /\ ack[o] = "ok" => voucher[o] = "used"
        /\ o \in SubOrders => voucher[o] # "unused"

\* What the status of a row says of the rest.
RowInv ==
    \A o \in Orders :
        /\ status[o] \in Closed => rebated[o]
        /\ paidAt[o] => status[o] \in {"PAID", "RECHARGING", "FAILED"} \cup Closed
        /\ paidAt[o] => upstream[o] = "full"
        /\ mails[o] = 0 \/ (mails[o] = 1 /\ status[o] \in Closed)
        /\ status[o] = "NONE" => upstream[o] = "absent"

\* What the position of a worker says of its order.
WorkerInv ==
    \A w \in Workers :
        /\ pc[w] # "idle" => status[ord[w]] # "NONE"
        /\ pc[w] \in Confirmed => upstream[ord[w]] = "full"
        /\ pc[w] = "alreadyProcessed" => status[ord[w]] \notin {"PENDING", "CANCELLED"}
        /\ pc[w] \in {"lookup", "createCode", "redeem", "redeemTx"} => ord[w] \notin SubOrders
        /\ pc[w] \in {"assign", "assignTx"} => ord[w] \in SubOrders
        /\ pc[w] = "rebate" => voucher[ord[w]] = "used"
        /\ pc[w] \in {"markCompleted", "notify"} => rebated[ord[w]]
        /\ pc[w] = "notify" => status[ord[w]] \in Closed /\ mails[ord[w]] = 0
        /\ pc[w] \in {"invoke", "createFailed"} => upstream[ord[w]] = "absent"
        /\ pc[w] = "saveDetails" => upstream[ord[w]] \in {"made", "closed"}

\* One creator and one notifier per order.
SoleInv ==
    \A v, w \in Workers :
        /\ pc[v] # "idle" /\ ord[v] = ord[w]
        /\ (pc[v] \in Creating /\ pc[w] \in Creating) \/ (pc[v] = "notify" /\ pc[w] = "notify")
        => v = w

\* The inductive invariant: ledgers, rows and the positions of the workers agree.
DeliveryInv == LedgerInv /\ RowInv /\ WorkerInv /\ SoleInv
=============================================================================
