---------------------- MODULE PaymentFulfillmentProofs ----------------------
(***************************************************************************)
(* Proofs about PaymentFulfillment for any sets of orders and workers, any *)
(* durations and any number of faults: the types, the safety invariants    *)
(* through the inductive invariant DeliveryInv, the action property         *)
(* NeverTakenBack and the refinement of PaymentDelivery.                   *)
(***************************************************************************)
EXTENDS PaymentFulfillment, TLAPS

-----------------------------------------------------------------------------
(* Types. *)

\* Setting a flag of a row keeps the flags a Boolean function.
LEMMA FlagSet ==
    ASSUME NEW S, NEW f \in [S -> BOOLEAN], NEW x
    PROVE  [f EXCEPT ![x] = TRUE] \in [S -> BOOLEAN]
OBVIOUS

\* Answering a caller without an acknowledgement keeps the workers' types.
LEMMA ReturnTypes ==
    ASSUME TypeOfWorkers, NEW w \in Workers, Return(w)
    PROVE  TypeOfWorkers'
BY ConstantsAssumption DEF TypeOfWorkers, Return, Release, GoTo, Positions, Entries

\* So does answering nil.
LEMMA ReturnNilTypes ==
    ASSUME TypeOfWorkers, NEW w \in Workers, pc[w] # "idle",
           NEW kind \in {"ok", "late", "blind"}, ReturnNil(w, kind)
    PROVE  TypeOfWorkers'
BY ConstantsAssumption DEF TypeOfWorkers, ReturnNil, Release, GoTo, Positions, Entries

\* So does an UPDATE of an order's status for the rows.
LEMMA WriteTypes ==
    ASSUME TypeOfRows, NEW o \in Orders, NEW s \in Statuses, Write(o, s),
           UNCHANGED <<ttl, paidAt, trade, upstream, deliveryVars, faults>>
    PROVE  TypeOfRows'
BY ConstantsAssumption DEF ConstantsAssumption, TypeOfRows, Write, deliveryVars

\* Every step keeps the types of the rows, the ledgers and the counters.
LEMMA RowTypesKept ==
    ASSUME TypeOK, [Next]_vars
    PROVE  TypeOfRows'
<1> USE ConstantsAssumption DEF TypeOK, TypeOfRows, TypeOfWorkers, Statuses,
        Entries
<1>1. CASE UNCHANGED vars
  BY <1>1 DEF vars, rowVars, deliveryVars, workerVars
<1>2. ASSUME NEW w \in Workers, InvokeProvider(w) PROVE TypeOfRows'
  BY <1>2 DEF InvokeProvider, GoTo, Fault, rowVars, deliveryVars, workerVars
<1>3. ASSUME NEW w \in Workers, SaveDetails(w) PROVE TypeOfRows'
  BY <1>3 DEF SaveDetails, Write, Return, Release, GoTo, deliveryVars
<1>4. ASSUME NEW w \in Workers, MarkCreateFailed(w) PROVE TypeOfRows'
  BY <1>4 DEF MarkCreateFailed, Write, Return, Release, GoTo, deliveryVars
<1>5. ASSUME NEW w \in Workers, ConfirmPayment(w) PROVE TypeOfRows'
  BY <1>5 DEF ConfirmPayment, GoTo, Return, Release, ConfirmChecks, rowVars,
      deliveryVars, workerVars
<1>6. ASSUME NEW w \in Workers, ToPaid(w) PROVE TypeOfRows'
  <2>1. CASE PayableRow(ord[w])
    BY <1>6, FlagSet, <2>1 DEF ToPaid, Write, GoTo, rowVars, deliveryVars,
        workerVars
  <2>2. CASE ~PayableRow(ord[w])
    BY <1>6, FlagSet, <2>2 DEF ToPaid, Write, GoTo, rowVars, deliveryVars,
        workerVars
  <2> QED BY <2>1, <2>2
<1>7. ASSUME NEW w \in Workers, AlreadyProcessed(w) PROVE TypeOfRows'
  BY <1>7 DEF AlreadyProcessed, GoTo, ReturnNil, Release, ResumableStatuses,
      rowVars, deliveryVars, workerVars
<1>8. ASSUME NEW w \in Workers, ExecuteFulfillment(w) PROVE TypeOfRows'
  BY <1>8 DEF ExecuteFulfillment, GoTo, ReturnNil, Release, Return, rowVars,
      deliveryVars, workerVars
<1>9. ASSUME NEW w \in Workers, AcquireLease(w) PROVE TypeOfRows'
  <2>1. CASE Claimable(ord[w])
    BY <1>9, <2>1 DEF AcquireLease, Write, GoTo, deliveryVars
  <2>2. CASE ~Claimable(ord[w])
    BY <1>9, <2>2 DEF AcquireLease, GoTo, rowVars, deliveryVars
  <2> QED
    BY <2>1, <2>2
<1>10. ASSUME NEW w \in Workers, LeaseLost(w) PROVE TypeOfRows'
  BY <1>10 DEF LeaseLost, ReturnNil, Release, GoTo, Return, rowVars,
      deliveryVars, workerVars
<1>11. ASSUME NEW w \in Workers, ReloadLease(w) PROVE TypeOfRows'
  BY <1>11 DEF ReloadLease, GoTo, Return, Release, rowVars, deliveryVars,
      workerVars
<1>12. ASSUME NEW w \in Workers, LookupCode(w) PROVE TypeOfRows'
  BY <1>12 DEF LookupCode, GoTo, Fault, ResolveRedeemAction, rowVars,
      deliveryVars, workerVars
<1>13. ASSUME NEW w \in Workers, CreateCode(w) PROVE TypeOfRows'
  BY <1>13 DEF CreateCode, GoTo, rowVars, deliveryVars, workerVars
<1>14. ASSUME NEW w \in Workers, RedeemChecks(w) PROVE TypeOfRows'
  BY <1>14 DEF RedeemChecks, GoTo, rowVars, deliveryVars, workerVars
<1>15. ASSUME NEW w \in Workers, RedeemTx(w) PROVE TypeOfRows'
  BY <1>15 DEF RedeemTx, GoTo, UseMatches, rowVars, deliveryVars, workerVars
<1>16. ASSUME NEW w \in Workers, AssignChecks(w) PROVE TypeOfRows'
  BY <1>16 DEF AssignChecks, GoTo, rowVars, deliveryVars, workerVars
<1>17. ASSUME NEW w \in Workers, AssignTx(w) PROVE TypeOfRows'
  BY <1>17 DEF AssignTx, GoTo, AuditInsertable, rowVars, deliveryVars,
      workerVars
<1>18. ASSUME NEW w \in Workers, ApplyRebate(w) PROVE TypeOfRows'
  <2>1. CASE RebateClaimable(ord[w])
    BY <1>18, FlagSet, <2>1 DEF ApplyRebate, GoTo, rowVars, deliveryVars,
        workerVars
  <2>2. CASE ~RebateClaimable(ord[w])
    BY <1>18, FlagSet, <2>2 DEF ApplyRebate, GoTo, rowVars, deliveryVars,
        workerVars
  <2> QED BY <2>1, <2>2
<1>19. ASSUME NEW w \in Workers, MarkCompleted(w) PROVE TypeOfRows'
  <2>0. ord[w] \in Orders /\ UNCHANGED <<ttl, upstream, deliveryVars, faults>>
    BY <1>19 DEF MarkCompleted
  <2>1. CASE HoldsLease(w)
    <3>1. Write(ord[w], "COMPLETED") /\ UNCHANGED <<paidAt, trade>>
      BY <1>19, <2>1 DEF MarkCompleted
    <3> QED BY <2>0, <3>1, WriteTypes
  <2>2. CASE ~HoldsLease(w)
    <3>1. UNCHANGED rowVars
      BY <1>19, <2>2 DEF MarkCompleted
    <3> QED BY <2>0, <3>1 DEF rowVars, deliveryVars
  <2> QED BY <2>1, <2>2
<1>20. ASSUME NEW w \in Workers, CompleteLost(w) PROVE TypeOfRows'
  BY <1>20 DEF CompleteLost, GoTo, ReturnNil, Release, rowVars, deliveryVars,
      workerVars
<1>21. ASSUME NEW w \in Workers, Notify(w) PROVE TypeOfRows'
  BY <1>21 DEF Notify, ReturnNil, Release, GoTo, rowVars, deliveryVars,
      workerVars
<1>22. ASSUME NEW w \in Workers, MarkFailed(w) PROVE TypeOfRows'
  BY <1>22 DEF MarkFailed, Write, Return, Release, GoTo, HoldsLease,
      deliveryVars
<1>23. ASSUME NEW w \in Workers, QueryUpstream(w) PROVE TypeOfRows'
  BY <1>23 DEF QueryUpstream, GoTo, Fault, NotPaid, Return, Release, rowVars,
      deliveryVars, workerVars
<1>24. ASSUME NEW w \in Workers, PersistTradeNo(w) PROVE TypeOfRows'
  BY <1>24 DEF PersistTradeNo, Write, GoTo, deliveryVars
<1>25. ASSUME NEW w \in Workers, CloseUpstream(w) PROVE TypeOfRows'
  BY <1>25 DEF CloseUpstream, GoTo, rowVars, deliveryVars, workerVars
<1>26. ASSUME NEW w \in Workers, CancelCas(w) PROVE TypeOfRows'
  BY <1>26 DEF CancelCas, Write, Return, Release, GoTo, Cancellable,
      FinalStatus, deliveryVars
<1>27. ASSUME NEW w \in Workers, SaveDetailsFails(w) PROVE TypeOfRows'
  BY <1>27 DEF SaveDetailsFails, GoTo, Fault, rowVars, deliveryVars,
      workerVars
<1>28. ASSUME NEW w \in Workers, ReadFailsSilently(w) PROVE TypeOfRows'
  BY <1>28 DEF ReadFailsSilently, ReturnNil, Release, GoTo, Fault, rowVars,
      deliveryVars, workerVars
<1>29. ASSUME NEW w \in Workers, DeliveryFails(w) PROVE TypeOfRows'
  BY <1>29 DEF DeliveryFails, GoTo, Fault, rowVars, deliveryVars, workerVars
<1>30. ASSUME NEW w \in Workers, Crash(w) PROVE TypeOfRows'
  BY <1>30 DEF Crash, Return, Release, GoTo, Fault, rowVars, deliveryVars,
      workerVars
<1>31. ASSUME NEW w \in Workers, NEW o \in Orders, CreateOrder(w, o) PROVE TypeOfRows'
  BY <1>31 DEF CreateOrder, Write, Begin, GoTo, deliveryVars
<1>32. ASSUME NEW w \in Workers, NEW o \in Orders, Webhook(w, o) PROVE TypeOfRows'
  BY <1>32 DEF Webhook, Begin, GoTo, rowVars, deliveryVars, workerVars
<1>33. ASSUME NEW w \in Workers, NEW o \in Orders, RetryFulfillment(w, o) PROVE TypeOfRows'
  BY <1>33 DEF RetryFulfillment, Begin, GoTo, Retryable, rowVars,
      deliveryVars, workerVars
<1>34. ASSUME NEW w \in Workers, NEW o \in Orders, CancelOrder(w, o) PROVE TypeOfRows'
  BY <1>34 DEF CancelOrder, Begin, GoTo, rowVars, deliveryVars, workerVars
<1>35. ASSUME NEW w \in Workers, NEW o \in Orders, ExpireTimedOutOrders(w, o) PROVE TypeOfRows'
  BY <1>35 DEF ExpireTimedOutOrders, Begin, GoTo, rowVars, deliveryVars,
      workerVars
<1>36. ASSUME NEW w \in Workers, NEW o \in Orders, VerifyOrder(w, o) PROVE TypeOfRows'
  BY <1>36 DEF VerifyOrder, Begin, GoTo, rowVars, deliveryVars, workerVars
<1>37. ASSUME NEW o \in Orders, Pay(o) PROVE TypeOfRows'
  BY <1>37 DEF Pay, rowVars, deliveryVars, workerVars
<1>38. ASSUME NEW o \in Orders, RequestRefund(o) PROVE TypeOfRows'
  BY <1>38 DEF RequestRefund, Write, deliveryVars, workerVars
<1>39. CASE Tick
  BY <1>39 DEF Tick, Fault, Overruns, deliveryVars, workerVars
<1> QED BY <1>1, <1>2, <1>3, <1>4, <1>5, <1>6, <1>7, <1>8, <1>9, <1>10, <1>11,
      <1>12, <1>13, <1>14, <1>15, <1>16, <1>17, <1>18, <1>19, <1>20, <1>21,
      <1>22, <1>23, <1>24, <1>25, <1>26, <1>27, <1>28, <1>29, <1>30, <1>31,
      <1>32, <1>33, <1>34, <1>35, <1>36, <1>37, <1>38, <1>39 DEF Next, Proceed

\* Every step keeps the types of the workers and of the acknowledgements.
LEMMA WorkerTypesKept ==
    ASSUME TypeOK, [Next]_vars
    PROVE  TypeOfWorkers'
<1> USE ConstantsAssumption DEF TypeOK, TypeOfRows, TypeOfWorkers, Positions,
        Delivering, Entries
<1>1. CASE UNCHANGED vars
  BY <1>1 DEF vars, rowVars, deliveryVars, workerVars
<1>2. ASSUME NEW w \in Workers, InvokeProvider(w) PROVE TypeOfWorkers'
  BY <1>2 DEF InvokeProvider, GoTo, Fault, rowVars, deliveryVars, workerVars
<1>3. ASSUME NEW w \in Workers, SaveDetails(w) PROVE TypeOfWorkers'
  BY <1>3 DEF SaveDetails, Write, Return, Release, GoTo, deliveryVars
<1>4. ASSUME NEW w \in Workers, MarkCreateFailed(w) PROVE TypeOfWorkers'
  BY <1>4 DEF MarkCreateFailed, Write, Return, Release, GoTo, deliveryVars
<1>5. ASSUME NEW w \in Workers, ConfirmPayment(w) PROVE TypeOfWorkers'
  BY <1>5, ReturnTypes, ReturnNilTypes DEF ConfirmPayment, GoTo,
      ConfirmChecks, rowVars, deliveryVars, workerVars
<1>6. ASSUME NEW w \in Workers, ToPaid(w) PROVE TypeOfWorkers'
  BY <1>6 DEF ToPaid, Write, GoTo, PayableRow, rowVars, deliveryVars,
      workerVars
<1>7. ASSUME NEW w \in Workers, AlreadyProcessed(w) PROVE TypeOfWorkers'
  BY <1>7, ReturnTypes, ReturnNilTypes DEF AlreadyProcessed, GoTo,
      ResumableStatuses, rowVars, deliveryVars, workerVars
<1>8. ASSUME NEW w \in Workers, ExecuteFulfillment(w) PROVE TypeOfWorkers'
  BY <1>8, ReturnTypes, ReturnNilTypes DEF ExecuteFulfillment, GoTo, rowVars,
      deliveryVars, workerVars
<1>9. ASSUME NEW w \in Workers, AcquireLease(w) PROVE TypeOfWorkers'
  BY <1>9 DEF AcquireLease, Write, GoTo, Claimable, rowVars, deliveryVars,
      workerVars
<1>10. ASSUME NEW w \in Workers, LeaseLost(w) PROVE TypeOfWorkers'
  BY <1>10, ReturnTypes, ReturnNilTypes DEF LeaseLost, GoTo, rowVars,
      deliveryVars, workerVars
<1>11. ASSUME NEW w \in Workers, ReloadLease(w) PROVE TypeOfWorkers'
  BY <1>11, ReturnTypes, ReturnNilTypes DEF ReloadLease, GoTo, rowVars,
      deliveryVars, workerVars
<1>12. ASSUME NEW w \in Workers, LookupCode(w) PROVE TypeOfWorkers'
  BY <1>12 DEF LookupCode, GoTo, Fault, ResolveRedeemAction, rowVars,
      deliveryVars, workerVars
<1>13. ASSUME NEW w \in Workers, CreateCode(w) PROVE TypeOfWorkers'
  BY <1>13 DEF CreateCode, GoTo, rowVars, deliveryVars, workerVars
<1>14. ASSUME NEW w \in Workers, RedeemChecks(w) PROVE TypeOfWorkers'
  BY <1>14 DEF RedeemChecks, GoTo, rowVars, deliveryVars, workerVars
<1>15. ASSUME NEW w \in Workers, RedeemTx(w) PROVE TypeOfWorkers'
  BY <1>15 DEF RedeemTx, GoTo, UseMatches, rowVars, deliveryVars, workerVars
<1>16. ASSUME NEW w \in Workers, AssignChecks(w) PROVE TypeOfWorkers'
  BY <1>16 DEF AssignChecks, GoTo, rowVars, deliveryVars, workerVars
<1>17. ASSUME NEW w \in Workers, AssignTx(w) PROVE TypeOfWorkers'
  BY <1>17 DEF AssignTx, GoTo, AuditInsertable, rowVars, deliveryVars,
      workerVars
<1>18. ASSUME NEW w \in Workers, ApplyRebate(w) PROVE TypeOfWorkers'
  BY <1>18 DEF ApplyRebate, GoTo, RebateClaimable, rowVars, deliveryVars,
      workerVars
<1>19. ASSUME NEW w \in Workers, MarkCompleted(w) PROVE TypeOfWorkers'
  BY <1>19 DEF MarkCompleted, Write, GoTo, HoldsLease, rowVars, deliveryVars,
      workerVars
<1>20. ASSUME NEW w \in Workers, CompleteLost(w) PROVE TypeOfWorkers'
  BY <1>20, ReturnTypes, ReturnNilTypes DEF CompleteLost, GoTo, rowVars,
      deliveryVars, workerVars
<1>21. ASSUME NEW w \in Workers, Notify(w) PROVE TypeOfWorkers'
  BY <1>21 DEF Notify, ReturnNil, Release, GoTo, rowVars, deliveryVars,
      workerVars
<1>22. ASSUME NEW w \in Workers, MarkFailed(w) PROVE TypeOfWorkers'
  BY <1>22 DEF MarkFailed, Write, Return, Release, GoTo, HoldsLease,
      deliveryVars
<1>23. ASSUME NEW w \in Workers, QueryUpstream(w) PROVE TypeOfWorkers'
  BY <1>23, ReturnTypes, ReturnNilTypes DEF QueryUpstream, GoTo, Fault,
      NotPaid, rowVars, deliveryVars, workerVars
<1>24. ASSUME NEW w \in Workers, PersistTradeNo(w) PROVE TypeOfWorkers'
  BY <1>24 DEF PersistTradeNo, Write, GoTo, deliveryVars
<1>25. ASSUME NEW w \in Workers, CloseUpstream(w) PROVE TypeOfWorkers'
  BY <1>25 DEF CloseUpstream, GoTo, rowVars, deliveryVars, workerVars
<1>26. ASSUME NEW w \in Workers, CancelCas(w) PROVE TypeOfWorkers'
  BY <1>26 DEF CancelCas, Write, Return, Release, GoTo, Cancellable,
      FinalStatus, deliveryVars
<1>27. ASSUME NEW w \in Workers, SaveDetailsFails(w) PROVE TypeOfWorkers'
  BY <1>27 DEF SaveDetailsFails, GoTo, Fault, rowVars, deliveryVars,
      workerVars
<1>28. ASSUME NEW w \in Workers, ReadFailsSilently(w) PROVE TypeOfWorkers'
  BY <1>28 DEF ReadFailsSilently, ReturnNil, Release, GoTo, Fault, rowVars,
      deliveryVars, workerVars
<1>29. ASSUME NEW w \in Workers, DeliveryFails(w) PROVE TypeOfWorkers'
  BY <1>29 DEF DeliveryFails, GoTo, Fault, rowVars, deliveryVars, workerVars
<1>30. ASSUME NEW w \in Workers, Crash(w) PROVE TypeOfWorkers'
  BY <1>30 DEF Crash, Return, Release, GoTo, Fault, rowVars, deliveryVars,
      workerVars
<1>31. ASSUME NEW w \in Workers, NEW o \in Orders, CreateOrder(w, o) PROVE TypeOfWorkers'
  BY <1>31 DEF CreateOrder, Write, Begin, GoTo, deliveryVars
<1>32. ASSUME NEW w \in Workers, NEW o \in Orders, Webhook(w, o) PROVE TypeOfWorkers'
  BY <1>32 DEF Webhook, Begin, GoTo, rowVars, deliveryVars, workerVars
<1>33. ASSUME NEW w \in Workers, NEW o \in Orders, RetryFulfillment(w, o) PROVE TypeOfWorkers'
  BY <1>33 DEF RetryFulfillment, Begin, GoTo, Retryable, rowVars,
      deliveryVars, workerVars
<1>34. ASSUME NEW w \in Workers, NEW o \in Orders, CancelOrder(w, o) PROVE TypeOfWorkers'
  BY <1>34 DEF CancelOrder, Begin, GoTo, rowVars, deliveryVars, workerVars
<1>35. ASSUME NEW w \in Workers, NEW o \in Orders, ExpireTimedOutOrders(w, o) PROVE TypeOfWorkers'
  BY <1>35 DEF ExpireTimedOutOrders, Begin, GoTo, rowVars, deliveryVars,
      workerVars
<1>36. ASSUME NEW w \in Workers, NEW o \in Orders, VerifyOrder(w, o) PROVE TypeOfWorkers'
  BY <1>36 DEF VerifyOrder, Begin, GoTo, rowVars, deliveryVars, workerVars
<1>37. ASSUME NEW o \in Orders, Pay(o) PROVE TypeOfWorkers'
  BY <1>37 DEF Pay, rowVars, deliveryVars, workerVars
<1>38. ASSUME NEW o \in Orders, RequestRefund(o) PROVE TypeOfWorkers'
  BY <1>38 DEF RequestRefund, Write, deliveryVars, workerVars
<1>39. CASE Tick
  BY <1>39 DEF Tick, Fault, Overruns, deliveryVars, workerVars
<1> QED BY <1>1, <1>2, <1>3, <1>4, <1>5, <1>6, <1>7, <1>8, <1>9, <1>10, <1>11,
      <1>12, <1>13, <1>14, <1>15, <1>16, <1>17, <1>18, <1>19, <1>20, <1>21,
      <1>22, <1>23, <1>24, <1>25, <1>26, <1>27, <1>28, <1>29, <1>30, <1>31,
      <1>32, <1>33, <1>34, <1>35, <1>36, <1>37, <1>38, <1>39 DEF Next, Proceed

-----------------------------------------------------------------------------
(* The inductive invariant. *)

\* The ledger rows and the credits they stand for change together.
LEMMA LedgerKept ==
    ASSUME TypeOK, DeliveryInv, [Next]_vars
    PROVE  LedgerInv'
<1> USE ConstantsAssumption DEF TypeOK, TypeOfRows, TypeOfWorkers,
        DeliveryInv, LedgerInv, RowInv, WorkerInv, Confirmed, Delivering,
        Closed, Statuses
<1>1. CASE UNCHANGED vars
  BY <1>1 DEF vars, rowVars, deliveryVars, workerVars
<1>2. ASSUME NEW w \in Workers, InvokeProvider(w) PROVE LedgerInv'
  BY <1>2 DEF InvokeProvider, GoTo, Fault, rowVars, deliveryVars, workerVars
<1>3. ASSUME NEW w \in Workers, SaveDetails(w) PROVE LedgerInv'
  BY <1>3 DEF SaveDetails, Write, Return, Release, GoTo, deliveryVars
<1>4. ASSUME NEW w \in Workers, MarkCreateFailed(w) PROVE LedgerInv'
  BY <1>4 DEF MarkCreateFailed, Write, Return, Release, GoTo, deliveryVars
<1>5. ASSUME NEW w \in Workers, ConfirmPayment(w) PROVE LedgerInv'
  BY <1>5 DEF ConfirmPayment, GoTo, Return, Release, ConfirmChecks, rowVars,
      deliveryVars, workerVars
<1>6. ASSUME NEW w \in Workers, ToPaid(w) PROVE LedgerInv'
  BY <1>6 DEF ToPaid, Write, GoTo, PayableRow, rowVars, deliveryVars,
      workerVars
<1>7. ASSUME NEW w \in Workers, AlreadyProcessed(w) PROVE LedgerInv'
  BY <1>7 DEF AlreadyProcessed, GoTo, ReturnNil, Release, ResumableStatuses,
      rowVars, deliveryVars, workerVars
<1>8. ASSUME NEW w \in Workers, ExecuteFulfillment(w) PROVE LedgerInv'
  BY <1>8 DEF ExecuteFulfillment, GoTo, ReturnNil, Release, Return, rowVars,
      deliveryVars, workerVars
<1>9. ASSUME NEW w \in Workers, AcquireLease(w) PROVE LedgerInv'
  BY <1>9 DEF AcquireLease, Write, GoTo, Claimable, rowVars, deliveryVars,
      workerVars
<1>10. ASSUME NEW w \in Workers, LeaseLost(w) PROVE LedgerInv'
  BY <1>10 DEF LeaseLost, ReturnNil, Release, GoTo, Return, rowVars,
      deliveryVars, workerVars
<1>11. ASSUME NEW w \in Workers, ReloadLease(w) PROVE LedgerInv'
  BY <1>11 DEF ReloadLease, GoTo, Return, Release, rowVars, deliveryVars,
      workerVars
<1>12. ASSUME NEW w \in Workers, LookupCode(w) PROVE LedgerInv'
  BY <1>12 DEF LookupCode, GoTo, Fault, ResolveRedeemAction, rowVars,
      deliveryVars, workerVars
<1>13. ASSUME NEW w \in Workers, CreateCode(w) PROVE LedgerInv'
  BY <1>13 DEF CreateCode, GoTo, rowVars, deliveryVars, workerVars
<1>14. ASSUME NEW w \in Workers, RedeemChecks(w) PROVE LedgerInv'
  BY <1>14 DEF RedeemChecks, GoTo, rowVars, deliveryVars, workerVars
<1>15. ASSUME NEW w \in Workers, RedeemTx(w) PROVE LedgerInv'
  BY <1>15 DEF RedeemTx, GoTo, UseMatches, rowVars, deliveryVars, workerVars
<1>16. ASSUME NEW w \in Workers, AssignChecks(w) PROVE LedgerInv'
  BY <1>16 DEF AssignChecks, GoTo, rowVars, deliveryVars, workerVars
<1>17. ASSUME NEW w \in Workers, AssignTx(w) PROVE LedgerInv'
  BY <1>17 DEF AssignTx, GoTo, AuditInsertable, rowVars, deliveryVars,
      workerVars
<1>18. ASSUME NEW w \in Workers, ApplyRebate(w) PROVE LedgerInv'
  BY <1>18 DEF ApplyRebate, GoTo, RebateClaimable, rowVars, deliveryVars,
      workerVars
<1>19. ASSUME NEW w \in Workers, MarkCompleted(w) PROVE LedgerInv'
  BY <1>19 DEF MarkCompleted, Write, GoTo, HoldsLease, rowVars, deliveryVars,
      workerVars
<1>20. ASSUME NEW w \in Workers, CompleteLost(w) PROVE LedgerInv'
  BY <1>20 DEF CompleteLost, GoTo, ReturnNil, Release, rowVars, deliveryVars,
      workerVars
<1>21. ASSUME NEW w \in Workers, Notify(w) PROVE LedgerInv'
  BY <1>21 DEF Notify, ReturnNil, Release, GoTo, rowVars, deliveryVars,
      workerVars
<1>22. ASSUME NEW w \in Workers, MarkFailed(w) PROVE LedgerInv'
  BY <1>22 DEF MarkFailed, Write, Return, Release, GoTo, HoldsLease,
      deliveryVars
<1>23. ASSUME NEW w \in Workers, QueryUpstream(w) PROVE LedgerInv'
  BY <1>23 DEF QueryUpstream, GoTo, Fault, NotPaid, Return, Release, rowVars,
      deliveryVars, workerVars
<1>24. ASSUME NEW w \in Workers, PersistTradeNo(w) PROVE LedgerInv'
  BY <1>24 DEF PersistTradeNo, Write, GoTo, deliveryVars
<1>25. ASSUME NEW w \in Workers, CloseUpstream(w) PROVE LedgerInv'
  BY <1>25 DEF CloseUpstream, GoTo, rowVars, deliveryVars, workerVars
<1>26. ASSUME NEW w \in Workers, CancelCas(w) PROVE LedgerInv'
  BY <1>26 DEF CancelCas, Write, Return, Release, GoTo, Cancellable,
      FinalStatus, deliveryVars
<1>27. ASSUME NEW w \in Workers, SaveDetailsFails(w) PROVE LedgerInv'
  BY <1>27 DEF SaveDetailsFails, GoTo, Fault, rowVars, deliveryVars,
      workerVars
<1>28. ASSUME NEW w \in Workers, ReadFailsSilently(w) PROVE LedgerInv'
  BY <1>28 DEF ReadFailsSilently, ReturnNil, Release, GoTo, Fault, rowVars,
      deliveryVars, workerVars
<1>29. ASSUME NEW w \in Workers, DeliveryFails(w) PROVE LedgerInv'
  BY <1>29 DEF DeliveryFails, GoTo, Fault, rowVars, deliveryVars, workerVars
<1>30. ASSUME NEW w \in Workers, Crash(w) PROVE LedgerInv'
  BY <1>30 DEF Crash, Return, Release, GoTo, Fault, rowVars, deliveryVars,
      workerVars
<1>31. ASSUME NEW w \in Workers, NEW o \in Orders, CreateOrder(w, o) PROVE LedgerInv'
  BY <1>31 DEF CreateOrder, Write, Begin, GoTo, deliveryVars
<1>32. ASSUME NEW w \in Workers, NEW o \in Orders, Webhook(w, o) PROVE LedgerInv'
  BY <1>32 DEF Webhook, Begin, GoTo, rowVars, deliveryVars, workerVars
<1>33. ASSUME NEW w \in Workers, NEW o \in Orders, RetryFulfillment(w, o) PROVE LedgerInv'
  BY <1>33 DEF RetryFulfillment, Begin, GoTo, Retryable, rowVars,
      deliveryVars, workerVars
<1>34. ASSUME NEW w \in Workers, NEW o \in Orders, CancelOrder(w, o) PROVE LedgerInv'
  BY <1>34 DEF CancelOrder, Begin, GoTo, rowVars, deliveryVars, workerVars
<1>35. ASSUME NEW w \in Workers, NEW o \in Orders, ExpireTimedOutOrders(w, o) PROVE LedgerInv'
  BY <1>35 DEF ExpireTimedOutOrders, Begin, GoTo, rowVars, deliveryVars,
      workerVars
<1>36. ASSUME NEW w \in Workers, NEW o \in Orders, VerifyOrder(w, o) PROVE LedgerInv'
  BY <1>36 DEF VerifyOrder, Begin, GoTo, rowVars, deliveryVars, workerVars
<1>37. ASSUME NEW o \in Orders, Pay(o) PROVE LedgerInv'
  BY <1>37 DEF Pay, rowVars, deliveryVars, workerVars
<1>38. ASSUME NEW o \in Orders, RequestRefund(o) PROVE LedgerInv'
  BY <1>38 DEF RequestRefund, Write, deliveryVars, workerVars
<1>39. CASE Tick
  BY <1>39 DEF Tick, Fault, Overruns, deliveryVars, workerVars
<1> QED BY <1>1, <1>2, <1>3, <1>4, <1>5, <1>6, <1>7, <1>8, <1>9, <1>10, <1>11,
      <1>12, <1>13, <1>14, <1>15, <1>16, <1>17, <1>18, <1>19, <1>20, <1>21,
      <1>22, <1>23, <1>24, <1>25, <1>26, <1>27, <1>28, <1>29, <1>30, <1>31,
      <1>32, <1>33, <1>34, <1>35, <1>36, <1>37, <1>38, <1>39 DEF Next, Proceed

\* Each write of a row finds the row and the rest as RowInv says.
LEMMA RowKept ==
    ASSUME TypeOK, DeliveryInv, [Next]_vars
    PROVE  RowInv'
<1> USE ConstantsAssumption DEF TypeOK, TypeOfRows, TypeOfWorkers,
        DeliveryInv, LedgerInv, RowInv, WorkerInv, Confirmed, Delivering,
        Closed, Statuses
<1>1. CASE UNCHANGED vars
  BY <1>1 DEF vars, rowVars, deliveryVars, workerVars
<1>2. ASSUME NEW w \in Workers, InvokeProvider(w) PROVE RowInv'
  BY <1>2 DEF InvokeProvider, GoTo, Fault, rowVars, deliveryVars, workerVars
<1>3. ASSUME NEW w \in Workers, SaveDetails(w) PROVE RowInv'
  BY <1>3 DEF SaveDetails, Write, Return, Release, GoTo, deliveryVars
<1>4. ASSUME NEW w \in Workers, MarkCreateFailed(w) PROVE RowInv'
  BY <1>4 DEF MarkCreateFailed, Write, Return, Release, GoTo, deliveryVars
<1>5. ASSUME NEW w \in Workers, ConfirmPayment(w) PROVE RowInv'
  BY <1>5 DEF ConfirmPayment, GoTo, Return, Release, ConfirmChecks, rowVars,
      deliveryVars, workerVars
<1>6. ASSUME NEW w \in Workers, ToPaid(w) PROVE RowInv'
  BY <1>6 DEF ToPaid, Write, GoTo, PayableRow, rowVars, deliveryVars,
      workerVars
<1>7. ASSUME NEW w \in Workers, AlreadyProcessed(w) PROVE RowInv'
  BY <1>7 DEF AlreadyProcessed, GoTo, ReturnNil, Release, ResumableStatuses,
      rowVars, deliveryVars, workerVars
<1>8. ASSUME NEW w \in Workers, ExecuteFulfillment(w) PROVE RowInv'
  BY <1>8 DEF ExecuteFulfillment, GoTo, ReturnNil, Release, Return, rowVars,
      deliveryVars, workerVars
<1>9. ASSUME NEW w \in Workers, AcquireLease(w) PROVE RowInv'
  BY <1>9 DEF AcquireLease, Write, GoTo, Claimable, rowVars, deliveryVars,
      workerVars
<1>10. ASSUME NEW w \in Workers, LeaseLost(w) PROVE RowInv'
  BY <1>10 DEF LeaseLost, ReturnNil, Release, GoTo, Return, rowVars,
      deliveryVars, workerVars
<1>11. ASSUME NEW w \in Workers, ReloadLease(w) PROVE RowInv'
  BY <1>11 DEF ReloadLease, GoTo, Return, Release, rowVars, deliveryVars,
      workerVars
<1>12. ASSUME NEW w \in Workers, LookupCode(w) PROVE RowInv'
  BY <1>12 DEF LookupCode, GoTo, Fault, ResolveRedeemAction, rowVars,
      deliveryVars, workerVars
<1>13. ASSUME NEW w \in Workers, CreateCode(w) PROVE RowInv'
  BY <1>13 DEF CreateCode, GoTo, rowVars, deliveryVars, workerVars
<1>14. ASSUME NEW w \in Workers, RedeemChecks(w) PROVE RowInv'
  BY <1>14 DEF RedeemChecks, GoTo, rowVars, deliveryVars, workerVars
<1>15. ASSUME NEW w \in Workers, RedeemTx(w) PROVE RowInv'
  BY <1>15 DEF RedeemTx, GoTo, UseMatches, rowVars, deliveryVars, workerVars
<1>16. ASSUME NEW w \in Workers, AssignChecks(w) PROVE RowInv'
  BY <1>16 DEF AssignChecks, GoTo, rowVars, deliveryVars, workerVars
<1>17. ASSUME NEW w \in Workers, AssignTx(w) PROVE RowInv'
  BY <1>17 DEF AssignTx, GoTo, AuditInsertable, rowVars, deliveryVars,
      workerVars
<1>18. ASSUME NEW w \in Workers, ApplyRebate(w) PROVE RowInv'
  BY <1>18 DEF ApplyRebate, GoTo, RebateClaimable, rowVars, deliveryVars,
      workerVars
<1>19. ASSUME NEW w \in Workers, MarkCompleted(w) PROVE RowInv'
  BY <1>19 DEF MarkCompleted, Write, GoTo, HoldsLease, rowVars, deliveryVars,
      workerVars
<1>20. ASSUME NEW w \in Workers, CompleteLost(w) PROVE RowInv'
  BY <1>20 DEF CompleteLost, GoTo, ReturnNil, Release, rowVars, deliveryVars,
      workerVars
<1>21. ASSUME NEW w \in Workers, Notify(w) PROVE RowInv'
  BY <1>21 DEF Notify, ReturnNil, Release, GoTo, rowVars, deliveryVars,
      workerVars
<1>22. ASSUME NEW w \in Workers, MarkFailed(w) PROVE RowInv'
  BY <1>22 DEF MarkFailed, Write, Return, Release, GoTo, HoldsLease,
      deliveryVars
<1>23. ASSUME NEW w \in Workers, QueryUpstream(w) PROVE RowInv'
  BY <1>23 DEF QueryUpstream, GoTo, Fault, NotPaid, Return, Release, rowVars,
      deliveryVars, workerVars
<1>24. ASSUME NEW w \in Workers, PersistTradeNo(w) PROVE RowInv'
  BY <1>24 DEF PersistTradeNo, Write, GoTo, deliveryVars
<1>25. ASSUME NEW w \in Workers, CloseUpstream(w) PROVE RowInv'
  BY <1>25 DEF CloseUpstream, GoTo, rowVars, deliveryVars, workerVars
<1>26. ASSUME NEW w \in Workers, CancelCas(w) PROVE RowInv'
  BY <1>26 DEF CancelCas, Write, Return, Release, GoTo, Cancellable,
      FinalStatus, deliveryVars
<1>27. ASSUME NEW w \in Workers, SaveDetailsFails(w) PROVE RowInv'
  BY <1>27 DEF SaveDetailsFails, GoTo, Fault, rowVars, deliveryVars,
      workerVars
<1>28. ASSUME NEW w \in Workers, ReadFailsSilently(w) PROVE RowInv'
  BY <1>28 DEF ReadFailsSilently, ReturnNil, Release, GoTo, Fault, rowVars,
      deliveryVars, workerVars
<1>29. ASSUME NEW w \in Workers, DeliveryFails(w) PROVE RowInv'
  BY <1>29 DEF DeliveryFails, GoTo, Fault, rowVars, deliveryVars, workerVars
<1>30. ASSUME NEW w \in Workers, Crash(w) PROVE RowInv'
  BY <1>30 DEF Crash, Return, Release, GoTo, Fault, rowVars, deliveryVars,
      workerVars
<1>31. ASSUME NEW w \in Workers, NEW o \in Orders, CreateOrder(w, o) PROVE RowInv'
  BY <1>31 DEF CreateOrder, Write, Begin, GoTo, deliveryVars
<1>32. ASSUME NEW w \in Workers, NEW o \in Orders, Webhook(w, o) PROVE RowInv'
  BY <1>32 DEF Webhook, Begin, GoTo, rowVars, deliveryVars, workerVars
<1>33. ASSUME NEW w \in Workers, NEW o \in Orders, RetryFulfillment(w, o) PROVE RowInv'
  BY <1>33 DEF RetryFulfillment, Begin, GoTo, Retryable, rowVars,
      deliveryVars, workerVars
<1>34. ASSUME NEW w \in Workers, NEW o \in Orders, CancelOrder(w, o) PROVE RowInv'
  BY <1>34 DEF CancelOrder, Begin, GoTo, rowVars, deliveryVars, workerVars
<1>35. ASSUME NEW w \in Workers, NEW o \in Orders, ExpireTimedOutOrders(w, o) PROVE RowInv'
  BY <1>35 DEF ExpireTimedOutOrders, Begin, GoTo, rowVars, deliveryVars,
      workerVars
<1>36. ASSUME NEW w \in Workers, NEW o \in Orders, VerifyOrder(w, o) PROVE RowInv'
  BY <1>36 DEF VerifyOrder, Begin, GoTo, rowVars, deliveryVars, workerVars
<1>37. ASSUME NEW o \in Orders, Pay(o) PROVE RowInv'
  BY <1>37 DEF Pay, rowVars, deliveryVars, workerVars
<1>38. ASSUME NEW o \in Orders, RequestRefund(o) PROVE RowInv'
  BY <1>38 DEF RequestRefund, Write, deliveryVars, workerVars
<1>39. CASE Tick
  BY <1>39 DEF Tick, Fault, Overruns, deliveryVars, workerVars
<1> QED BY <1>1, <1>2, <1>3, <1>4, <1>5, <1>6, <1>7, <1>8, <1>9, <1>10, <1>11,
      <1>12, <1>13, <1>14, <1>15, <1>16, <1>17, <1>18, <1>19, <1>20, <1>21,
      <1>22, <1>23, <1>24, <1>25, <1>26, <1>27, <1>28, <1>29, <1>30, <1>31,
      <1>32, <1>33, <1>34, <1>35, <1>36, <1>37, <1>38, <1>39 DEF Next, Proceed

\* What a worker knows of its order stays true under the steps of all workers.
LEMMA WorkerKept ==
    ASSUME TypeOK, DeliveryInv, [Next]_vars
    PROVE  WorkerInv'
<1> USE ConstantsAssumption DEF TypeOK, TypeOfRows, TypeOfWorkers,
        DeliveryInv, LedgerInv, RowInv, WorkerInv, SoleInv, Creating,
        Confirmed, Delivering, Closed, Statuses, Positions
<1>1. CASE UNCHANGED vars
  BY <1>1 DEF vars, rowVars, deliveryVars, workerVars
<1>2. ASSUME NEW w \in Workers, InvokeProvider(w) PROVE WorkerInv'
  BY <1>2 DEF InvokeProvider, GoTo, Fault, rowVars, deliveryVars, workerVars
<1>3. ASSUME NEW w \in Workers, SaveDetails(w) PROVE WorkerInv'
  BY <1>3 DEF SaveDetails, Write, Return, Release, GoTo, deliveryVars
<1>4. ASSUME NEW w \in Workers, MarkCreateFailed(w) PROVE WorkerInv'
  BY <1>4 DEF MarkCreateFailed, Write, Return, Release, GoTo, deliveryVars
<1>5. ASSUME NEW w \in Workers, ConfirmPayment(w) PROVE WorkerInv'
  BY <1>5 DEF ConfirmPayment, GoTo, Return, Release, ConfirmChecks, rowVars,
      deliveryVars, workerVars
<1>6. ASSUME NEW w \in Workers, ToPaid(w) PROVE WorkerInv'
  BY <1>6 DEF ToPaid, Write, GoTo, PayableRow, rowVars, deliveryVars,
      workerVars
<1>7. ASSUME NEW w \in Workers, AlreadyProcessed(w) PROVE WorkerInv'
  BY <1>7 DEF AlreadyProcessed, GoTo, ReturnNil, Release, ResumableStatuses,
      rowVars, deliveryVars, workerVars
<1>8. ASSUME NEW w \in Workers, ExecuteFulfillment(w) PROVE WorkerInv'
  BY <1>8 DEF ExecuteFulfillment, GoTo, ReturnNil, Release, Return, rowVars,
      deliveryVars, workerVars
<1>9. ASSUME NEW w \in Workers, AcquireLease(w) PROVE WorkerInv'
  BY <1>9 DEF AcquireLease, Write, GoTo, Claimable, rowVars, deliveryVars,
      workerVars
<1>10. ASSUME NEW w \in Workers, LeaseLost(w) PROVE WorkerInv'
  BY <1>10 DEF LeaseLost, ReturnNil, Release, GoTo, Return, rowVars,
      deliveryVars, workerVars
<1>11. ASSUME NEW w \in Workers, ReloadLease(w) PROVE WorkerInv'
  BY <1>11 DEF ReloadLease, GoTo, Return, Release, rowVars, deliveryVars,
      workerVars
<1>12. ASSUME NEW w \in Workers, LookupCode(w) PROVE WorkerInv'
  BY <1>12 DEF LookupCode, GoTo, Fault, ResolveRedeemAction, rowVars,
      deliveryVars, workerVars
<1>13. ASSUME NEW w \in Workers, CreateCode(w) PROVE WorkerInv'
  BY <1>13 DEF CreateCode, GoTo, rowVars, deliveryVars, workerVars
<1>14. ASSUME NEW w \in Workers, RedeemChecks(w) PROVE WorkerInv'
  BY <1>14 DEF RedeemChecks, GoTo, rowVars, deliveryVars, workerVars
<1>15. ASSUME NEW w \in Workers, RedeemTx(w) PROVE WorkerInv'
  BY <1>15 DEF RedeemTx, GoTo, UseMatches, rowVars, deliveryVars, workerVars
<1>16. ASSUME NEW w \in Workers, AssignChecks(w) PROVE WorkerInv'
  BY <1>16 DEF AssignChecks, GoTo, rowVars, deliveryVars, workerVars
<1>17. ASSUME NEW w \in Workers, AssignTx(w) PROVE WorkerInv'
  BY <1>17 DEF AssignTx, GoTo, AuditInsertable, rowVars, deliveryVars,
      workerVars
<1>18. ASSUME NEW w \in Workers, ApplyRebate(w) PROVE WorkerInv'
  BY <1>18 DEF ApplyRebate, GoTo, RebateClaimable, rowVars, deliveryVars,
      workerVars
<1>19. ASSUME NEW w \in Workers, MarkCompleted(w) PROVE WorkerInv'
  BY <1>19 DEF MarkCompleted, Write, GoTo, HoldsLease, rowVars, deliveryVars,
      workerVars
<1>20. ASSUME NEW w \in Workers, CompleteLost(w) PROVE WorkerInv'
  BY <1>20 DEF CompleteLost, GoTo, ReturnNil, Release, rowVars, deliveryVars,
      workerVars
<1>21. ASSUME NEW w \in Workers, Notify(w) PROVE WorkerInv'
  BY <1>21 DEF Notify, ReturnNil, Release, GoTo, rowVars, deliveryVars,
      workerVars
<1>22. ASSUME NEW w \in Workers, MarkFailed(w) PROVE WorkerInv'
  BY <1>22 DEF MarkFailed, Write, Return, Release, GoTo, HoldsLease,
      deliveryVars
<1>23. ASSUME NEW w \in Workers, QueryUpstream(w) PROVE WorkerInv'
  BY <1>23 DEF QueryUpstream, GoTo, Fault, NotPaid, Return, Release, rowVars,
      deliveryVars, workerVars
<1>24. ASSUME NEW w \in Workers, PersistTradeNo(w) PROVE WorkerInv'
  BY <1>24 DEF PersistTradeNo, Write, GoTo, deliveryVars
<1>25. ASSUME NEW w \in Workers, CloseUpstream(w) PROVE WorkerInv'
  BY <1>25 DEF CloseUpstream, GoTo, rowVars, deliveryVars, workerVars
<1>26. ASSUME NEW w \in Workers, CancelCas(w) PROVE WorkerInv'
  BY <1>26 DEF CancelCas, Write, Return, Release, GoTo, Cancellable,
      FinalStatus, deliveryVars
<1>27. ASSUME NEW w \in Workers, SaveDetailsFails(w) PROVE WorkerInv'
  BY <1>27 DEF SaveDetailsFails, GoTo, Fault, rowVars, deliveryVars,
      workerVars
<1>28. ASSUME NEW w \in Workers, ReadFailsSilently(w) PROVE WorkerInv'
  BY <1>28 DEF ReadFailsSilently, ReturnNil, Release, GoTo, Fault, rowVars,
      deliveryVars, workerVars
<1>29. ASSUME NEW w \in Workers, DeliveryFails(w) PROVE WorkerInv'
  BY <1>29 DEF DeliveryFails, GoTo, Fault, rowVars, deliveryVars, workerVars
<1>30. ASSUME NEW w \in Workers, Crash(w) PROVE WorkerInv'
  BY <1>30 DEF Crash, Return, Release, GoTo, Fault, rowVars, deliveryVars,
      workerVars
<1>31. ASSUME NEW w \in Workers, NEW o \in Orders, CreateOrder(w, o) PROVE WorkerInv'
  BY <1>31 DEF CreateOrder, Write, Begin, GoTo, deliveryVars
<1>32. ASSUME NEW w \in Workers, NEW o \in Orders, Webhook(w, o) PROVE WorkerInv'
  BY <1>32 DEF Webhook, Begin, GoTo, rowVars, deliveryVars, workerVars
<1>33. ASSUME NEW w \in Workers, NEW o \in Orders, RetryFulfillment(w, o) PROVE WorkerInv'
  BY <1>33 DEF RetryFulfillment, Begin, GoTo, Retryable, rowVars,
      deliveryVars, workerVars
<1>34. ASSUME NEW w \in Workers, NEW o \in Orders, CancelOrder(w, o) PROVE WorkerInv'
  BY <1>34 DEF CancelOrder, Begin, GoTo, rowVars, deliveryVars, workerVars
<1>35. ASSUME NEW w \in Workers, NEW o \in Orders, ExpireTimedOutOrders(w, o) PROVE WorkerInv'
  BY <1>35 DEF ExpireTimedOutOrders, Begin, GoTo, rowVars, deliveryVars,
      workerVars
<1>36. ASSUME NEW w \in Workers, NEW o \in Orders, VerifyOrder(w, o) PROVE WorkerInv'
  BY <1>36 DEF VerifyOrder, Begin, GoTo, rowVars, deliveryVars, workerVars
<1>37. ASSUME NEW o \in Orders, Pay(o) PROVE WorkerInv'
  BY <1>37 DEF Pay, rowVars, deliveryVars, workerVars
<1>38. ASSUME NEW o \in Orders, RequestRefund(o) PROVE WorkerInv'
  BY <1>38 DEF RequestRefund, Write, deliveryVars, workerVars
<1>39. CASE Tick
  BY <1>39 DEF Tick, Fault, Overruns, deliveryVars, workerVars
<1> QED BY <1>1, <1>2, <1>3, <1>4, <1>5, <1>6, <1>7, <1>8, <1>9, <1>10, <1>11,
      <1>12, <1>13, <1>14, <1>15, <1>16, <1>17, <1>18, <1>19, <1>20, <1>21,
      <1>22, <1>23, <1>24, <1>25, <1>26, <1>27, <1>28, <1>29, <1>30, <1>31,
      <1>32, <1>33, <1>34, <1>35, <1>36, <1>37, <1>38, <1>39 DEF Next, Proceed

\* No second creator and no second notifier of an order appears.
LEMMA SoleKept ==
    ASSUME TypeOK, DeliveryInv, [Next]_vars
    PROVE  SoleInv'
<1> USE ConstantsAssumption DEF TypeOK, TypeOfRows, TypeOfWorkers,
        DeliveryInv, RowInv, WorkerInv, SoleInv, Creating, Closed
<1>1. CASE UNCHANGED vars
  BY <1>1 DEF vars, rowVars, deliveryVars, workerVars
<1>2. ASSUME NEW w \in Workers, InvokeProvider(w) PROVE SoleInv'
  BY <1>2 DEF InvokeProvider, GoTo, Fault, rowVars, deliveryVars, workerVars
<1>3. ASSUME NEW w \in Workers, SaveDetails(w) PROVE SoleInv'
  BY <1>3 DEF SaveDetails, Write, Return, Release, GoTo, deliveryVars
<1>4. ASSUME NEW w \in Workers, MarkCreateFailed(w) PROVE SoleInv'
  BY <1>4 DEF MarkCreateFailed, Write, Return, Release, GoTo, deliveryVars
<1>5. ASSUME NEW w \in Workers, ConfirmPayment(w) PROVE SoleInv'
  BY <1>5 DEF ConfirmPayment, GoTo, Return, Release, ConfirmChecks, rowVars,
      deliveryVars, workerVars
<1>6. ASSUME NEW w \in Workers, ToPaid(w) PROVE SoleInv'
  <2>1. CASE PayableRow(ord[w])
    BY <1>6, <2>1 DEF ToPaid, Write, GoTo, PayableRow, deliveryVars
  <2>2. CASE ~PayableRow(ord[w])
    BY <1>6, <2>2 DEF ToPaid, GoTo, rowVars, deliveryVars
  <2> QED
    BY <2>1, <2>2
<1>7. ASSUME NEW w \in Workers, AlreadyProcessed(w) PROVE SoleInv'
  <2>1. CASE GoTo(w, "execute") /\ UNCHANGED ord
    BY <2>1 DEF GoTo
  <2>2. CASE ReturnNil(w, "late") \/ ReturnNil(w, "ok")
    BY <2>2 DEF ReturnNil, Release, GoTo
  <2> QED
    BY <1>7, <2>1, <2>2 DEF AlreadyProcessed
<1>8. ASSUME NEW w \in Workers, ExecuteFulfillment(w) PROVE SoleInv'
  BY <1>8 DEF ExecuteFulfillment, GoTo, ReturnNil, Release, Return, rowVars,
      deliveryVars, workerVars
<1>9. ASSUME NEW w \in Workers, AcquireLease(w) PROVE SoleInv'
  BY <1>9 DEF AcquireLease, Write, GoTo, Claimable, rowVars, deliveryVars,
      workerVars
<1>10. ASSUME NEW w \in Workers, LeaseLost(w) PROVE SoleInv'
  BY <1>10 DEF LeaseLost, ReturnNil, Release, GoTo, Return, rowVars,
      deliveryVars, workerVars
<1>11. ASSUME NEW w \in Workers, ReloadLease(w) PROVE SoleInv'
  BY <1>11 DEF ReloadLease, GoTo, Return, Release, rowVars, deliveryVars,
      workerVars
<1>12. ASSUME NEW w \in Workers, LookupCode(w) PROVE SoleInv'
  BY <1>12 DEF LookupCode, GoTo, Fault, ResolveRedeemAction, rowVars,
      deliveryVars, workerVars
<1>13. ASSUME NEW w \in Workers, CreateCode(w) PROVE SoleInv'
  BY <1>13 DEF CreateCode, GoTo, rowVars, deliveryVars, workerVars
<1>14. ASSUME NEW w \in Workers, RedeemChecks(w) PROVE SoleInv'
  BY <1>14 DEF RedeemChecks, GoTo, rowVars, deliveryVars, workerVars
<1>15. ASSUME NEW w \in Workers, RedeemTx(w) PROVE SoleInv'
  BY <1>15 DEF RedeemTx, GoTo, UseMatches, rowVars, deliveryVars, workerVars
<1>16. ASSUME NEW w \in Workers, AssignChecks(w) PROVE SoleInv'
  BY <1>16 DEF AssignChecks, GoTo, rowVars, deliveryVars, workerVars
<1>17. ASSUME NEW w \in Workers, AssignTx(w) PROVE SoleInv'
  BY <1>17 DEF AssignTx, GoTo, AuditInsertable, rowVars, deliveryVars,
      workerVars
<1>18. ASSUME NEW w \in Workers, ApplyRebate(w) PROVE SoleInv'
  BY <1>18 DEF ApplyRebate, GoTo, RebateClaimable, rowVars, deliveryVars,
      workerVars
<1>19. ASSUME NEW w \in Workers, MarkCompleted(w) PROVE SoleInv'
  BY <1>19 DEF MarkCompleted, Write, GoTo, HoldsLease, rowVars, deliveryVars,
      workerVars
<1>20. ASSUME NEW w \in Workers, CompleteLost(w) PROVE SoleInv'
  BY <1>20 DEF CompleteLost, GoTo, ReturnNil, Release, rowVars, deliveryVars,
      workerVars
<1>21. ASSUME NEW w \in Workers, Notify(w) PROVE SoleInv'
  BY <1>21 DEF Notify, ReturnNil, Release, GoTo, rowVars, deliveryVars,
      workerVars
<1>22. ASSUME NEW w \in Workers, MarkFailed(w) PROVE SoleInv'
  BY <1>22 DEF MarkFailed, Write, Return, Release, GoTo, HoldsLease,
      deliveryVars
<1>23. ASSUME NEW w \in Workers, QueryUpstream(w) PROVE SoleInv'
  BY <1>23 DEF QueryUpstream, GoTo, Fault, NotPaid, Return, Release, rowVars,
      deliveryVars, workerVars
<1>24. ASSUME NEW w \in Workers, PersistTradeNo(w) PROVE SoleInv'
  BY <1>24 DEF PersistTradeNo, Write, GoTo, deliveryVars
<1>25. ASSUME NEW w \in Workers, CloseUpstream(w) PROVE SoleInv'
  BY <1>25 DEF CloseUpstream, GoTo, rowVars, deliveryVars, workerVars
<1>26. ASSUME NEW w \in Workers, CancelCas(w) PROVE SoleInv'
  BY <1>26 DEF CancelCas, Write, Return, Release, GoTo, Cancellable,
      FinalStatus, deliveryVars
<1>27. ASSUME NEW w \in Workers, SaveDetailsFails(w) PROVE SoleInv'
  BY <1>27 DEF SaveDetailsFails, GoTo, Fault, rowVars, deliveryVars,
      workerVars
<1>28. ASSUME NEW w \in Workers, ReadFailsSilently(w) PROVE SoleInv'
  BY <1>28 DEF ReadFailsSilently, ReturnNil, Release, GoTo, Fault, rowVars,
      deliveryVars, workerVars
<1>29. ASSUME NEW w \in Workers, DeliveryFails(w) PROVE SoleInv'
  BY <1>29 DEF DeliveryFails, GoTo, Fault, rowVars, deliveryVars, workerVars
<1>30. ASSUME NEW w \in Workers, Crash(w) PROVE SoleInv'
  BY <1>30 DEF Crash, Return, Release, GoTo, Fault, rowVars, deliveryVars,
      workerVars
<1>31. ASSUME NEW w \in Workers, NEW o \in Orders, CreateOrder(w, o) PROVE SoleInv'
  BY <1>31 DEF CreateOrder, Write, Begin, GoTo, deliveryVars
<1>32. ASSUME NEW w \in Workers, NEW o \in Orders, Webhook(w, o) PROVE SoleInv'
  BY <1>32 DEF Webhook, Begin, GoTo, rowVars, deliveryVars, workerVars
<1>33. ASSUME NEW w \in Workers, NEW o \in Orders, RetryFulfillment(w, o) PROVE SoleInv'
  BY <1>33 DEF RetryFulfillment, Begin, GoTo, Retryable, rowVars,
      deliveryVars, workerVars
<1>34. ASSUME NEW w \in Workers, NEW o \in Orders, CancelOrder(w, o) PROVE SoleInv'
  BY <1>34 DEF CancelOrder, Begin, GoTo, rowVars, deliveryVars, workerVars
<1>35. ASSUME NEW w \in Workers, NEW o \in Orders, ExpireTimedOutOrders(w, o) PROVE SoleInv'
  BY <1>35 DEF ExpireTimedOutOrders, Begin, GoTo, rowVars, deliveryVars,
      workerVars
<1>36. ASSUME NEW w \in Workers, NEW o \in Orders, VerifyOrder(w, o) PROVE SoleInv'
  BY <1>36 DEF VerifyOrder, Begin, GoTo, rowVars, deliveryVars, workerVars
<1>37. ASSUME NEW o \in Orders, Pay(o) PROVE SoleInv'
  BY <1>37 DEF Pay, rowVars, deliveryVars, workerVars
<1>38. ASSUME NEW o \in Orders, RequestRefund(o) PROVE SoleInv'
  BY <1>38 DEF RequestRefund, Write, deliveryVars, workerVars
<1>39. CASE Tick
  BY <1>39 DEF Tick, Fault, Overruns, deliveryVars, workerVars
<1> QED BY <1>1, <1>2, <1>3, <1>4, <1>5, <1>6, <1>7, <1>8, <1>9, <1>10, <1>11,
      <1>12, <1>13, <1>14, <1>15, <1>16, <1>17, <1>18, <1>19, <1>20, <1>21,
      <1>22, <1>23, <1>24, <1>25, <1>26, <1>27, <1>28, <1>29, <1>30, <1>31,
      <1>32, <1>33, <1>34, <1>35, <1>36, <1>37, <1>38, <1>39 DEF Next, Proceed

\* A step keeps an order paid and keeps it closed.
RowAdvances ==
    \A o \in Orders :
        /\ paidAt[o] => paidAt'[o]
        /\ status[o] \in Closed => status'[o] \in Closed

\* No write of a row takes a payment or a completion back.
LEMMA RowsAdvance ==
    ASSUME TypeOK, DeliveryInv, [Next]_vars
    PROVE  RowAdvances
<1> USE ConstantsAssumption DEF TypeOK, TypeOfRows, TypeOfWorkers,
        DeliveryInv, LedgerInv, RowInv, WorkerInv, Closed, RowAdvances
<1>1. CASE UNCHANGED vars
  BY <1>1 DEF vars, rowVars, deliveryVars, workerVars
<1>2. ASSUME NEW w \in Workers, InvokeProvider(w) PROVE RowAdvances
  BY <1>2 DEF InvokeProvider, GoTo, Fault, rowVars, deliveryVars, workerVars
<1>3. ASSUME NEW w \in Workers, SaveDetails(w) PROVE RowAdvances
  BY <1>3 DEF SaveDetails, Write, Return, Release, GoTo, deliveryVars
<1>4. ASSUME NEW w \in Workers, MarkCreateFailed(w) PROVE RowAdvances
  BY <1>4 DEF MarkCreateFailed, Write, Return, Release, GoTo, deliveryVars
<1>5. ASSUME NEW w \in Workers, ConfirmPayment(w) PROVE RowAdvances
  BY <1>5 DEF ConfirmPayment, GoTo, Return, Release, ConfirmChecks, rowVars,
      deliveryVars, workerVars
<1>6. ASSUME NEW w \in Workers, ToPaid(w) PROVE RowAdvances
  BY <1>6 DEF ToPaid, Write, GoTo, PayableRow, rowVars, deliveryVars,
      workerVars
<1>7. ASSUME NEW w \in Workers, AlreadyProcessed(w) PROVE RowAdvances
  BY <1>7 DEF AlreadyProcessed, GoTo, ReturnNil, Release, ResumableStatuses,
      rowVars, deliveryVars, workerVars
<1>8. ASSUME NEW w \in Workers, ExecuteFulfillment(w) PROVE RowAdvances
  BY <1>8 DEF ExecuteFulfillment, GoTo, ReturnNil, Release, Return, rowVars,
      deliveryVars, workerVars
<1>9. ASSUME NEW w \in Workers, AcquireLease(w) PROVE RowAdvances
  BY <1>9 DEF AcquireLease, Write, GoTo, Claimable, rowVars, deliveryVars,
      workerVars
<1>10. ASSUME NEW w \in Workers, LeaseLost(w) PROVE RowAdvances
  BY <1>10 DEF LeaseLost, ReturnNil, Release, GoTo, Return, rowVars,
      deliveryVars, workerVars
<1>11. ASSUME NEW w \in Workers, ReloadLease(w) PROVE RowAdvances
  BY <1>11 DEF ReloadLease, GoTo, Return, Release, rowVars, deliveryVars,
      workerVars
<1>12. ASSUME NEW w \in Workers, LookupCode(w) PROVE RowAdvances
  BY <1>12 DEF LookupCode, GoTo, Fault, ResolveRedeemAction, rowVars,
      deliveryVars, workerVars
<1>13. ASSUME NEW w \in Workers, CreateCode(w) PROVE RowAdvances
  BY <1>13 DEF CreateCode, GoTo, rowVars, deliveryVars, workerVars
<1>14. ASSUME NEW w \in Workers, RedeemChecks(w) PROVE RowAdvances
  BY <1>14 DEF RedeemChecks, GoTo, rowVars, deliveryVars, workerVars
<1>15. ASSUME NEW w \in Workers, RedeemTx(w) PROVE RowAdvances
  BY <1>15 DEF RedeemTx, GoTo, UseMatches, rowVars, deliveryVars, workerVars
<1>16. ASSUME NEW w \in Workers, AssignChecks(w) PROVE RowAdvances
  BY <1>16 DEF AssignChecks, GoTo, rowVars, deliveryVars, workerVars
<1>17. ASSUME NEW w \in Workers, AssignTx(w) PROVE RowAdvances
  BY <1>17 DEF AssignTx, GoTo, AuditInsertable, rowVars, deliveryVars,
      workerVars
<1>18. ASSUME NEW w \in Workers, ApplyRebate(w) PROVE RowAdvances
  BY <1>18 DEF ApplyRebate, GoTo, RebateClaimable, rowVars, deliveryVars,
      workerVars
<1>19. ASSUME NEW w \in Workers, MarkCompleted(w) PROVE RowAdvances
  BY <1>19 DEF MarkCompleted, Write, GoTo, HoldsLease, rowVars, deliveryVars,
      workerVars
<1>20. ASSUME NEW w \in Workers, CompleteLost(w) PROVE RowAdvances
  BY <1>20 DEF CompleteLost, GoTo, ReturnNil, Release, rowVars, deliveryVars,
      workerVars
<1>21. ASSUME NEW w \in Workers, Notify(w) PROVE RowAdvances
  BY <1>21 DEF Notify, ReturnNil, Release, GoTo, rowVars, deliveryVars,
      workerVars
<1>22. ASSUME NEW w \in Workers, MarkFailed(w) PROVE RowAdvances
  BY <1>22 DEF MarkFailed, Write, Return, Release, GoTo, HoldsLease,
      deliveryVars
<1>23. ASSUME NEW w \in Workers, QueryUpstream(w) PROVE RowAdvances
  BY <1>23 DEF QueryUpstream, GoTo, Fault, NotPaid, Return, Release, rowVars,
      deliveryVars, workerVars
<1>24. ASSUME NEW w \in Workers, PersistTradeNo(w) PROVE RowAdvances
  BY <1>24 DEF PersistTradeNo, Write, GoTo, deliveryVars
<1>25. ASSUME NEW w \in Workers, CloseUpstream(w) PROVE RowAdvances
  BY <1>25 DEF CloseUpstream, GoTo, rowVars, deliveryVars, workerVars
<1>26. ASSUME NEW w \in Workers, CancelCas(w) PROVE RowAdvances
  BY <1>26 DEF CancelCas, Write, Return, Release, GoTo, Cancellable,
      FinalStatus, deliveryVars
<1>27. ASSUME NEW w \in Workers, SaveDetailsFails(w) PROVE RowAdvances
  BY <1>27 DEF SaveDetailsFails, GoTo, Fault, rowVars, deliveryVars,
      workerVars
<1>28. ASSUME NEW w \in Workers, ReadFailsSilently(w) PROVE RowAdvances
  BY <1>28 DEF ReadFailsSilently, ReturnNil, Release, GoTo, Fault, rowVars,
      deliveryVars, workerVars
<1>29. ASSUME NEW w \in Workers, DeliveryFails(w) PROVE RowAdvances
  BY <1>29 DEF DeliveryFails, GoTo, Fault, rowVars, deliveryVars, workerVars
<1>30. ASSUME NEW w \in Workers, Crash(w) PROVE RowAdvances
  BY <1>30 DEF Crash, Return, Release, GoTo, Fault, rowVars, deliveryVars,
      workerVars
<1>31. ASSUME NEW w \in Workers, NEW o \in Orders, CreateOrder(w, o) PROVE RowAdvances
  BY <1>31 DEF CreateOrder, Write, Begin, GoTo, deliveryVars
<1>32. ASSUME NEW w \in Workers, NEW o \in Orders, Webhook(w, o) PROVE RowAdvances
  BY <1>32 DEF Webhook, Begin, GoTo, rowVars, deliveryVars, workerVars
<1>33. ASSUME NEW w \in Workers, NEW o \in Orders, RetryFulfillment(w, o) PROVE RowAdvances
  BY <1>33 DEF RetryFulfillment, Begin, GoTo, Retryable, rowVars,
      deliveryVars, workerVars
<1>34. ASSUME NEW w \in Workers, NEW o \in Orders, CancelOrder(w, o) PROVE RowAdvances
  BY <1>34 DEF CancelOrder, Begin, GoTo, rowVars, deliveryVars, workerVars
<1>35. ASSUME NEW w \in Workers, NEW o \in Orders, ExpireTimedOutOrders(w, o) PROVE RowAdvances
  BY <1>35 DEF ExpireTimedOutOrders, Begin, GoTo, rowVars, deliveryVars,
      workerVars
<1>36. ASSUME NEW w \in Workers, NEW o \in Orders, VerifyOrder(w, o) PROVE RowAdvances
  BY <1>36 DEF VerifyOrder, Begin, GoTo, rowVars, deliveryVars, workerVars
<1>37. ASSUME NEW o \in Orders, Pay(o) PROVE RowAdvances
  BY <1>37 DEF Pay, rowVars, deliveryVars, workerVars
<1>38. ASSUME NEW o \in Orders, RequestRefund(o) PROVE RowAdvances
  BY <1>38 DEF RequestRefund, Write, deliveryVars, workerVars
<1>39. CASE Tick
  BY <1>39 DEF Tick, Fault, Overruns, deliveryVars, workerVars
<1> QED BY <1>1, <1>2, <1>3, <1>4, <1>5, <1>6, <1>7, <1>8, <1>9, <1>10, <1>11,
      <1>12, <1>13, <1>14, <1>15, <1>16, <1>17, <1>18, <1>19, <1>20, <1>21,
      <1>22, <1>23, <1>24, <1>25, <1>26, <1>27, <1>28, <1>29, <1>30, <1>31,
      <1>32, <1>33, <1>34, <1>35, <1>36, <1>37, <1>38, <1>39 DEF Next, Proceed

\* The initial state satisfies the types and the invariant.
LEMMA InitInv == Init => TypeOK /\ DeliveryInv
BY ConstantsAssumption
   DEF Init, TypeOK, TypeOfRows, TypeOfWorkers, Statuses, Positions, Delivering, Entries,
       DeliveryInv, LedgerInv, RowInv, WorkerInv, SoleInv, Creating, Confirmed, Closed

\* Type correctness: every statement of the payment service leaves rows,
\* ledgers and workers with values of their types.
THEOREM TypeCorrect == Spec => []TypeOK
<1>1. Init => TypeOK
  BY InitInv
<1>2. TypeOK /\ [Next]_vars => TypeOK'
  BY RowTypesKept, WorkerTypesKept DEF TypeOK
<1> QED BY <1>1, <1>2, PTL DEF Spec

\* DeliveryInv holds in every reachable state: it is inductive given the types.
THEOREM DeliveryInvariant == Spec => []DeliveryInv
<1>1. Init => DeliveryInv
  BY InitInv
<1>2. TypeOK /\ DeliveryInv /\ [Next]_vars => DeliveryInv'
  BY LedgerKept, RowKept, WorkerKept, SoleKept DEF DeliveryInv
<1> QED BY <1>1, <1>2, TypeCorrect, PTL DEF Spec

-----------------------------------------------------------------------------
(* The safety properties. *)

\* The purchase is delivered and the rebate settled at most once, for any
\* number of workers, webhooks, lease takeovers and faults.
THEOREM AtMostOnce == Spec => []DeliveredAtMostOnce
<1>1. DeliveryInv => DeliveredAtMostOnce
  BY DEF DeliveryInv, LedgerInv, DeliveredAtMostOnce
<1> QED BY <1>1, DeliveryInvariant, PTL

\* Nothing is delivered or settled for an order that was not paid in full.
THEOREM OnlyIfPaid == Spec => []DeliveredOnlyIfPaid
<1>1. DeliveryInv => DeliveredOnlyIfPaid
  BY DEF DeliveryInv, LedgerInv, DeliveredOnlyIfPaid
<1> QED BY <1>1, DeliveryInvariant, PTL

\* A COMPLETED order is delivered and its rebate settled.
THEOREM CompletedDelivered == Spec => []CompletedIsDelivered
<1>1. DeliveryInv => CompletedIsDelivered
  BY DEF DeliveryInv, LedgerInv, RowInv, CompletedIsDelivered, Delivered
<1> QED BY <1>1, DeliveryInvariant, PTL

\* A webhook acknowledged because the order counts as processed belongs to a
\* delivered order.
THEOREM AckedDelivered == Spec => []AckedIsDelivered
<1>1. DeliveryInv => AckedIsDelivered
  BY DEF DeliveryInv, LedgerInv, AckedIsDelivered, Delivered
<1> QED BY <1>1, DeliveryInvariant, PTL

\* At most one success mail per order.
THEOREM MailedOnce == Spec => []MailedAtMostOnce
<1>1. DeliveryInv => MailedAtMostOnce
  BY DEF DeliveryInv, RowInv, MailedAtMostOnce
<1> QED BY <1>1, DeliveryInvariant, PTL

\* A paid order never becomes cancellable again and a completed one is left
\* for a refund only, whatever a worker with an old view of it does.
THEOREM NotTakenBack == Spec => NeverTakenBack
<1> DEFINE Kept ==
      \A o \in Orders :
        /\ paidAt[o] => status'[o] \in {"PAID", "RECHARGING", "FAILED"} \cup Closed
        /\ status[o] \in Closed => status'[o] \in Closed
<1>1. ASSUME TypeOK, DeliveryInv, [Next]_vars PROVE Kept
  <2>1. RowInv'
    BY <1>1, RowKept
  <2>2. RowAdvances
    BY <1>1, RowsAdvance
  <2> QED BY <2>1, <2>2 DEF RowInv, RowAdvances
<1>2. Spec => [][Kept]_vars
  BY <1>1, TypeCorrect, DeliveryInvariant, PTL DEF Spec
<1> QED BY <1>2 DEF NeverTakenBack

-----------------------------------------------------------------------------
(* Refinement of PaymentDelivery. *)

\* A step that changes nothing PaymentDelivery speaks of.
MappingUnchanged ==
    /\ \A o \in Orders : (upstream'[o] = "full") <=> (upstream[o] = "full")
    /\ granted' = granted
    /\ \A o \in Orders : rebated'[o] <=> rebated[o]
    /\ \A o \in Orders : (status'[o] \in Closed) <=> (status[o] \in Closed)
    /\ \A o \in Orders : (ack'[o] = "ok") <=> (ack[o] = "ok")

\* The statements that do not pay, deliver, settle, complete or answer nil.
Quiet ==
    \/ \E w \in Workers :
          \/ InvokeProvider(w) \/ SaveDetails(w) \/ MarkCreateFailed(w) \/ ConfirmPayment(w)
          \/ ToPaid(w) \/ AcquireLease(w) \/ ReloadLease(w) \/ LookupCode(w) \/ CreateCode(w)
          \/ RedeemChecks(w) \/ AssignChecks(w) \/ MarkFailed(w) \/ QueryUpstream(w)
          \/ PersistTradeNo(w) \/ CloseUpstream(w) \/ CancelCas(w) \/ SaveDetailsFails(w)
          \/ DeliveryFails(w) \/ Crash(w)
    \/ \E w \in Workers, o \in Orders :
          \/ CreateOrder(w, o) \/ Webhook(w, o) \/ RetryFulfillment(w, o)
          \/ CancelOrder(w, o) \/ ExpireTimedOutOrders(w, o) \/ VerifyOrder(w, o)
    \/ \E o \in Orders : RequestRefund(o)
    \/ Tick

\* All other statements leave the promise's state as it is.
LEMMA MappingKept ==
    ASSUME TypeOK, DeliveryInv, Quiet \/ UNCHANGED vars
    PROVE  MappingUnchanged
<1> USE ConstantsAssumption DEF TypeOK, TypeOfRows, TypeOfWorkers,
        DeliveryInv, LedgerInv, RowInv, WorkerInv, Closed, MappingUnchanged
<1>1. CASE UNCHANGED vars
  BY <1>1 DEF vars, rowVars, deliveryVars, workerVars
<1>2. ASSUME NEW w \in Workers, InvokeProvider(w) PROVE MappingUnchanged
  BY <1>2 DEF InvokeProvider, GoTo, Fault, rowVars, deliveryVars, workerVars
<1>3. ASSUME NEW w \in Workers, SaveDetails(w) PROVE MappingUnchanged
  BY <1>3 DEF SaveDetails, Write, Return, Release, GoTo, deliveryVars
<1>4. ASSUME NEW w \in Workers, MarkCreateFailed(w) PROVE MappingUnchanged
  BY <1>4 DEF MarkCreateFailed, Write, Return, Release, GoTo, deliveryVars
<1>5. ASSUME NEW w \in Workers, ConfirmPayment(w) PROVE MappingUnchanged
  BY <1>5 DEF ConfirmPayment, GoTo, Return, Release, ConfirmChecks, rowVars,
      deliveryVars, workerVars
<1>6. ASSUME NEW w \in Workers, ToPaid(w) PROVE MappingUnchanged
  BY <1>6 DEF ToPaid, Write, GoTo, PayableRow, rowVars, deliveryVars,
      workerVars
<1>7. ASSUME NEW w \in Workers, AcquireLease(w) PROVE MappingUnchanged
  BY <1>7 DEF AcquireLease, Write, GoTo, Claimable, rowVars, deliveryVars,
      workerVars
<1>8. ASSUME NEW w \in Workers, ReloadLease(w) PROVE MappingUnchanged
  BY <1>8 DEF ReloadLease, GoTo, Return, Release, rowVars, deliveryVars,
      workerVars
<1>9. ASSUME NEW w \in Workers, LookupCode(w) PROVE MappingUnchanged
  BY <1>9 DEF LookupCode, GoTo, Fault, ResolveRedeemAction, rowVars,
      deliveryVars, workerVars
<1>10. ASSUME NEW w \in Workers, CreateCode(w) PROVE MappingUnchanged
  BY <1>10 DEF CreateCode, GoTo, rowVars, deliveryVars, workerVars
<1>11. ASSUME NEW w \in Workers, RedeemChecks(w) PROVE MappingUnchanged
  BY <1>11 DEF RedeemChecks, GoTo, rowVars, deliveryVars, workerVars
<1>12. ASSUME NEW w \in Workers, AssignChecks(w) PROVE MappingUnchanged
  BY <1>12 DEF AssignChecks, GoTo, rowVars, deliveryVars, workerVars
<1>13. ASSUME NEW w \in Workers, MarkFailed(w) PROVE MappingUnchanged
  BY <1>13 DEF MarkFailed, Write, Return, Release, GoTo, HoldsLease,
      deliveryVars
<1>14. ASSUME NEW w \in Workers, QueryUpstream(w) PROVE MappingUnchanged
  BY <1>14 DEF QueryUpstream, GoTo, Fault, NotPaid, Return, Release, rowVars,
      deliveryVars, workerVars
<1>15. ASSUME NEW w \in Workers, PersistTradeNo(w) PROVE MappingUnchanged
  BY <1>15 DEF PersistTradeNo, Write, GoTo, deliveryVars
<1>16. ASSUME NEW w \in Workers, CloseUpstream(w) PROVE MappingUnchanged
  BY <1>16 DEF CloseUpstream, GoTo, rowVars, deliveryVars, workerVars
<1>17. ASSUME NEW w \in Workers, CancelCas(w) PROVE MappingUnchanged
  BY <1>17 DEF CancelCas, Write, Return, Release, GoTo, Cancellable,
      FinalStatus, deliveryVars
<1>18. ASSUME NEW w \in Workers, SaveDetailsFails(w) PROVE MappingUnchanged
  BY <1>18 DEF SaveDetailsFails, GoTo, Fault, rowVars, deliveryVars,
      workerVars
<1>19. ASSUME NEW w \in Workers, DeliveryFails(w) PROVE MappingUnchanged
  BY <1>19 DEF DeliveryFails, GoTo, Fault, rowVars, deliveryVars, workerVars
<1>20. ASSUME NEW w \in Workers, Crash(w) PROVE MappingUnchanged
  BY <1>20 DEF Crash, Return, Release, GoTo, Fault, rowVars, deliveryVars,
      workerVars
<1>21. ASSUME NEW w \in Workers, NEW o \in Orders, CreateOrder(w, o) PROVE MappingUnchanged
  BY <1>21 DEF CreateOrder, Write, Begin, GoTo, deliveryVars
<1>22. ASSUME NEW w \in Workers, NEW o \in Orders, Webhook(w, o) PROVE MappingUnchanged
  BY <1>22 DEF Webhook, Begin, GoTo, rowVars, deliveryVars, workerVars
<1>23. ASSUME NEW w \in Workers, NEW o \in Orders, RetryFulfillment(w, o) PROVE MappingUnchanged
  BY <1>23 DEF RetryFulfillment, Begin, GoTo, Retryable, rowVars,
      deliveryVars, workerVars
<1>24. ASSUME NEW w \in Workers, NEW o \in Orders, CancelOrder(w, o) PROVE MappingUnchanged
  BY <1>24 DEF CancelOrder, Begin, GoTo, rowVars, deliveryVars, workerVars
<1>25. ASSUME NEW w \in Workers, NEW o \in Orders, ExpireTimedOutOrders(w, o) PROVE MappingUnchanged
  BY <1>25 DEF ExpireTimedOutOrders, Begin, GoTo, rowVars, deliveryVars,
      workerVars
<1>26. ASSUME NEW w \in Workers, NEW o \in Orders, VerifyOrder(w, o) PROVE MappingUnchanged
  BY <1>26 DEF VerifyOrder, Begin, GoTo, rowVars, deliveryVars, workerVars
<1>27. ASSUME NEW o \in Orders, RequestRefund(o) PROVE MappingUnchanged
  BY <1>27 DEF RequestRefund, Write, deliveryVars, workerVars
<1>28. CASE Tick
  BY <1>28 DEF Tick, Fault, Overruns, deliveryVars, workerVars
<1> QED BY <1>1, <1>2, <1>3, <1>4, <1>5, <1>6, <1>7, <1>8, <1>9, <1>10, <1>11,
      <1>12, <1>13, <1>14, <1>15, <1>16, <1>17, <1>18, <1>19, <1>20, <1>21,
      <1>22, <1>23, <1>24, <1>25, <1>26, <1>27, <1>28 DEF Quiet

\* A step of PaymentDelivery on one order is a step of PaymentDelivery.
LEMMA StepOfOne ==
    ASSUME NEW o \in Orders,
           \/ Delivery!APay(o) \/ Delivery!AGive(o) \/ Delivery!ASettle(o)
           \/ Delivery!AClose(o) \/ Delivery!AAnswer(o)
    PROVE  [Delivery!ANext]_(Delivery!avars)
<1>1. Delivery!ANext
  BY Zenon DEF Delivery!ANext
<1> QED BY <1>1

\* Answering nil is AAnswer: "ok" is only said of a delivered order.
LEMMA NilIsAnswer ==
    ASSUME TypeOK, NEW w \in Workers, pc[w] # "idle",
           NEW kind \in {"ok", "late", "blind"}, ReturnNil(w, kind),
           kind = "ok" => granted[ord[w]] = 1,
           UNCHANGED <<status, upstream, granted, rebated>>
    PROVE  [Delivery!ANext]_(Delivery!avars)
<1>1. PICK o \in Orders : o = ord[w]
  BY DEF TypeOK, TypeOfWorkers
<1>2. CASE entry[w] # "webhook"
  BY <1>2 DEF ReturnNil, Delivery!avars
<1>3. CASE entry[w] = "webhook"
  <2>1. ack' = [ack EXCEPT ![o] = kind]
    BY <1>1, <1>3 DEF ReturnNil
  <2>2. ack \in [Orders -> {"none", "ok", "late", "blind"}]
    BY DEF TypeOK, TypeOfWorkers
  <2>5. /\ {p \in Orders : upstream'[p] = "full"} = {p \in Orders : upstream[p] = "full"}
        /\ {p \in Orders : rebated'[p]} = {p \in Orders : rebated[p]}
        /\ {p \in Orders : status'[p] \in Closed} = {p \in Orders : status[p] \in Closed}
        /\ granted' = granted
    OBVIOUS
  <2>3. CASE kind = "ok"
    <3>1. {p \in Orders : ack'[p] = "ok"} = {p \in Orders : ack[p] = "ok"} \cup {o}
      BY <1>1, <2>1, <2>2, <2>3
    <3>2. granted[o] = 1
      BY <1>1, <2>3
    <3>3. Delivery!AAnswer(o)
      BY <3>1, <3>2, <2>5 DEF Delivery!AAnswer
    <3> QED BY <1>1, <3>3, StepOfOne
  <2>4. CASE kind # "ok"
    <3>1. {p \in Orders : ack'[p] = "ok"} = {p \in Orders : ack[p] = "ok"} \ {o}
      BY <1>1, <2>1, <2>2, <2>4
    <3>2. Delivery!AAnswer(o)
      BY <3>1, <2>5 DEF Delivery!AAnswer
    <3> QED BY <1>1, <3>2, StepOfOne
  <2> QED BY <2>3, <2>4
<1> QED BY <1>2, <1>3

\* Every step of the service is a step of PaymentDelivery or none.
LEMMA StepRefines ==
    ASSUME TypeOK, DeliveryInv, [Next]_vars
    PROVE  [Delivery!ANext]_(Delivery!avars)
<1> USE DEF TypeOK, TypeOfRows, TypeOfWorkers, DeliveryInv, LedgerInv, WorkerInv
<1>1. CASE Quiet \/ UNCHANGED vars
  <2>1. MappingUnchanged
    BY <1>1, MappingKept
  <2> QED BY <2>1 DEF MappingUnchanged, Delivery!avars
<1>2. ASSUME NEW o \in Orders, Pay(o) PROVE [Delivery!ANext]_(Delivery!avars)
  <2>1. PICK amount \in {"full", "wrong"} : upstream' = [upstream EXCEPT ![o] = amount]
    BY <1>2 DEF Pay
  <2>2. UNCHANGED <<status, granted, rebated, ack>>
    BY <1>2 DEF Pay, rowVars, deliveryVars
  <2>3. CASE amount = "full"
    <3>1. {p \in Orders : upstream'[p] = "full"} = {p \in Orders : upstream[p] = "full"} \cup {o}
      BY <2>1, <2>3
    <3>2. Delivery!APay(o)
      BY <2>2, <3>1 DEF Delivery!APay
    <3> QED BY <3>2, StepOfOne
  <2>4. CASE amount = "wrong"
    <3>1. {p \in Orders : upstream'[p] = "full"} = {p \in Orders : upstream[p] = "full"}
      BY <1>2, <2>1, <2>4 DEF Pay
    <3> QED BY <2>2, <3>1 DEF Delivery!avars
  <2> QED BY <2>3, <2>4
<1>3. ASSUME NEW w \in Workers, RedeemTx(w) \/ AssignTx(w) PROVE [Delivery!ANext]_(Delivery!avars)
  <2>1. PICK o \in Orders : o = ord[w] /\ upstream[o] = "full"
    BY <1>3 DEF RedeemTx, AssignTx, Confirmed, Delivering
  <2>2. UNCHANGED <<status, upstream, rebated, ack>>
    BY <1>3 DEF RedeemTx, AssignTx, rowVars
  <2>3. CASE granted' = granted
    BY <2>2, <2>3 DEF Delivery!avars
  <2>4. CASE granted' # granted
    <3>1. granted' = [granted EXCEPT ![o] = 1] /\ granted[o] = 0
      BY <1>3, <2>1, <2>4 DEF RedeemTx, AssignTx, UseMatches, AuditInsertable
    <3>2. Delivery!AGive(o)
      BY <2>1, <2>2, <3>1 DEF Delivery!AGive
    <3> QED BY <2>1, <3>2, StepOfOne
  <2> QED BY <2>3, <2>4
<1>4. ASSUME NEW w \in Workers, ApplyRebate(w) PROVE [Delivery!ANext]_(Delivery!avars)
  <2>1. PICK o \in Orders : o = ord[w] /\ granted[o] = 1
    BY <1>4 DEF ApplyRebate
  <2>2. UNCHANGED <<status, upstream, granted, ack>>
    BY <1>4 DEF ApplyRebate, rowVars
  <2>3. CASE rebated[o]
    BY <1>4, <2>1, <2>2, <2>3 DEF ApplyRebate, RebateClaimable, Delivery!avars
  <2>4. CASE ~rebated[o]
    <3>1. rebated' = [rebated EXCEPT ![o] = TRUE]
      BY <1>4, <2>1, <2>4 DEF ApplyRebate, RebateClaimable
    <3>2. {p \in Orders : rebated'[p]} = {p \in Orders : rebated[p]} \cup {o}
      BY <2>1, <3>1
    <3>3. o \notin {p \in Orders : rebated[p]}
      BY <2>4, Zenon
    <3>4. Delivery!ASettle(o)
      BY <2>1, <2>2, <3>2, <3>3 DEF Delivery!ASettle
    <3> QED BY <2>1, <3>4, StepOfOne
  <2> QED BY <2>3, <2>4
<1>5. ASSUME NEW w \in Workers, MarkCompleted(w) PROVE [Delivery!ANext]_(Delivery!avars)
  <2>1. PICK o \in Orders : o = ord[w] /\ rebated[o]
    BY <1>5 DEF MarkCompleted
  <2>2. UNCHANGED <<upstream, granted, rebated, ack>>
    BY <1>5 DEF MarkCompleted, deliveryVars
  <2>3. CASE HoldsLease(w)
    <3>1. status' = [status EXCEPT ![o] = "COMPLETED"]
      BY <1>5, <2>1, <2>3 DEF MarkCompleted, Write
    <3>2. {p \in Orders : status'[p] \in Closed} = {p \in Orders : status[p] \in Closed} \cup {o}
      BY <2>1, <3>1 DEF Closed
    <3>3. o \in {p \in Orders : rebated[p]}
      BY <2>1, Zenon
    <3>4. Delivery!AClose(o)
      BY <2>1, <2>2, <3>2, <3>3 DEF Delivery!AClose
    <3> QED BY <2>1, <3>4, StepOfOne
  <2>4. CASE ~HoldsLease(w)
    BY <1>5, <2>2, <2>4 DEF MarkCompleted, rowVars, Delivery!avars
  <2> QED BY <2>3, <2>4
<1>6. ASSUME NEW w \in Workers,
             \/ AlreadyProcessed(w) \/ ExecuteFulfillment(w) \/ LeaseLost(w) \/ CompleteLost(w)
             \/ Notify(w) \/ ReadFailsSilently(w)
      PROVE  [Delivery!ANext]_(Delivery!avars)
  <2>1. pc[w] # "idle" /\ UNCHANGED <<status, upstream, granted, rebated>>
    BY <1>6 DEF AlreadyProcessed, ExecuteFulfillment, LeaseLost, CompleteLost, Notify,
       ReadFailsSilently, rowVars, deliveryVars
  <2>2. CASE UNCHANGED ack
    BY <2>1, <2>2 DEF Delivery!avars
  <2>3. CASE ack' # ack
    <3>1. \/ ReturnNil(w, "late") \/ ReturnNil(w, "blind")
          \/ ReturnNil(w, "ok") /\ (status[ord[w]] \in Closed \/ rebated[ord[w]])
      BY <1>6, <2>3 DEF AlreadyProcessed, ExecuteFulfillment, LeaseLost, CompleteLost, Notify,
         ReadFailsSilently, Return, ResumableStatuses, Closed, Statuses
    <3>2. status[ord[w]] \in Closed \/ rebated[ord[w]] => granted[ord[w]] = 1
      BY <2>1 DEF RowInv
    <3>3. CASE ReturnNil(w, "ok") /\ (status[ord[w]] \in Closed \/ rebated[ord[w]])
      BY <2>1, <3>2, <3>3, NilIsAnswer
    <3>4. CASE ReturnNil(w, "late") \/ ReturnNil(w, "blind")
      BY <2>1, <3>4, NilIsAnswer
    <3> QED BY <3>1, <3>3, <3>4
  <2> QED BY <2>2, <2>3
<1> QED BY <1>1, <1>2, <1>3, <1>4, <1>5, <1>6 DEF Next, Proceed, Quiet

\* The service implements PaymentDelivery: for any orders, workers and faults,
\* payment, delivery, rebate and completion happen in this order, once each.
THEOREM Refinement == Spec => DeliverySpec
<1>1. Init => Delivery!AInit
  BY DEF Init, Closed, Delivery!AInit
<1>2. TypeOK /\ DeliveryInv /\ [Next]_vars => [Delivery!ANext]_(Delivery!avars)
  BY StepRefines
<1> QED BY <1>1, <1>2, TypeCorrect, DeliveryInvariant, PTL DEF Spec, DeliverySpec, Delivery!ASpec
=============================================================================
