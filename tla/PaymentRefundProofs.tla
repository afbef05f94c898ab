------------------------ MODULE PaymentRefundProofs ------------------------
(***************************************************************************)
(* Proofs about PaymentRefund, for any number of requests and of faults    *)
(* and at every provider.  RefundInv says that the status REFUNDING is a   *)
(* lock, that a finalization works as if it had one, and that a deduction  *)
(* is under way, final, or on record as not undone; each part holds until  *)
(* the history variables say what the code leaves open.                    *)
(***************************************************************************)
EXTENDS PaymentRefund, TLAPS

-----------------------------------------------------------------------------
(* Type correctness. *)

\* Answering a request keeps the types of its fields.
LEMMA ReturnType ==
    ASSUME RefundTypeOK, NEW w \in Workers, Return(w)
    PROVE  /\ pc' \in [Workers -> {"idle", "lock", "auditPending", "auditOk"} \cup Executing \cup Finalizing]
           /\ was' \in [Workers -> Refundable \cup {"none"}]
           /\ take' \in [Workers -> BOOLEAN] /\ asked' \in [Workers -> BOOLEAN]
           /\ clean' \in [Workers -> BOOLEAN]
BY DEF RefundTypeOK, Return, GoTo

\* Every step of every request, of the user and of the provider keeps the types.
LEMMA TypeStep == RefundTypeOK /\ [Next]_vars => RefundTypeOK'
<1> SUFFICES ASSUME RefundTypeOK, [Next]_vars PROVE RefundTypeOK'
    OBVIOUS
<1> USE RefundAssumption DEF RefundAssumption
<1>1. CASE UNCHANGED vars
    BY <1>1 DEF RefundTypeOK, vars, order, history, rows, request
<1>2. CASE RequestRefund
    BY <1>2 DEF RefundTypeOK, RequestRefund, order, history, rows, request, Refundable
<1>3. CASE ProviderSettles
    BY <1>3 DEF RefundTypeOK, ProviderSettles, order, history, rows, request
<1>4. ASSUME NEW w \in Workers, PrepareRefund(w) PROVE RefundTypeOK'
    BY <1>4 DEF RefundTypeOK, PrepareRefund, GoTo, order, history, rows
<1>5. ASSUME NEW w \in Workers, LockOrder(w) PROVE RefundTypeOK'
    BY <1>5, ReturnType DEF RefundTypeOK, LockOrder, GoTo, order, history, rows, Executing
<1>6. ASSUME NEW w \in Workers, CheckRow(w) PROVE RefundTypeOK'
  <2>1. lost' \in BOOLEAN /\ take' \in [Workers -> BOOLEAN]
    BY <1>6, Zenon DEF RefundTypeOK, CheckRow, Fault
  <2>2. pc' \in [Workers -> {"idle", "lock", "auditPending", "auditOk"} \cup Executing \cup Finalizing]
    BY <1>6, SMT DEF RefundTypeOK, CheckRow, GoTo, Executing
  <2>3. faults' \in 0..MaxFaults
    BY <1>6, SMT DEF RefundTypeOK, CheckRow, Fault
  <2>4. UNCHANGED <<query, sub, status, deducted, revoked, failedRow, pendingRow, successRow,
                    refund, was, asked, clean, settled, blurred>>
    BY <1>6 DEF CheckRow, order, rows
  <2> QED
    BY <2>1, <2>2, <2>3, <2>4 DEF RefundTypeOK
<1>7. ASSUME NEW w \in Workers, Deduct(w) PROVE RefundTypeOK'
  <2>1. revoked' \in BOOLEAN /\ lost' \in BOOLEAN
    BY <1>7, Zenon DEF RefundTypeOK, Deduct, TakeBack, history
  <2>2. deducted' \in Int
    <3>1. deducted' = deducted \/ deducted' = deducted + 1
      BY <1>7, Zenon DEF Deduct, TakeBack
    <3> QED
      BY <3>1, SMT DEF RefundTypeOK
  <2>3. pc' \in [Workers -> {"idle", "lock", "auditPending", "auditOk"} \cup Executing \cup Finalizing]
    BY <1>7, SMT DEF RefundTypeOK, Deduct, GoTo, Executing
  <2>4. faults' \in 0..MaxFaults
    BY <1>7, SMT DEF RefundTypeOK, Deduct, Fault
  <2>5. UNCHANGED <<query, sub, status, failedRow, pendingRow, successRow, refund, was,
                    take, asked, clean, settled, blurred>>
    BY <1>7 DEF Deduct, order, history, rows
  <2> QED
    BY <2>1, <2>2, <2>3, <2>4, <2>5 DEF RefundTypeOK
<1>8. ASSUME NEW w \in Workers, DeductFails(w) PROVE RefundTypeOK'
  <2>1. revoked' \in BOOLEAN /\ lost' \in BOOLEAN
    BY <1>8, Zenon DEF RefundTypeOK, DeductFails, TakeBack
  <2>2. deducted' \in Int
    <3>1. deducted' = deducted \/ deducted' = deducted + 1
      BY <1>8, Zenon DEF DeductFails, TakeBack
    <3> QED
      BY <3>1, SMT DEF RefundTypeOK
  <2>3. pc' \in [Workers -> {"idle", "lock", "auditPending", "auditOk"} \cup Executing \cup Finalizing]
    BY <1>8, SMT DEF RefundTypeOK, DeductFails, GoTo, Executing
  <2>4. faults' \in 0..MaxFaults
    BY <1>8, SMT DEF RefundTypeOK, DeductFails, Fault
  <2>5. UNCHANGED <<query, sub, status, failedRow, pendingRow, successRow, refund, was,
                    take, asked, clean, settled, blurred>>
    BY <1>8 DEF DeductFails, order, rows
  <2> QED
    BY <2>1, <2>2, <2>3, <2>4, <2>5 DEF RefundTypeOK
<1>9. ASSUME NEW w \in Workers, GatewayRefund(w) PROVE RefundTypeOK'
    BY <1>9 DEF RefundTypeOK, GatewayRefund, GoTo, order, history, rows, Executing
<1>10. ASSUME NEW w \in Workers, RollbackRefund(w) PROVE RefundTypeOK'
  <2>1. deducted' \in Int
    <3>1. deducted' = deducted \/ deducted' = deducted - 1
      BY <1>10, Zenon DEF RollbackRefund, GiveBack
    <3> QED
      BY <3>1, SMT DEF RefundTypeOK
  <2>2. failedRow' \in BOOLEAN
    BY <1>10, Zenon DEF RefundTypeOK, RollbackRefund
  <2>3. /\ pc' \in [Workers -> {"idle", "lock", "auditPending", "auditOk"} \cup Executing \cup Finalizing]
        /\ clean' \in [Workers -> BOOLEAN]
    <3>1. /\ \E ok \in BOOLEAN : AfterRollback(w, ok)
          /\ pc[w] = "undoFailed" \/ pc[w] = "undoPending"
      BY <1>10, Zenon DEF RollbackRefund
    <3> QED
      BY <3>1, SMT DEF RefundTypeOK, AfterRollback, GoTo, Executing
  <2> QED
    BY <1>10, <2>1, <2>2, <2>3, SMT DEF RefundTypeOK, RollbackRefund, order, history
<1>11. ASSUME NEW w \in Workers, RollbackFails(w) PROVE RefundTypeOK'
  <2>1. failedRow' \in BOOLEAN /\ lost' \in BOOLEAN
    BY <1>11, Zenon DEF RefundTypeOK, RollbackFails
  <2> QED
    BY <1>11, <2>1, SMT DEF RefundTypeOK, RollbackFails, AfterRollback, GiveBack, Fault, GoTo, Executing, order
<1>12. ASSUME NEW w \in Workers, RestoreStatus(w) PROVE RefundTypeOK'
    BY <1>12, ReturnType DEF RefundTypeOK, RestoreStatus, RestoredStatus, order, history, rows, Refundable
<1>13. ASSUME NEW w \in Workers, MarkRefundFailed(w) PROVE RefundTypeOK'
    BY <1>13, ReturnType DEF RefundTypeOK, MarkRefundFailed, order, history, rows, Refundable
<1>14. ASSUME NEW w \in Workers, MarkRefundPending(w) PROVE RefundTypeOK'
    BY <1>14 DEF RefundTypeOK, MarkRefundPending, PendingStatus, GoTo, order, history, rows, Refundable
<1>15. ASSUME NEW w \in Workers, AuditPending(w) PROVE RefundTypeOK'
    BY <1>15, ReturnType DEF RefundTypeOK, AuditPending, order, history
<1>16. ASSUME NEW w \in Workers, MarkRefundOk(w) PROVE RefundTypeOK'
    BY <1>16 DEF RefundTypeOK, MarkRefundOk, GoTo, order, history, rows
<1>17. ASSUME NEW w \in Workers, AuditOk(w) PROVE RefundTypeOK'
    BY <1>17, ReturnType DEF RefundTypeOK, AuditOk, order, history
<1>18. ASSUME NEW w \in Workers, QueryAndFinalize(w) PROVE RefundTypeOK'
    BY <1>18 DEF RefundTypeOK, QueryAndFinalize, GoTo, order, history, rows, Finalizing
<1>19. ASSUME NEW w \in Workers, ReadDetail(w) PROVE RefundTypeOK'
  <2>1. pc' \in [Workers -> {"idle", "lock", "auditPending", "auditOk"} \cup Executing \cup Finalizing]
    BY <1>19, SMT DEF RefundTypeOK, ReadDetail, GoTo, Finalizing
  <2>2. clean' \in [Workers -> BOOLEAN]
    BY <1>19, Zenon DEF RefundTypeOK, ReadDetail
  <2>3. blurred' \in BOOLEAN
    BY <1>19, Zenon DEF RefundTypeOK, ReadDetail
  <2>4. faults' \in 0..MaxFaults
    BY <1>19, SMT DEF RefundTypeOK, ReadDetail, Fault
  <2> QED
    <3>1. UNCHANGED <<query, sub, status, deducted, revoked, failedRow, pendingRow, successRow,
                      refund, was, take, asked, settled, lost>>
      BY <1>19, Zenon DEF ReadDetail, order, rows
    <3> QED
      BY <2>1, <2>2, <2>3, <2>4, <3>1 DEF RefundTypeOK
<1>20. ASSUME NEW w \in Workers, QueryRefund(w) PROVE RefundTypeOK'
  <2>1. FinalAmount(w) \in BOOLEAN
    BY Zenon DEF FinalAmount
  <2> QED
    BY <1>20, <2>1, ReturnType, SMT DEF RefundTypeOK, QueryRefund, GoTo, order, history, rows, Finalizing
<1>21. ASSUME NEW w \in Workers, FinalCheck(w) PROVE RefundTypeOK'
    BY <1>21 DEF RefundTypeOK, FinalCheck, Fault, GoTo, order, history, rows, Finalizing
<1>22. ASSUME NEW w \in Workers, FinalDeduct(w) PROVE RefundTypeOK'
  <2>1. revoked' \in BOOLEAN
    BY <1>22, Zenon DEF RefundTypeOK, FinalDeduct, TakeBack
  <2>2. deducted' \in Int
    <3>1. deducted' = deducted \/ deducted' = deducted + 1
      BY <1>22, Zenon DEF FinalDeduct, TakeBack
    <3> QED
      BY <3>1, SMT DEF RefundTypeOK
  <2>3. pc' \in [Workers -> {"idle", "lock", "auditPending", "auditOk"} \cup Executing \cup Finalizing]
    BY <1>22, ReturnType, SMT DEF RefundTypeOK, FinalDeduct, GoTo, Finalizing
  <2> QED
    <3>1. /\ was' \in [Workers -> Refundable \cup {"none"}]
          /\ take' \in [Workers -> BOOLEAN] /\ asked' \in [Workers -> BOOLEAN]
          /\ clean' \in [Workers -> BOOLEAN]
      BY <1>22, ReturnType, Zenon DEF RefundTypeOK, FinalDeduct
    <3>2. UNCHANGED <<query, sub, status, failedRow, pendingRow, successRow, refund,
                      settled, lost, blurred, faults>>
      BY <1>22 DEF FinalDeduct, order, history, rows
    <3> QED
      BY <2>1, <2>2, <2>3, <3>1, <3>2 DEF RefundTypeOK
<1>23. ASSUME NEW w \in Workers, Crash(w) PROVE RefundTypeOK'
    BY <1>23, ReturnType DEF RefundTypeOK, Crash, Fault, order, history, rows
<1> QED
    BY <1>1, <1>2, <1>3, <1>4, <1>5, <1>6, <1>7, <1>8, <1>9, <1>10, <1>11, <1>12, <1>13,
       <1>14, <1>15, <1>16, <1>17, <1>18, <1>19, <1>20, <1>21, <1>22, <1>23 DEF Next

\* Every variable keeps its type, whatever the provider supports.
THEOREM RefundTypeCorrect == Spec => []RefundTypeOK
<1>1. Init => RefundTypeOK
  <2>1. Init => faults \in 0..MaxFaults /\ deducted \in Int
    BY RefundAssumption, SMT DEF RefundAssumption, Init
  <2> QED
    BY <2>1, Zenon DEF Init, RefundTypeOK, Refundable
<1> QED
    BY <1>1, TypeStep, PTL DEF Spec

-----------------------------------------------------------------------------
(* History. *)

\* What went unnoticed stays on the history, and so does a blurred finalization.
LEMMA HistoryStays == ASSUME [Next]_vars PROVE (lost => lost') /\ (blurred => blurred')
<1>1. CASE UNCHANGED vars
    BY <1>1, SMT DEF vars, history
<1>2. CASE RequestRefund \/ ProviderSettles
    BY <1>2, SMT DEF RequestRefund, ProviderSettles, history
<1>3. ASSUME NEW w \in Workers,
             \/ LockOrder(w) \/ Deduct(w) \/ GatewayRefund(w) \/ RollbackRefund(w)
             \/ RestoreStatus(w) \/ MarkRefundFailed(w) \/ MarkRefundPending(w)
             \/ AuditPending(w) \/ AuditOk(w) \/ QueryRefund(w) \/ FinalDeduct(w)
      PROVE  UNCHANGED history
    BY <1>3, Zenon DEF LockOrder, Deduct, GatewayRefund, RollbackRefund, RestoreStatus,
       MarkRefundFailed, MarkRefundPending, AuditPending, AuditOk, QueryRefund, FinalDeduct
<1>4. ASSUME NEW w \in Workers,
             \/ CheckRow(w) \/ DeductFails(w) \/ RollbackFails(w) \/ MarkRefundOk(w) \/ FinalCheck(w)
      PROVE  (lost => lost') /\ blurred' = blurred
  <2>1. blurred' = blurred
    BY <1>4, Zenon DEF CheckRow, DeductFails, RollbackFails, MarkRefundOk, FinalCheck
  <2>2. lost => lost'
    BY <1>4, Zenon DEF CheckRow, DeductFails, RollbackFails, MarkRefundOk, FinalCheck
  <2> QED
    BY <2>1, <2>2
<1>5. ASSUME NEW w \in Workers,
             PrepareRefund(w) \/ QueryAndFinalize(w) \/ ReadDetail(w) \/ Crash(w)
      PROVE  lost' = lost /\ (blurred => blurred')
    BY <1>5, Zenon DEF PrepareRefund, QueryAndFinalize, ReadDetail, Crash
<1> QED
    BY <1>1, <1>2, <1>3, <1>4, <1>5 DEF Next, history

-----------------------------------------------------------------------------
(* The lock. *)

\* A worker that goes on, executing or finalizing, and leaves the status alone
\* keeps what it has.
LEMMA LockKept ==
    ASSUME RefundTypeOK, LockInv, NEW w \in Workers, NEW p,
           pc' = [pc EXCEPT ![w] = p],
           \/ pc[w] \in Executing /\ p \in Executing
           \/ pc[w] \in Finalizing /\ p \in Finalizing,
           UNCHANGED <<query, status, successRow>>
    PROVE  LockInv'
BY SMT DEF RefundTypeOK, LockInv, Executing, Finalizing

\* A worker that stands outside afterwards may have changed the status if it was
\* executing or finalizing.
LEMMA LockLeft ==
    ASSUME RefundTypeOK, LockInv, NEW w \in Workers,
           NEW p \in {"idle", "auditPending", "auditOk"},
           pc' = [pc EXCEPT ![w] = p],
           status' = status \/ pc[w] \in Executing \/ pc[w] \in Finalizing,
           p = "auditOk" => status' = "REFUNDED",
           UNCHANGED <<query, successRow>>
    PROVE  LockInv'
BY SMT DEF RefundTypeOK, LockInv, Executing, Finalizing

\* Every step keeps the lock exclusive while no finalization is blurred.
LEMMA LockStep ==
    ASSUME RefundTypeOK, LockInv, [Next]_vars, ~blurred'
    PROVE  LockInv'
<1>1. CASE UNCHANGED vars
    BY <1>1, SMT DEF LockInv, vars, request, order, rows
<1>2. CASE RequestRefund
  <2>1. status = "COMPLETED" /\ UNCHANGED <<pc, query, successRow>>
    BY <1>2, Zenon DEF RequestRefund, request, order, rows
  <2> QED
    BY <2>1, SMT DEF LockInv
<1>3. CASE ProviderSettles
    BY <1>3, SMT DEF LockInv, ProviderSettles, request, order, rows
<1>4. ASSUME NEW w \in Workers, PrepareRefund(w) PROVE LockInv'
  <2>1. /\ pc' = [pc EXCEPT ![w] = "lock"] /\ UNCHANGED <<query, status, successRow>>
        /\ \A v \in Workers : pc[v] \notin Finalizing
    BY <1>4, Zenon DEF PrepareRefund, GoTo, order, rows
  <2> QED
    BY <2>1, SMT DEF RefundTypeOK, LockInv, Executing, Finalizing
<1>5. ASSUME NEW w \in Workers, LockOrder(w) PROVE LockInv'
  <2>1. CASE Lockable
    <3>1. /\ pc[w] = "lock" /\ status' = "REFUNDING" /\ UNCHANGED <<query, successRow>>
          /\ \E p \in {"check", "gateway"} : pc' = [pc EXCEPT ![w] = p]
      BY <1>5, <2>1, Zenon DEF LockOrder, GoTo, order, rows
    <3>2. /\ \A v \in Workers : pc[v] \notin Executing /\ pc[v] \notin Finalizing /\ pc[v] # "auditOk"
          /\ ~successRow
      BY <2>1, <3>1, SMT DEF Lockable, Refundable, LockInv, Finalizing
    <3> QED
      BY <3>1, <3>2, SMT DEF RefundTypeOK, LockInv, Executing, Finalizing
  <2>2. CASE ~Lockable
    <3>1. pc' = [pc EXCEPT ![w] = "idle"] /\ UNCHANGED <<query, status, successRow>>
      BY <1>5, <2>2, Zenon DEF LockOrder, Return, GoTo, order, rows
    <3> QED
      BY <3>1, LockLeft
  <2> QED
    BY <2>1, <2>2
<1>6. ASSUME NEW w \in Workers, CheckRow(w) \/ Deduct(w) \/ DeductFails(w) \/ GatewayRefund(w)
      PROVE  LockInv'
  <2>1. /\ pc[w] \in {"check", "deduct", "gateway"} /\ UNCHANGED <<query, status, successRow>>
        /\ \E p \in {"gateway", "deduct", "restore", "markOk", "undoPending", "undoFailed"} :
              pc' = [pc EXCEPT ![w] = p]
    BY <1>6, Zenon DEF CheckRow, Deduct, DeductFails, GatewayRefund, GoTo, order, rows
  <2> QED
    BY <2>1, LockKept DEF Executing
<1>7. ASSUME NEW w \in Workers, RollbackRefund(w) \/ RollbackFails(w) PROVE LockInv'
  <2>1. /\ pc[w] = "undoFailed" \/ pc[w] = "undoPending"
        /\ UNCHANGED <<query, status, successRow>>
        /\ \E ok \in BOOLEAN : AfterRollback(w, ok)
    BY <1>7, Zenon DEF RollbackRefund, RollbackFails, order
  <2>2. PICK ok \in BOOLEAN : AfterRollback(w, ok)
    BY <2>1
  <2> DEFINE p == CASE pc[w] = "undoPending" -> "markPending"
                    [] pc[w] = "undoFailed" -> IF ok THEN "restore" ELSE "markFailed"
  <2>3. p \in {"markPending", "restore", "markFailed"}
    BY <2>1
  <2>4. pc' = [pc EXCEPT ![w] = p]
    BY <2>2, Zenon DEF AfterRollback, GoTo
  <2> HIDE DEF p
  <2> QED
    BY <2>1, <2>3, <2>4, LockKept DEF Executing
<1>8. ASSUME NEW w \in Workers,
             \/ RestoreStatus(w) \/ MarkRefundFailed(w) \/ Crash(w)
             \/ MarkRefundPending(w) \/ AuditPending(w)
      PROVE  LockInv'
  <2>1. /\ \E p \in {"idle", "auditPending"} : pc' = [pc EXCEPT ![w] = p]
        /\ status' = status \/ pc[w] \in {"restore", "markFailed", "finalFailed", "markPending"}
        /\ UNCHANGED <<query, successRow>>
    BY <1>8, Zenon DEF RestoreStatus, MarkRefundFailed, Crash, MarkRefundPending, AuditPending,
       Return, GoTo, order, rows
  <2> QED
    BY <2>1, LockLeft DEF Executing, Finalizing
<1>9. ASSUME NEW w \in Workers, MarkRefundOk(w) PROVE LockInv'
  <2>1. /\ pc' = [pc EXCEPT ![w] = "auditOk"] /\ pc[w] \in {"markOk", "finalOk"}
        /\ status' = "REFUNDED" /\ UNCHANGED <<query, successRow>>
    BY <1>9, Zenon DEF MarkRefundOk, GoTo, order, rows
  <2> QED
    BY <2>1, LockLeft DEF Executing, Finalizing
<1>10. ASSUME NEW w \in Workers, AuditOk(w) PROVE LockInv'
  <2>1. /\ pc[w] = "auditOk" /\ pc' = [pc EXCEPT ![w] = "idle"]
        /\ UNCHANGED <<query, status>>
    BY <1>10, Zenon DEF AuditOk, Return, GoTo, order
  <2> QED
    BY <2>1, SMT DEF RefundTypeOK, LockInv, Executing, Finalizing
<1>11. ASSUME NEW w \in Workers, QueryAndFinalize(w) PROVE LockInv'
  <2>1. /\ pc' = [pc EXCEPT ![w] = "detail"] /\ status = "REFUND_PENDING" /\ query
        /\ UNCHANGED <<query, status, successRow>>
        /\ \A v \in Workers : pc[v] \notin {"lock"} \cup Finalizing
    BY <1>11, Zenon DEF QueryAndFinalize, GoTo, order, rows
  <2> QED
    BY <2>1, SMT DEF RefundTypeOK, LockInv, Executing, Finalizing
<1>12. ASSUME NEW w \in Workers,
              ReadDetail(w) \/ QueryRefund(w) \/ FinalCheck(w) \/ FinalDeduct(w)
       PROVE  LockInv'
  <2>1. /\ pc[w] \in {"detail", "query", "finalCheck", "finalDeduct"}
        /\ UNCHANGED <<query, status, successRow>>
        /\ \E p \in {"query", "finalCheck", "finalFailed", "idle", "finalDeduct", "finalOk"} :
              pc' = [pc EXCEPT ![w] = p]
    BY <1>12, Zenon DEF ReadDetail, QueryRefund, FinalCheck, FinalDeduct, Return, GoTo, order, rows
  <2> QED
    BY <2>1, LockKept, LockLeft DEF Finalizing
<1> QED
    BY <1>1, <1>2, <1>3, <1>4, <1>5, <1>6, <1>7, <1>8, <1>9, <1>10, <1>11, <1>12 DEF Next

-----------------------------------------------------------------------------
(* The deduction. *)

\* While a worker executes or finalizes, its steps concern the plan of no other.
LEMMA OthersPlan ==
    ASSUME LockInv, NEW w \in Workers, NEW v \in Workers, v # w, PlanOf(v),
           pc[w] \in Executing \/ pc[w] \in Finalizing,
           pc'[v] = pc[v], take'[v] = take[v], asked'[v] = asked[v]
    PROVE  PlanOf(v)'
<1>1. pc[v] \notin Executing /\ pc[v] \notin Finalizing
    BY SMT DEF LockInv
<1> QED
    BY <1>1, SMT DEF PlanOf, Executing, Finalizing

\* A step that leaves the deduction alone and ends a request, or all but ends it.
LEMMA PlanLeft ==
    ASSUME RefundTypeOK, PlanInv, NEW w \in Workers,
           NEW p \in {"idle", "auditPending", "auditOk", "detail"},
           pc' = [pc EXCEPT ![w] = p],
           \A v \in Workers :
               v # w => take'[v] = take[v] /\ asked'[v] = asked[v] /\ clean'[v] = clean[v],
           UNCHANGED <<deducted, failedRow, revoked>>
    PROVE  PlanInv'
<1> SUFFICES ASSUME NEW v \in Workers PROVE PlanOf(v)'
    BY DEF PlanInv
<1>1. CASE v = w
    BY <1>1, SMT DEF RefundTypeOK, PlanOf
<1>2. CASE v # w
  <2>1. pc'[v] = pc[v] /\ take'[v] = take[v] /\ asked'[v] = asked[v] /\ clean'[v] = clean[v]
    BY <1>2, SMT DEF RefundTypeOK
  <2> QED
    BY <2>1, Zenon DEF PlanInv, PlanOf
<1> QED
    BY <1>1, <1>2

\* Answering a request leaves the fields of the others alone.
LEMMA ReturnOthers ==
    ASSUME RefundTypeOK, NEW w \in Workers, Return(w)
    PROVE  /\ pc' = [pc EXCEPT ![w] = "idle"]
           /\ \A v \in Workers :
               v # w => take'[v] = take[v] /\ asked'[v] = asked[v] /\ clean'[v] = clean[v]
BY DEF RefundTypeOK, Return, GoTo

\* The plans after a step of the worker that executes or finalizes: its own, and
\* those of the others, which do neither.
LEMMA PlanMoved ==
    ASSUME RefundTypeOK, LockInv, PlanInv, NEW w \in Workers, NEW p,
           pc[w] \in Executing \/ pc[w] \in Finalizing, pc' = [pc EXCEPT ![w] = p],
           \A v \in Workers : v # w => take'[v] = take[v] /\ asked'[v] = asked[v],
           PlanOf(w)'
    PROVE  PlanInv'
<1> SUFFICES ASSUME NEW v \in Workers, v # w PROVE PlanOf(v)'
    BY DEF PlanInv
<1>1. pc'[v] = pc[v]
    BY SMT DEF RefundTypeOK
<1> QED
    BY <1>1, OthersPlan DEF PlanInv

\* A step that leaves the order's account alone keeps it, unless it takes away the
\* worker that is about to write REFUNDED.
LEMMA DeductionKept ==
    ASSUME RefundTypeOK, DeductionInv, NEW w \in Workers, NEW p,
           pc' = [pc EXCEPT ![w] = p], pc[w] # "finalOk",
           UNCHANGED <<sub, status, deducted, revoked, failedRow, settled>>
    PROVE  DeductionInv'
<1>1. (\E v \in Workers : pc[v] = "finalOk") => \E v \in Workers : pc'[v] = "finalOk"
    BY SMT DEF RefundTypeOK
<1> QED
    BY <1>1, Zenon DEF DeductionInv

\* A deduction that is not on record is under way: nobody finds one when the order
\* can be refunded and nobody finalizes it, or when one is just finalizing.
LEMMA NothingDeducted ==
    ASSUME LockInv, DeductionInv, NEW w \in Workers,
           \/ pc[w] = "lock" /\ status \in Refundable
           \/ pc[w] \in Finalizing /\ pc[w] # "finalOk"
    PROVE  deducted = 1 => failedRow
<1>1. \A v \in Workers : pc[v] # "finalOk"
  <2>1. pc[w] \in {"lock"} \cup Finalizing /\ pc[w] # "finalOk"
    BY DEF Finalizing
  <2> SUFFICES ASSUME NEW v \in Workers, pc[v] = "finalOk" PROVE FALSE
    OBVIOUS
  <2>2. pc[v] \in Finalizing
    BY DEF Finalizing
  <2> QED
    BY <2>1, <2>2, Zenon DEF LockInv
<1>2. status # "REFUNDING" /\ status # "REFUNDED"
    BY SMT DEF LockInv, Refundable
<1> QED
    BY <1>1, <1>2, SMT DEF DeductionInv

\* Every step keeps the account of the deduction, while no failure goes unnoticed
\* and no finalization is blurred.
LEMMA DeductionStep ==
    ASSUME RefundTypeOK, LockInv, DeductionInv, PlanInv, [Next]_vars, ~lost', ~blurred'
    PROVE  DeductionInv' /\ PlanInv'
<1>1. CASE UNCHANGED vars
    BY <1>1, Zenon DEF DeductionInv, PlanInv, PlanOf, vars, order, rows, request, history
<1>2. CASE RequestRefund
  <2>1. /\ status = "COMPLETED" /\ status' = "REFUND_REQUESTED"
        /\ UNCHANGED <<sub, deducted, revoked, failedRow, settled, pc, take, asked, clean>>
    BY <1>2, Zenon DEF RequestRefund, order, rows, request, history
  <2>2. PlanInv'
    BY <2>1, Zenon DEF PlanInv, PlanOf
  <2> QED
    BY <2>1, <2>2, SMT DEF DeductionInv
<1>3. CASE ProviderSettles
  <2>1. UNCHANGED <<status, sub, deducted, revoked, failedRow, settled, pc, take, asked, clean>>
    BY <1>3, Zenon DEF ProviderSettles, order, rows, request, history
  <2> QED
    BY <2>1, Zenon DEF DeductionInv, PlanInv, PlanOf
<1>4. ASSUME NEW w \in Workers, PrepareRefund(w) PROVE DeductionInv' /\ PlanInv'
  <2>1. /\ UNCHANGED <<sub, status, deducted, revoked, failedRow, settled, clean>>
        /\ pc[w] = "idle" /\ pc' = [pc EXCEPT ![w] = "lock"]
    BY <1>4, Zenon DEF PrepareRefund, GoTo, order, rows
  <2>2. DeductionInv'
    BY <2>1, DeductionKept
  <2>3. PlanInv'
    <3> SUFFICES ASSUME NEW v \in Workers PROVE PlanOf(v)'
      BY DEF PlanInv
    <3>1. CASE v = w
      BY <1>4, <3>1, SMT DEF RefundTypeOK, PrepareRefund, GoTo, PlanOf
    <3>2. CASE v # w
      <4>1. pc'[v] = pc[v] /\ take'[v] = take[v] /\ asked'[v] = asked[v]
        BY <1>4, <3>2, SMT DEF RefundTypeOK, PrepareRefund, GoTo
      <4> QED
        BY <2>1, <4>1, Zenon DEF PlanInv, PlanOf
    <3> QED
      BY <3>1, <3>2
  <2> QED
    BY <2>2, <2>3
<1>5. ASSUME NEW w \in Workers, LockOrder(w) PROVE DeductionInv' /\ PlanInv'
  <2>1. pc[w] = "lock" /\ UNCHANGED <<sub, deducted, revoked, failedRow, settled>>
    BY <1>5, Zenon DEF LockOrder, order, rows, history
  <2>2. CASE Lockable
    <3>1. /\ status \in Refundable /\ status' = "REFUNDING"
          /\ pc' = [pc EXCEPT ![w] = IF take[w] THEN "check" ELSE "gateway"]
          /\ UNCHANGED <<take, asked, clean>>
      BY <1>5, <2>2, Zenon DEF LockOrder, GoTo, Lockable
    <3>2. deducted = 0 \/ failedRow
      BY <2>1, <3>1, NothingDeducted, SMT DEF DeductionInv
    <3>3. DeductionInv'
      BY <2>1, <3>1, SMT DEF DeductionInv
    <3>4. PlanInv'
      <4> SUFFICES ASSUME NEW v \in Workers PROVE PlanOf(v)'
        BY DEF PlanInv
      <4>1. CASE v = w
        <5>1. take[w] = asked[w] /\ take[w] \in BOOLEAN
          BY <2>1, Zenon DEF PlanInv, PlanOf, RefundTypeOK
        <5>2. pc'[w] = IF take[w] THEN "check" ELSE "gateway"
          BY <3>1, SMT DEF RefundTypeOK
        <5> QED
          BY <2>1, <3>1, <3>2, <4>1, <5>1, <5>2, SMT DEF PlanOf
      <4>2. CASE v # w
        <5>1. pc'[v] = pc[v]
          BY <3>1, <4>2, SMT DEF RefundTypeOK
        <5> QED
          BY <2>1, <3>1, <5>1, Zenon DEF PlanInv, PlanOf
      <4> QED
        BY <4>1, <4>2
    <3> QED
      BY <3>3, <3>4
  <2>3. CASE ~Lockable
    <3>1. Return(w) /\ UNCHANGED status
      BY <1>5, <2>3, Zenon DEF LockOrder
    <3>2. DeductionInv'
      BY <2>1, <3>1, ReturnOthers, DeductionKept
    <3> QED
      BY <2>1, <3>1, <3>2, ReturnOthers, PlanLeft
  <2> QED
    BY <2>2, <2>3
<1>6. ASSUME NEW w \in Workers, CheckRow(w) PROVE DeductionInv' /\ PlanInv'
  <2>1. /\ UNCHANGED <<sub, status, deducted, revoked, failedRow, settled, asked>>
        /\ pc[w] = "check"
        /\ \/ failedRow /\ take' = [take EXCEPT ![w] = FALSE] /\ pc' = [pc EXCEPT ![w] = "gateway"]
           \/ ~failedRow /\ UNCHANGED take /\ pc' = [pc EXCEPT ![w] = "deduct"]
    BY <1>6, Zenon DEF CheckRow, GoTo, AlreadyDeducted, order, rows
  <2>2. DeductionInv'
    BY <2>1, DeductionKept
  <2>3. PlanOf(w)
    BY DEF PlanInv
  <2>4. PlanOf(w)'
    BY <2>1, <2>3, SMT DEF PlanOf, RefundTypeOK
  <2>5. \A v \in Workers : v # w => take'[v] = take[v] /\ asked'[v] = asked[v]
    BY <2>1, SMT DEF RefundTypeOK
  <2> QED
    BY <2>1, <2>2, <2>4, <2>5, PlanMoved DEF Executing
<1>7. ASSUME NEW w \in Workers, Deduct(w) PROVE DeductionInv' /\ PlanInv'
  <2>1. /\ UNCHANGED <<sub, status, failedRow, settled, take, asked>>
        /\ pc[w] = "deduct"
        /\ \/ deducted' = deducted + 1 /\ pc' = [pc EXCEPT ![w] = "gateway"]
           \/ deducted' = deducted /\ pc' = [pc EXCEPT ![w] = "restore"]
        /\ revoked' = revoked \/ revoked' = FALSE \/ revoked' = sub
    BY <1>7, Zenon DEF Deduct, TakeBack, GoTo, order, rows, history
  <2>2. PlanOf(w) /\ status = "REFUNDING" /\ deducted = 0 /\ take[w]
    BY <2>1, SMT DEF PlanInv, PlanOf, LockInv, Executing
  <2>3. DeductionInv'
    BY <2>1, <2>2, SMT DEF DeductionInv
  <2>4. PlanOf(w)'
    <3>1. \/ pc'[w] = "gateway" /\ deducted' = 1
          \/ pc'[w] = "restore" /\ deducted' = 0
      BY <2>1, <2>2, SMT DEF RefundTypeOK
    <3>2. take'[w] /\ ~failedRow'
      BY <2>1, <2>2, SMT DEF DeductionInv
    <3>3. CASE pc'[w] = "gateway" /\ deducted' = 1
      BY <3>2, <3>3, SMT DEF PlanOf
    <3>4. CASE pc'[w] = "restore" /\ deducted' = 0
      BY <3>4, SMT DEF PlanOf
    <3> QED
      BY <3>1, <3>3, <3>4
  <2> QED
    BY <2>1, <2>3, <2>4, PlanMoved DEF Executing
<1>8. ASSUME NEW w \in Workers, DeductFails(w) PROVE DeductionInv' /\ PlanInv'
  <2>1. /\ UNCHANGED <<sub, status, deducted, revoked, failedRow, settled, take, asked>>
        /\ pc[w] = "deduct" /\ pc' = [pc EXCEPT ![w] = "restore"]
    BY <1>8, Zenon DEF DeductFails, GoTo, order, rows
  <2>2. DeductionInv'
    BY <2>1, DeductionKept
  <2>3. PlanOf(w)'
    BY <2>1, SMT DEF PlanInv, PlanOf, RefundTypeOK
  <2> QED
    BY <2>1, <2>2, <2>3, PlanMoved DEF Executing
<1>9. ASSUME NEW w \in Workers, GatewayRefund(w) PROVE DeductionInv' /\ PlanInv'
  <2>1. /\ UNCHANGED <<sub, status, deducted, revoked, failedRow, settled, take, asked>>
        /\ pc[w] = "gateway"
        /\ \E p \in {"markOk", "undoPending", "undoFailed"} : pc' = [pc EXCEPT ![w] = p]
    BY <1>9, Zenon DEF GatewayRefund, GoTo, order, rows, history
  <2>2. DeductionInv'
    BY <2>1, DeductionKept
  <2>3. PlanOf(w)'
    BY <2>1, SMT DEF PlanInv, PlanOf, RefundTypeOK
  <2> QED
    BY <2>1, <2>2, <2>3, PlanMoved DEF Executing
<1>10. ASSUME NEW w \in Workers, RollbackRefund(w) \/ RollbackFails(w)
       PROVE  DeductionInv' /\ PlanInv'
  <2>1. /\ UNCHANGED <<sub, revoked, status, settled, take, asked>>
        /\ pc[w] \in {"undoFailed", "undoPending"}
        /\ \E ok \in BOOLEAN : AfterRollback(w, ok)
        /\ \/ ~take[w] /\ UNCHANGED <<deducted, failedRow>>
           \/ take[w] /\ deducted' = deducted - 1 /\ UNCHANGED failedRow
           \/ take[w] /\ deducted' = deducted /\ failedRow'
    <3>1. CASE RollbackRefund(w)
      BY <3>1, Zenon DEF RollbackRefund, GiveBack, order, history
    <3>2. CASE RollbackFails(w)
      BY <3>2, Zenon DEF RollbackFails, GiveBack, order
    <3> QED
      BY <1>10, <3>1, <3>2
  <2>2. PICK ok \in BOOLEAN : AfterRollback(w, ok)
    BY <2>1
  <2> DEFINE p == CASE pc[w] = "undoPending" -> "markPending"
                    [] pc[w] = "undoFailed" -> IF ok THEN "restore" ELSE "markFailed"
  <2>3. p \in {"markPending", "restore", "markFailed"}
    BY <2>1
  <2>4. pc' = [pc EXCEPT ![w] = p]
    BY <2>2, Zenon DEF AfterRollback, GoTo
  <2> HIDE DEF p
  <2>5. PlanOf(w) /\ status = "REFUNDING"
    BY <2>1, SMT DEF PlanInv, LockInv, Executing
  <2>6. DeductionInv'
    BY <2>1, <2>5, SMT DEF DeductionInv, PlanOf
  <2>7. deducted' = 1 => failedRow'
    BY <2>1, <2>5, SMT DEF DeductionInv, PlanOf
  <2>8. PlanOf(w)'
    <3>1. pc'[w] \in {"markPending", "restore", "markFailed"}
      BY <2>3, <2>4, SMT DEF RefundTypeOK
    <3> QED
      BY <2>7, <3>1, SMT DEF PlanOf
  <2> QED
    <3>1. pc[w] \in Executing /\ take' = take /\ asked' = asked
      BY <2>1, Zenon DEF Executing
    <3> QED
      BY <2>4, <2>6, <2>8, <3>1, PlanMoved
<1>11. ASSUME NEW w \in Workers, RestoreStatus(w) \/ MarkRefundFailed(w) \/ MarkRefundPending(w)
       PROVE  DeductionInv' /\ PlanInv'
  <2>1. /\ UNCHANGED <<sub, deducted, revoked, failedRow, settled>>
        /\ pc[w] \in {"restore", "markFailed", "finalFailed", "markPending"}
        /\ status' \in {RestoredStatus(was[w]), "REFUND_FAILED", "REFUND_PENDING"}
    BY <1>11, Zenon DEF RestoreStatus, MarkRefundFailed, MarkRefundPending, PendingStatus,
       order, rows, history
  <2>2. status' # "REFUNDED"
    BY <2>1, SMT DEF RestoredStatus
  <2>3. deducted = 1 => failedRow
    BY <2>1, SMT DEF PlanInv, PlanOf
  <2>4. DeductionInv'
    BY <2>1, <2>2, <2>3, SMT DEF DeductionInv
  <2>5. \A v \in Workers :
            v # w => take'[v] = take[v] /\ asked'[v] = asked[v] /\ clean'[v] = clean[v]
    BY <1>11, ReturnOthers DEF RestoreStatus, MarkRefundFailed, MarkRefundPending
  <2>6. \E p \in {"idle", "auditPending"} : pc' = [pc EXCEPT ![w] = p]
    BY <1>11, Zenon DEF RestoreStatus, MarkRefundFailed, MarkRefundPending, Return, GoTo
  <2> QED
    BY <2>1, <2>4, <2>5, <2>6, PlanLeft
<1>12. ASSUME NEW w \in Workers, MarkRefundOk(w) PROVE DeductionInv' /\ PlanInv'
  <2>1. /\ UNCHANGED <<sub, deducted, revoked, failedRow, take, asked, clean>>
        /\ pc[w] \in {"markOk", "finalOk"}
        /\ status' = "REFUNDED" /\ settled' = asked[w]
        /\ pc' = [pc EXCEPT ![w] = "auditOk"]
    BY <1>12, Zenon DEF MarkRefundOk, GoTo, order, rows
  <2>2. asked[w] => deducted = 1
    BY <2>1, SMT DEF DeductionInv, PlanInv, PlanOf
  <2>3. DeductionInv'
    BY <2>1, <2>2, SMT DEF DeductionInv
  <2> QED
    BY <2>1, <2>3, PlanLeft
<1>13. ASSUME NEW w \in Workers, AuditPending(w) \/ AuditOk(w) \/ Crash(w)
       PROVE  DeductionInv' /\ PlanInv'
  <2>1. /\ Return(w) /\ UNCHANGED <<sub, status, deducted, revoked, failedRow, settled>>
        /\ pc[w] # "finalOk"
    BY <1>13 DEF AuditPending, AuditOk, Crash, order, rows, history
  <2>2. DeductionInv'
    BY <2>1, ReturnOthers, DeductionKept
  <2> QED
    BY <2>1, <2>2, ReturnOthers, PlanLeft
<1>14. ASSUME NEW w \in Workers, QueryAndFinalize(w) PROVE DeductionInv' /\ PlanInv'
  <2>1. /\ UNCHANGED <<sub, status, deducted, revoked, failedRow, settled, take, asked, clean>>
        /\ pc[w] = "idle" /\ pc' = [pc EXCEPT ![w] = "detail"]
    BY <1>14, Zenon DEF QueryAndFinalize, GoTo, order, rows
  <2>2. DeductionInv'
    BY <2>1, DeductionKept
  <2> QED
    BY <2>1, <2>2, PlanLeft
<1>15. ASSUME NEW w \in Workers, ReadDetail(w) PROVE DeductionInv' /\ PlanInv'
  <2>1. /\ UNCHANGED <<sub, status, deducted, revoked, failedRow, settled, take, asked>>
        /\ pc[w] = "detail" /\ pc' = [pc EXCEPT ![w] = "query"]
        /\ ~(failedRow /\ clean'[w])
    BY <1>15, Zenon DEF ReadDetail, GoTo, order, rows
  <2>2. DeductionInv'
    BY <2>1, DeductionKept
  <2>3. PlanOf(w)'
    BY <2>1, SMT DEF PlanOf, RefundTypeOK
  <2> QED
    BY <2>1, <2>2, <2>3, PlanMoved DEF Finalizing
<1>16. ASSUME NEW w \in Workers, QueryRefund(w) PROVE DeductionInv' /\ PlanInv'
  <2>1. /\ UNCHANGED <<sub, status, deducted, revoked, failedRow, settled>>
        /\ pc[w] = "query"
    BY <1>16, Zenon DEF QueryRefund, order, rows, history
  <2>2. deducted = 1 => failedRow
    BY <2>1, NothingDeducted DEF Finalizing
  <2>3. CASE /\ take' = [take EXCEPT ![w] = FinalAmount(w)]
             /\ asked' = [asked EXCEPT ![w] = FinalAmount(w)]
             /\ pc' = [pc EXCEPT ![w] = "finalCheck"]
    <3>1. FinalAmount(w) => deducted = 0 /\ ~revoked
      BY <2>1, <2>2, SMT DEF FinalAmount, PlanInv, PlanOf, DeductionInv
    <3>2. /\ pc'[w] = "finalCheck" /\ take'[w] = FinalAmount(w) /\ asked'[w] = FinalAmount(w)
          /\ \A v \in Workers : v # w => take'[v] = take[v] /\ asked'[v] = asked[v]
      BY <2>3, SMT DEF RefundTypeOK
    <3>3. PlanOf(w)'
      BY <2>1, <3>1, <3>2, SMT DEF PlanOf
    <3> QED
      BY <2>1, <2>3, <3>2, <3>3, DeductionKept, PlanMoved DEF Finalizing
  <2>4. CASE pc' = [pc EXCEPT ![w] = "finalFailed"] /\ UNCHANGED <<take, asked>>
    <3>1. PlanOf(w)'
      BY <2>1, <2>2, <2>4, SMT DEF PlanOf, RefundTypeOK
    <3> QED
      BY <2>1, <2>4, <3>1, DeductionKept, PlanMoved DEF Finalizing
  <2>5. CASE Return(w)
    BY <2>1, <2>5, ReturnOthers, DeductionKept, PlanLeft
  <2> QED
    BY <1>16, <2>3, <2>4, <2>5, Zenon DEF QueryRefund, GoTo
<1>17. ASSUME NEW w \in Workers, FinalCheck(w) PROVE DeductionInv' /\ PlanInv'
  <2>1. /\ UNCHANGED <<sub, status, deducted, revoked, failedRow, settled, take, asked>>
        /\ pc[w] = "finalCheck"
        /\ \/ pc' = [pc EXCEPT ![w] = IF take[w] /\ ~successRow THEN "finalDeduct" ELSE "finalOk"]
           \/ pc' = [pc EXCEPT ![w] = IF take[w] THEN "finalDeduct" ELSE "finalOk"]
    BY <1>17, Zenon DEF FinalCheck, GoTo, order, rows
  <2>2. ~successRow
    BY <2>1, SMT DEF LockInv, Finalizing
  <2>3. pc' = [pc EXCEPT ![w] = IF take[w] THEN "finalDeduct" ELSE "finalOk"]
    BY <2>1, <2>2
  <2>4. DeductionInv'
    BY <2>1, <2>3, DeductionKept
  <2>5. PlanOf(w)'
    BY <2>1, <2>3, SMT DEF PlanInv, PlanOf, RefundTypeOK
  <2> QED
    BY <2>1, <2>3, <2>4, <2>5, PlanMoved DEF Finalizing
<1>18. ASSUME NEW w \in Workers, FinalDeduct(w) PROVE DeductionInv' /\ PlanInv'
  <2>1. /\ UNCHANGED <<sub, status, failedRow, settled>> /\ pc[w] = "finalDeduct"
    BY <1>18, Zenon DEF FinalDeduct, order, rows, history
  <2>2. deducted = 0 /\ ~revoked /\ take[w]
    BY <2>1, SMT DEF PlanInv, PlanOf
  <2>3. /\ deducted' = deducted + 1 /\ (revoked' = FALSE \/ revoked' = sub)
        /\ pc' = [pc EXCEPT ![w] = "finalOk"] /\ UNCHANGED <<take, asked>>
    BY <1>18, <2>2, Zenon DEF FinalDeduct, TakeBack, GoTo
  <2>4. pc'[w] = "finalOk" /\ deducted' = 1
    BY <2>2, <2>3, SMT DEF RefundTypeOK
  <2>5. DeductionInv'
    <3>1. status = "REFUND_PENDING"
      BY <2>1, SMT DEF LockInv, Finalizing
    <3> QED
      BY <2>1, <2>3, <2>4, <3>1, SMT DEF DeductionInv
  <2>6. PlanOf(w)'
    BY <2>4, SMT DEF PlanOf
  <2> QED
    BY <2>1, <2>3, <2>5, <2>6, PlanMoved DEF Finalizing
<1> QED
    BY <1>1, <1>2, <1>3, <1>4, <1>5, <1>6, <1>7, <1>8, <1>9, <1>10, <1>11, <1>12, <1>13,
       <1>14, <1>15, <1>16, <1>17, <1>18 DEF Next

-----------------------------------------------------------------------------
(* Theorems. *)

\* RefundInv holds in every reachable state, at every provider: the order's status
\* is a lock for ExecuteRefund, QueryAndFinalizeRefund works alone unless its
\* history says otherwise, and every deduction is under way, final, or on record
\* as not undone.
THEOREM RefundInvariant == Spec => []RefundInv
<1>1. Init => RefundInv
  <2> SUFFICES ASSUME Init PROVE RefundInv
    OBVIOUS
  <2>1. /\ \A w \in Workers : pc[w] = "idle"
        /\ status = "COMPLETED" /\ deducted = 0 /\ revoked = FALSE
        /\ failedRow = FALSE /\ successRow = FALSE
    BY DEF Init
  <2>2. LockInv
    BY <2>1 DEF LockInv, Executing, Finalizing
  <2>3. DeductionInv /\ PlanInv
    BY <2>1, SMT DEF DeductionInv, PlanInv, PlanOf
  <2> QED
    BY <2>2, <2>3 DEF RefundInv
<1>2. RefundTypeOK /\ RefundInv /\ [Next]_vars => RefundInv'
  <2> SUFFICES ASSUME RefundTypeOK, RefundInv, [Next]_vars, ~blurred'
               PROVE  LockInv' /\ (~lost' => DeductionInv' /\ PlanInv')
    BY Zenon DEF RefundInv
  <2>1. LockInv /\ (~lost' => DeductionInv /\ PlanInv)
    BY HistoryStays, Zenon DEF RefundInv
  <2>2. LockInv'
    BY <2>1, LockStep
  <2>3. ~lost' => DeductionInv' /\ PlanInv'
    BY <2>1, DeductionStep
  <2> QED
    BY <2>2, <2>3
<1> QED
    BY <1>1, <1>2, RefundTypeCorrect, PTL DEF Spec

\* OneRefundAtATime for any number of administrators and crashes (the UPDATE of
\* ExecuteRefund to REFUNDING).
THEOREM RefundsExclude == Spec => []OneRefundAtATime
<1>1. RefundInv => OneRefundAtATime
    BY Zenon DEF RefundInv, LockInv, OneRefundAtATime
<1> QED
    BY <1>1, RefundInvariant, PTL

\* What the invariant says of the deduction.
LEMMA DeductionAccounted ==
    RefundTypeOK /\ RefundInv => DeductedOnce /\ NothingKept /\ RefundIsSettled
<1> SUFFICES ASSUME DeductionInv PROVE DeductedOnce /\ NothingKept /\ RefundIsSettled
    BY Zenon DEF RefundInv, DeductedOnce, NothingKept, RefundIsSettled
<1> QED
    BY SMT DEF DeductionInv, DeductedOnce, NothingKept, RefundIsSettled, Refundable

\* DeductedOnce: however often it is retried or finalized, a refund deducts once
\* (ExecuteRefund, RollbackRefund, applyRefundFinalDeduction).
THEOREM ChargedOnce == Spec => []DeductedOnce
    BY DeductionAccounted, RefundInvariant, RefundTypeCorrect, PTL

\* NothingKept: a refund that is not carried out has undone its deduction or put
\* it on record (handleGwFail, markRefundPending).
THEOREM FailedKeepsNothing == Spec => []NothingKept
    BY DeductionAccounted, RefundInvariant, RefundTypeCorrect, PTL

\* RefundIsSettled: a refund that is carried out has deducted (markRefundOk).
THEOREM SucceededIsCharged == Spec => []RefundIsSettled
    BY DeductionAccounted, RefundInvariant, RefundTypeCorrect, PTL

\* Steps that change the status of a refunded order, or the deduction, are those
\* of a worker that executes or finalizes.
LEMMA OnlyTheLockHolder ==
    ASSUME RefundTypeOK, LockInv, [Next]_vars
    PROVE  /\ status = "REFUNDED" => status' = "REFUNDED"
           /\ deducted' # deducted => status \in {"REFUNDING", "REFUND_PENDING"}
           /\ \/ deducted' = deducted \/ deducted' = deducted - 1
              \/ \E w \in Workers : pc[w] \in {"deduct", "finalDeduct"}
<1>1. CASE UNCHANGED vars
    BY <1>1, Zenon DEF vars
<1>2. CASE RequestRefund \/ ProviderSettles
    BY <1>2, SMT DEF RequestRefund, ProviderSettles
<1>3. ASSUME NEW w \in Workers,
             \/ PrepareRefund(w) \/ AuditPending(w) \/ AuditOk(w) \/ CheckRow(w) \/ GatewayRefund(w)
             \/ Crash(w) \/ QueryAndFinalize(w) \/ ReadDetail(w) \/ QueryRefund(w) \/ FinalCheck(w)
      PROVE  UNCHANGED <<status, deducted>>
    BY <1>3, Zenon DEF PrepareRefund, AuditPending, AuditOk, CheckRow, GatewayRefund, Crash,
       QueryAndFinalize, ReadDetail, QueryRefund, FinalCheck
<1>4. ASSUME NEW w \in Workers, LockOrder(w)
      PROVE  deducted' = deducted /\ (status = "REFUNDED" => status' = status)
  <2>1. deducted' = deducted /\ (Lockable \/ status' = status)
    BY <1>4, Zenon DEF LockOrder
  <2> QED
    BY <2>1, SMT DEF Lockable, Refundable
<1>5. ASSUME NEW w \in Workers,
             RestoreStatus(w) \/ MarkRefundFailed(w) \/ MarkRefundPending(w) \/ MarkRefundOk(w)
      PROVE  deducted' = deducted /\ status # "REFUNDED"
  <2>1. /\ deducted' = deducted
        /\ pc[w] \in {"restore", "markFailed", "finalFailed", "markPending", "markOk", "finalOk"}
    BY <1>5, Zenon DEF RestoreStatus, MarkRefundFailed, MarkRefundPending, MarkRefundOk
  <2> QED
    BY <2>1, SMT DEF LockInv, Executing, Finalizing
<1>6. ASSUME NEW w \in Workers, Deduct(w) \/ DeductFails(w) \/ FinalDeduct(w)
      PROVE  /\ status' = status /\ status \in {"REFUNDING", "REFUND_PENDING"}
             /\ pc[w] \in {"deduct", "finalDeduct"}
  <2>1. pc[w] \in {"deduct", "finalDeduct"} /\ status' = status
    BY <1>6, Zenon DEF Deduct, DeductFails, FinalDeduct
  <2> QED
    BY <2>1, SMT DEF LockInv, Executing, Finalizing
<1>7. ASSUME NEW w \in Workers, RollbackRefund(w) \/ RollbackFails(w)
      PROVE  status = "REFUNDING" /\ (deducted' = deducted \/ deducted' = deducted - 1)
  <2>1. /\ pc[w] \in {"undoFailed", "undoPending"}
        /\ deducted' = deducted \/ deducted' = deducted - 1
    BY <1>7, Zenon DEF RollbackRefund, RollbackFails, GiveBack
  <2> QED
    BY <2>1, SMT DEF LockInv, Executing
<1> QED
    BY <1>1, <1>2, <1>3, <1>4, <1>5, <1>6, <1>7 DEF Next

\* RefundedStays: no later step of any request takes a refunded order back,
\* although the statements after the lock ask for the id alone.
THEOREM RefundedIsFinal == Spec => RefundedStays
<1>1. RefundTypeOK /\ RefundInv /\ [Next]_vars
      => [~blurred /\ status = "REFUNDED" => status' = "REFUNDED"]_vars
    BY OnlyTheLockHolder DEF RefundInv
<1> QED
    BY <1>1, RefundTypeCorrect, RefundInvariant, PTL DEF Spec, RefundedStays

\* RollbackFailureSkips: once the log says that a deduction was not undone, nothing
\* is deducted any more, by a retry or by a finalization.
THEOREM RetriesDoNotDeductAgain == Spec => RollbackFailureSkips
<1>1. RefundTypeOK /\ RefundInv /\ [Next]_vars
      => [failedRow /\ ~lost' /\ ~blurred => deducted' <= deducted]_vars
  <2> SUFFICES ASSUME RefundTypeOK, RefundInv, [Next]_vars, failedRow, ~lost', ~blurred
               PROVE  deducted' <= deducted
    OBVIOUS
  <2>1. LockInv /\ DeductionInv /\ PlanInv
    BY HistoryStays, Zenon DEF RefundInv
  <2>2. deducted = 1
    BY <2>1, Zenon DEF DeductionInv
  <2>3. \A w \in Workers : pc[w] \notin {"deduct", "finalDeduct"}
    BY <2>1, <2>2, SMT DEF PlanInv, PlanOf
  <2>4. deducted' = deducted \/ deducted' = deducted - 1
    BY <2>1, <2>3, OnlyTheLockHolder
  <2> QED
    BY <2>4, SMT DEF RefundTypeOK
<1> QED
    BY <1>1, RefundTypeCorrect, RefundInvariant, PTL DEF Spec, RollbackFailureSkips

\* DeductedInRefundStatus: the balance is changed in a refund status only, which
\* the guard of currency changes relies on (mutateRefundBalance).
THEOREM GuardSeesRefund == Spec => DeductedInRefundStatus
<1>1. RefundTypeOK /\ RefundInv /\ [Next]_vars
      => [~blurred /\ deducted' # deducted => status # "COMPLETED"]_vars
  <2> SUFFICES ASSUME RefundTypeOK, RefundInv, [Next]_vars, ~blurred, deducted' # deducted
               PROVE  status # "COMPLETED"
    OBVIOUS
  <2>1. status \in {"REFUNDING", "REFUND_PENDING"}
    BY OnlyTheLockHolder, Zenon DEF RefundInv
  <2> QED
    BY <2>1
<1> QED
    BY <1>1, RefundTypeCorrect, RefundInvariant, PTL DEF Spec, DeductedInRefundStatus
=============================================================================
