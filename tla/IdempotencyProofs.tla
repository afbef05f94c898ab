------------------------- MODULE IdempotencyProofs -------------------------
(***************************************************************************)
(* Type correctness of Idempotency, its inductive invariant IdempotencyInv *)
(* and what follows from it, for any number of requests, payloads, crashes *)
(* and failed statements.                                                  *)
(***************************************************************************)
EXTENDS Idempotency, TLAPS

\* A claim, made n ticks after the clock was read, keeps the type of the row.
LEMMA ClaimTypes ==
    ASSUME RowType, NEW n \in 0..MaxLag
    PROVE  /\ \A i \in RowIds, f \in Fingerprints : Insert(i, f, n) => RowType'
           /\ Present /\ Reclaim(n) => RowType'
<1> USE RecordsAssumption DEF RowType, Present
<1>1. \A i \in RowIds, f \in Fingerprints : Insert(i, f, n) => RowType'
  BY DEF Insert
<1>2. Present /\ Reclaim(n) => RowType'
  BY DEF Reclaim
<1> QED BY <1>1, <1>2

\* So does every other statement, and so does a tick.
LEMMA RowTypes ==
    ASSUME RowType
    PROVE  /\ \A i : \A s \in {"succeeded", "failed_retryable"} : \A l \in Int, t \in Int :
                l <= ProcessingTimeout /\ t <= Ttl /\ Mark(i, s, l, t) => RowType'
           /\ Delete \/ Age \/ UNCHANGED row => RowType'
<1> USE RecordsAssumption DEF RowType, Present, Floor
<1>1. ASSUME NEW i, NEW s \in {"succeeded", "failed_retryable"}, NEW l \in Int, NEW t \in Int,
             l <= ProcessingTimeout, t <= Ttl, Mark(i, s, l, t)
      PROVE  RowType'
  BY <1>1 DEF Mark, row
<1>2. Delete => RowType'
  BY DEF Delete
<1>3. Age => RowType'
  BY DEF Age
<1>4. UNCHANGED row => RowType'
  BY DEF row
<1> QED BY <1>1, <1>2, <1>3, <1>4

\* The types of the requests.
RequestType ==
    /\ pc \in [Workers -> {"idle"} \cup Claiming \cup Executing]
    /\ payload \in [Workers -> Fingerprints \cup {NoFingerprint}]
    /\ lag \in [Workers -> 0..(Ttl + MaxLag)]
    /\ held \in [Workers -> RowIds \cup {NoRow}]
    /\ from \in [Workers -> {"none", "processing", "succeeded", "failed_retryable"}]
    /\ out \in [Workers -> {"none", "whole", "cut"}]
    /\ \A w \in Workers : pc[w] # "idle" => payload[w] \in Fingerprints

\* The types of the rest.
HistoryType ==
    /\ body \in {"none", "whole", "cut"}
    /\ effects \in 0..2
    /\ applied \subseteq Fingerprints /\ told \subseteq Fingerprints
    /\ overran \in BOOLEAN /\ revived \in BOOLEAN
    /\ faults \in 0..MaxFaults

\* A request that owns the row, leaves it for reclaim or returns keeps the types
\* and ClaimInv.
LEMMA RequestTypes ==
    ASSUME RequestType, ClaimInv, RowType, NEW w \in Workers
    PROVE  /\ pc[w] # "idle" /\ RowType' /\ Own(w) => RequestType' /\ ClaimInv'
           /\ pc[w] \in Claiming /\ LeaveTo(w, "reclaimExpired") => RequestType' /\ ClaimInv'
           /\ pc[w] \in Claiming /\ status = "failed_retryable" /\ LeaveTo(w, "reclaimFailed")
                => RequestType' /\ ClaimInv'
           /\ Return(w) => RequestType' /\ ClaimInv'
           /\ UNCHANGED request => RequestType' /\ ClaimInv'
<1> USE RecordsAssumption DEF RequestType, ClaimInv, Claiming, Executing
<1>1. pc[w] # "idle" /\ RowType' /\ Own(w) => RequestType' /\ ClaimInv'
  BY DEF Own, GoTo, RowType
<1>2. pc[w] \in Claiming /\ LeaveTo(w, "reclaimExpired") => RequestType' /\ ClaimInv'
  BY DEF LeaveTo, GoTo, RowType
<1>3. pc[w] \in Claiming /\ status = "failed_retryable" /\ LeaveTo(w, "reclaimFailed")
        => RequestType' /\ ClaimInv'
  BY DEF LeaveTo, GoTo, RowType
<1>4. Return(w) => RequestType' /\ ClaimInv'
  BY DEF Return, GoTo
<1>5. UNCHANGED request => RequestType' /\ ClaimInv'
  BY DEF request
<1> QED BY <1>1, <1>2, <1>3, <1>4, <1>5

\* What the two reads of the row come to: an answer, or the row left for reclaim.
LEMMA Reads ==
    ASSUME NEW w \in Workers, GetExisting(w) \/ GetLatest(w)
    PROVE  /\ pc[w] \in Claiming
           /\ UNCHANGED <<row, body, effects, applied, overran, revived, faults>>
           /\ \/ Return(w) /\ UNCHANGED told
              \/ Return(w) /\ Tell(w) /\ status = "succeeded" /\ fp = payload[w]
              \/ LeaveTo(w, "reclaimExpired") /\ Present /\ fp = payload[w] /\ Expired(lag[w])
              \/ LeaveTo(w, "reclaimFailed") /\ fp = payload[w] /\ status = "failed_retryable"
<1>1. pc[w] \in Claiming
  BY DEF GetExisting, GetLatest, Claiming
<1>2. UNCHANGED <<row, body, effects, applied, overran, revived, faults>>
  BY DEF GetExisting, GetLatest
<1> QED BY <1>1, <1>2 DEF GetExisting, GetLatest, Unusable, Decide

\* A step keeps the types and ClaimInv.
LEMMA TypeStep ==
    ASSUME IdempotencyTypeOK, ClaimInv, [Next]_vars
    PROVE  IdempotencyTypeOK' /\ ClaimInv'
<1> USE RecordsAssumption, IdempotencyAssumption
<1>1. RowType /\ RequestType /\ HistoryType
  BY DEF IdempotencyTypeOK, RequestType, HistoryType
<1>2. SUFFICES RowType' /\ RequestType' /\ ClaimInv' /\ HistoryType'
  BY DEF IdempotencyTypeOK, RequestType, HistoryType
<1>3. ASSUME NEW w \in Workers, NEW p \in Fingerprints, Execute(w, p)
      PROVE  RowType' /\ RequestType' /\ ClaimInv' /\ HistoryType'
  <2>1. RowType' /\ HistoryType'
    BY <1>1, <1>3, RowTypes DEF Execute, HistoryType, history
  <2>2. RequestType'
    BY <1>1, <1>3 DEF Execute, GoTo, RequestType, Claiming
  <2>3. ClaimInv'
    BY <1>1, <1>3 DEF Execute, GoTo, RequestType, ClaimInv, Claiming
  <2> QED BY <1>1, <2>1, <2>2, <2>3
<1>4. ASSUME NEW w \in Workers, CreateProcessing(w)
      PROVE  RowType' /\ RequestType' /\ ClaimInv' /\ HistoryType'
  <2>1. pc[w] # "idle" /\ payload[w] \in Fingerprints /\ lag[w] \in 0..MaxLag
    BY <1>1, <1>4 DEF CreateProcessing, RequestType, ClaimInv, Claiming
  <2>2. HistoryType'
    BY <1>1, <1>4 DEF CreateProcessing, HistoryType
  <2>3. CASE Own(w) /\ \E i \in RowIds : Insert(i, payload[w], lag[w])
    <3>1. RowType'
      BY <1>1, <2>1, <2>3, ClaimTypes
    <3> QED BY <1>1, <2>1, <2>2, <2>3, <3>1, RequestTypes
  <2>4. CASE GoTo(w, "get") /\ UNCHANGED <<row, body, payload, lag, held, from, out, effects>>
    <3>1. RowType'
      BY <1>1, <2>4, RowTypes
    <3>2. RequestType' /\ ClaimInv'
      BY <1>1, <2>1, <2>4 DEF GoTo, RequestType, ClaimInv, Claiming, Executing
    <3> QED BY <2>2, <3>1, <3>2
  <2> QED BY <1>4, <2>3, <2>4 DEF CreateProcessing
<1>5. ASSUME NEW w \in Workers, GetExisting(w) \/ GetLatest(w)
      PROVE  RowType' /\ RequestType' /\ ClaimInv' /\ HistoryType'
  <2>1. pc[w] \in Claiming /\ payload[w] \in Fingerprints
    BY <1>1, <1>5, Reads DEF RequestType, Claiming
  <2>2. RowType'
    BY <1>1, <1>5, RowTypes, Reads
  <2>3. told' \in {told, told \cup {payload[w]}}
    BY <1>5, Reads DEF Tell, LeaveTo
  <2>4. HistoryType'
    BY <1>1, <1>5, <2>1, <2>3, Reads DEF HistoryType
  <2>5. RequestType' /\ ClaimInv'
    BY <1>1, <1>5, <2>1, Reads, RequestTypes
  <2> QED BY <2>2, <2>4, <2>5
<1>6. ASSUME NEW w \in Workers, ReclaimExpired(w)
      PROVE  RowType' /\ RequestType' /\ ClaimInv' /\ HistoryType'
  <2>1. pc[w] # "idle" /\ lag[w] \in 0..MaxLag
    BY <1>1, <1>6 DEF ReclaimExpired, RequestType, ClaimInv, Claiming
  <2>2. HistoryType'
    <3>1. effects' \in 0..2
      BY <1>1, <1>6 DEF ReclaimExpired, HistoryType
    <3>2. revived' \in BOOLEAN
      BY <1>1, <1>6, Zenon DEF ReclaimExpired, HistoryType
    <3>3. UNCHANGED <<body, applied, told, overran, faults>>
      BY <1>6 DEF ReclaimExpired
    <3> QED BY <1>1, <3>1, <3>2, <3>3 DEF HistoryType
  <2>3. CASE Present /\ Reclaim(lag[w]) /\ Own(w)
    <3>1. RowType'
      BY <1>1, <2>1, <2>3, ClaimTypes
    <3> QED BY <1>1, <2>1, <2>2, <2>3, <3>1, RequestTypes
  <2>4. CASE /\ GoTo(w, "latest")
             /\ held' = [held EXCEPT ![w] = NoRow]
             /\ from' = [from EXCEPT ![w] = "none"]
             /\ UNCHANGED <<row, payload, lag, out, effects, revived>>
    <3>1. RowType'
      BY <1>1, <2>4, RowTypes
    <3>2. RequestType' /\ ClaimInv'
      BY <1>1, <2>1, <2>4 DEF GoTo, RequestType, ClaimInv, Claiming, Executing
    <3> QED BY <2>2, <3>1, <3>2
  <2> QED BY <1>6, <2>3, <2>4 DEF ReclaimExpired, Reclaimable
<1>7. ASSUME NEW w \in Workers, ReclaimFailed(w)
      PROVE  RowType' /\ RequestType' /\ ClaimInv' /\ HistoryType'
  <2>1. pc[w] # "idle" /\ lag[w] \in 0..MaxLag
    BY <1>1, <1>7 DEF ReclaimFailed, RequestType, ClaimInv, Claiming
  <2>2. HistoryType'
    BY <1>1, <1>7 DEF ReclaimFailed, HistoryType, history
  <2>3. RowType'
    BY <1>1, <1>7, <2>1, ClaimTypes, RowTypes DEF ReclaimFailed, Reclaimable
  <2> QED BY <1>1, <1>7, <2>1, <2>2, <2>3, RequestTypes DEF ReclaimFailed
<1>8. ASSUME NEW w \in Workers, RunOperation(w)
      PROVE  RowType' /\ RequestType' /\ ClaimInv' /\ HistoryType'
  <2>1. pc[w] = "execute" /\ payload[w] \in Fingerprints
    BY <1>1, <1>8 DEF RunOperation, RequestType
  <2>2. RowType'
    BY <1>1, <1>8, RowTypes DEF RunOperation
  <2>3. HistoryType'
    BY <1>1, <1>8, <2>1 DEF RunOperation, HistoryType
  <2>4. RequestType' /\ ClaimInv'
    BY <1>1, <1>8, <2>1 DEF RunOperation, GoTo, RequestType, ClaimInv, Claiming, Executing
  <2> QED BY <2>2, <2>3, <2>4
<1>9. ASSUME NEW w \in Workers,
             MarkSucceeded(w) \/ MarkSucceededFails(w) \/ MarkFailedRetryable(w) \/ Crash(w)
      PROVE  RowType' /\ RequestType' /\ ClaimInv' /\ HistoryType'
  <2>1. /\ pc[w] # "idle" /\ payload[w] \in Fingerprints /\ lag[w] \in Nat /\ Return(w)
        /\ out[w] \in {"none", "whole", "cut"}
    BY <1>1, <1>9 DEF MarkSucceeded, MarkSucceededFails, MarkFailedRetryable, Crash, RequestType
  <2>2. RequestType' /\ ClaimInv'
    BY <1>1, <2>1, RequestTypes
  <2>3. HistoryType'
    BY <1>1, <1>9, <2>1 DEF MarkSucceeded, MarkSucceededFails, MarkFailedRetryable, Crash,
                           Tell, Fault, HistoryType, history
  <2>4. /\ Ttl - lag[w] \in Int /\ Ttl - lag[w] <= Ttl
        /\ -MaxLag \in Int /\ -MaxLag <= ProcessingTimeout
        /\ Backoff \in Int /\ Backoff <= ProcessingTimeout
    BY <2>1
  <2>5. RowType'
    BY <1>1, <1>9, <2>4, RowTypes
    DEF MarkSucceeded, MarkSucceededFails, MarkFailedRetryable, Crash
  <2> QED BY <2>2, <2>3, <2>5
<1>10. ASSUME Cleanup \/ UNCHANGED vars
       PROVE  RowType' /\ RequestType' /\ ClaimInv' /\ HistoryType'
  <2>1. RowType'
    BY <1>1, <1>10, RowTypes DEF Cleanup, vars
  <2>2. HistoryType'
    BY <1>1, <1>10 DEF Cleanup, vars, HistoryType, history
  <2>3. RequestType' /\ ClaimInv'
    BY <1>1, <1>10 DEF Cleanup, vars, request, RequestType, ClaimInv
  <2> QED BY <2>1, <2>2, <2>3
<1>11. ASSUME Tick
       PROVE  RowType' /\ RequestType' /\ ClaimInv' /\ HistoryType'
  <2>1. RowType'
    BY <1>1, <1>11, RowTypes DEF Tick
  <2>2. HistoryType'
    <3>1. overran' \in BOOLEAN /\ faults' \in 0..MaxFaults
      <4>1. CASE Fault /\ overran' = TRUE
        BY <1>1, <4>1 DEF Fault, HistoryType
      <4>2. CASE UNCHANGED <<faults, overran>>
        BY <1>1, <4>2 DEF HistoryType
      <4> QED BY <1>11, <4>1, <4>2 DEF Tick
    <3>2. UNCHANGED <<body, effects, applied, told, revived>>
      BY <1>11 DEF Tick
    <3> QED BY <1>1, <3>1, <3>2 DEF HistoryType
  <2>3. RequestType' /\ ClaimInv'
    BY <1>1, <1>11 DEF Tick, RequestType, ClaimInv, Claiming
  <2> QED BY <2>1, <2>2, <2>3
<1> QED BY <1>3, <1>4, <1>5, <1>6, <1>7, <1>8, <1>9, <1>10, <1>11 DEF Next, Proceed

\* A request that ends or leaves a row of its own payload, where the row stays and
\* executions are only added, keeps PayloadInv.
LEMMA PayloadKept ==
    ASSUME IdempotencyTypeOK, PayloadInv, NEW w \in Workers,
           UNCHANGED <<row, applied>>
    PROVE  /\ Return(w) /\ UNCHANGED told => PayloadInv'
           /\ Return(w) /\ Tell(w) /\ payload[w] \in applied => PayloadInv'
           /\ \A p \in {"reclaimExpired", "reclaimFailed"} :
                LeaveTo(w, p) /\ Present /\ fp = payload[w] => PayloadInv'
<1> USE RecordsAssumption
    DEF IdempotencyTypeOK, RowType, row, Present, PayloadInv, GoTo, Executing, Claiming
<1>1. Return(w) /\ UNCHANGED told => PayloadInv'
  BY DEF Return
<1>2. Return(w) /\ Tell(w) /\ payload[w] \in applied => PayloadInv'
  BY DEF Return, Tell
<1>3. ASSUME NEW p \in {"reclaimExpired", "reclaimFailed"},
             LeaveTo(w, p), Present, fp = payload[w]
      PROVE  PayloadInv'
  BY <1>3 DEF LeaveTo
<1> QED BY <1>1, <1>2, <1>3

\* A step keeps PayloadInv.
LEMMA PayloadStep ==
    ASSUME IdempotencyTypeOK, PayloadInv, [Next]_vars
    PROVE  PayloadInv'
<1> USE RecordsAssumption
<1> USE DEF PayloadInv, Executing
<1>1. ASSUME NEW w \in Workers, NEW p \in Fingerprints, Execute(w, p)
      PROVE  PayloadInv'
  BY <1>1 DEF Execute, GoTo, IdempotencyTypeOK, RowType, row, history, Present, Claiming
<1>2. ASSUME NEW w \in Workers, CreateProcessing(w)
      PROVE  PayloadInv'
  <2>1. CASE Present /\ GoTo(w, "get")
             /\ UNCHANGED <<row, body, payload, lag, held, from, out, effects>>
    BY <1>2, <2>1 DEF CreateProcessing, GoTo, IdempotencyTypeOK, row, Present, Claiming
  <2>2. CASE Own(w) /\ \E i \in RowIds : Insert(i, payload[w], lag[w]) /\ \A v \in Workers : held[v] # i
    <3>1. PICK i \in RowIds : Insert(i, payload[w], lag[w]) /\ \A v \in Workers : held[v] # i
      BY <2>2
    <3>2. id' = i /\ status' = "processing" /\ fp' = payload[w] /\ UNCHANGED <<applied, told>>
      BY <1>2, <3>1 DEF Insert, CreateProcessing
    <3> QED BY <2>2, <3>1, <3>2 DEF Own, GoTo, IdempotencyTypeOK, Present, Claiming
  <2> QED BY <1>2, <2>1, <2>2 DEF CreateProcessing
<1>3. ASSUME NEW w \in Workers, GetExisting(w) \/ GetLatest(w)
      PROVE  PayloadInv'
  BY <1>3, Reads, PayloadKept DEF Present
<1>4. ASSUME NEW w \in Workers, ReclaimExpired(w) \/ ReclaimFailed(w)
      PROVE  PayloadInv'
  <2>1. UNCHANGED <<applied, told>> /\ held[w] # NoRow
    BY <1>4 DEF ReclaimExpired, ReclaimFailed, history
  <2>2. CASE Reclaimable(held[w], from[w], lag[w]) /\ Reclaim(lag[w]) /\ Own(w)
    BY <2>1, <2>2 DEF Reclaimable, Reclaim, Own, GoTo, IdempotencyTypeOK, Present, Claiming
  <2>3. CASE UNCHANGED row /\ Return(w)
    BY <2>1, <2>3, PayloadKept
  <2>4. CASE /\ GoTo(w, "latest")
             /\ held' = [held EXCEPT ![w] = NoRow]
             /\ from' = [from EXCEPT ![w] = "none"]
             /\ UNCHANGED <<row, payload, lag, out, effects, revived>>
    BY <2>1, <2>4 DEF GoTo, IdempotencyTypeOK, RowType, row, Present, Claiming
  <2> QED BY <1>4, <2>2, <2>3, <2>4 DEF ReclaimExpired, ReclaimFailed
<1>5. ASSUME NEW w \in Workers, RunOperation(w)
      PROVE  PayloadInv'
  BY <1>5 DEF RunOperation, GoTo, IdempotencyTypeOK, row, Present, Claiming
<1>6. ASSUME NEW w \in Workers, MarkSucceeded(w)
      PROVE  PayloadInv'
  BY <1>6 DEF MarkSucceeded, Mark, Tell, Return, GoTo, IdempotencyTypeOK, RowType, row, Present, Claiming
<1>7. ASSUME NEW w \in Workers, MarkFailedRetryable(w)
      PROVE  PayloadInv'
  BY <1>7 DEF MarkFailedRetryable, Mark, Return, GoTo, IdempotencyTypeOK, RowType, row, history, Present, Claiming
<1>8. ASSUME NEW w \in Workers, MarkSucceededFails(w) \/ Crash(w)
      PROVE  PayloadInv'
  BY <1>8, PayloadKept DEF MarkSucceededFails, Crash, history
<1>9. CASE Cleanup
  BY <1>9 DEF Cleanup, Delete, request, history, Present
<1>10. CASE Tick
  BY <1>10 DEF Tick, Age, Present
<1>11. CASE UNCHANGED vars
  BY <1>11 DEF vars, row, request, history, Present
<1> QED BY <1>1, <1>2, <1>3, <1>4, <1>5, <1>6, <1>7, <1>8, <1>9, <1>10, <1>11 DEF Next, Proceed

\* A step keeps OwnerInv.
LEMMA OwnerStep ==
    ASSUME IdempotencyTypeOK, PayloadInv, ClaimInv, OwnerInv, [Next]_vars
    PROVE  OwnerInv'
<1> USE RecordsAssumption, IdempotencyAssumption
<1>1. ~overran' => ~overran
  BY DEF Next, Proceed, Execute, CreateProcessing, GetExisting, ReclaimExpired, GetLatest,
         ReclaimFailed, RunOperation, MarkSucceeded, MarkSucceededFails, MarkFailedRetryable,
         Crash, Cleanup, Tick, vars, history
<1>2. SUFFICES ASSUME ~overran, ~overran'
               PROVE  OwnerInv'
  BY <1>1 DEF OwnerInv
<1>3. ASSUME NEW w \in Workers, UNCHANGED row,
             \/ Return(w)
             \/ LeaveTo(w, "reclaimFailed")
             \/ LeaveTo(w, "reclaimExpired") /\ Expired(lag[w])
      PROVE  OwnerInv'
  <2>1. CASE Return(w)
    BY <1>2, <1>3, <2>1 DEF OwnerInv, Return, GoTo, IdempotencyTypeOK, row, Executing, Claiming
  <2>2. CASE LeaveTo(w, "reclaimFailed")
    BY <1>2, <1>3, <2>2 DEF OwnerInv, LeaveTo, GoTo, IdempotencyTypeOK, row, Executing, Claiming
  <2>3. CASE LeaveTo(w, "reclaimExpired") /\ Expired(lag[w])
    <3>1. \A v \in Workers : pc[v] \notin Executing
      <4>1. life <= -lag[w] /\ life \in Int /\ lag[w] \in Nat
        BY <2>3 DEF Expired, IdempotencyTypeOK, RowType
      <4>2. \A v \in Workers : lag[v] \in Nat
        BY DEF IdempotencyTypeOK
      <4> QED BY <1>2, <4>1, <4>2 DEF OwnerInv
    <3> QED BY <2>3, <3>1 DEF OwnerInv, LeaveTo, GoTo, IdempotencyTypeOK, Executing, Claiming
  <2> QED BY <1>3, <2>1, <2>2, <2>3
<1>4. ASSUME NEW w \in Workers, NEW p \in Fingerprints, Execute(w, p)
      PROVE  OwnerInv'
  BY <1>2, <1>4 DEF Execute, OwnerInv, GoTo, IdempotencyTypeOK, row, Executing, Claiming
<1>5. ASSUME NEW w \in Workers, CreateProcessing(w)
      PROVE  OwnerInv'
  <2>1. CASE Present /\ GoTo(w, "get")
             /\ UNCHANGED <<row, body, payload, lag, held, from, out, effects>>
    BY <1>2, <2>1 DEF OwnerInv, GoTo, IdempotencyTypeOK, row, Executing, Claiming
  <2>2. CASE Own(w) /\ \E i \in RowIds : Insert(i, payload[w], lag[w]) /\ \A v \in Workers : held[v] # i
    <3>1. PICK i \in RowIds : Insert(i, payload[w], lag[w]) /\ \A v \in Workers : held[v] # i
      BY <2>2
    <3>2. \A v \in Workers : pc[v] \notin Executing
      BY <1>2, <3>1 DEF OwnerInv, Insert, Present
    <3>3. lag[w] \in 0..MaxLag
      BY <1>5 DEF CreateProcessing, ClaimInv, Claiming, IdempotencyTypeOK
    <3> QED BY <2>2, <3>1, <3>2, <3>3 DEF OwnerInv, Own, Insert, GoTo, IdempotencyTypeOK, Executing, Claiming
  <2> QED BY <1>5, <2>1, <2>2 DEF CreateProcessing
<1>6. ASSUME NEW w \in Workers, GetExisting(w) \/ GetLatest(w)
      PROVE  OwnerInv'
  BY <1>3, <1>6, Reads
<1>7. ASSUME NEW w \in Workers, ReclaimExpired(w) \/ ReclaimFailed(w)
      PROVE  OwnerInv'
  <2>1. CASE Reclaimable(held[w], from[w], lag[w]) /\ Reclaim(lag[w]) /\ Own(w)
    <3>1. lag[w] \in 0..MaxLag
      BY <1>7 DEF ReclaimExpired, ReclaimFailed, ClaimInv, Claiming, IdempotencyTypeOK
    <3>2. \A v \in Workers : pc[v] \notin Executing
      BY <1>2, <1>7, <2>1, <3>1
      DEF ReclaimExpired, ReclaimFailed, OwnerInv, ClaimInv, Reclaimable, IdempotencyTypeOK, RowType
    <3> QED BY <2>1, <3>1, <3>2 DEF OwnerInv, ClaimInv, Own, Reclaim, GoTo, IdempotencyTypeOK, Executing, Claiming
  <2>2. CASE UNCHANGED row /\ Return(w)
    BY <1>3, <2>2
  <2>3. CASE /\ GoTo(w, "latest")
             /\ held' = [held EXCEPT ![w] = NoRow]
             /\ from' = [from EXCEPT ![w] = "none"]
             /\ UNCHANGED <<row, payload, lag, out, effects, revived>>
    BY <1>2, <2>3 DEF OwnerInv, GoTo, IdempotencyTypeOK, row, Executing, Claiming
  <2> QED BY <1>7, <2>1, <2>2, <2>3 DEF ReclaimExpired, ReclaimFailed
<1>8. ASSUME NEW w \in Workers, RunOperation(w)
      PROVE  OwnerInv'
  BY <1>2, <1>8 DEF RunOperation, OwnerInv, GoTo, IdempotencyTypeOK, row, Executing, Claiming
<1>9. ASSUME NEW w \in Workers, MarkSucceeded(w) \/ MarkFailedRetryable(w)
      PROVE  OwnerInv'
  <2>1. \A v \in Workers : pc[v] \in Executing => v = w
    BY <1>2, <1>9 DEF MarkSucceeded, MarkFailedRetryable, OwnerInv, Executing
  <2>2. Return(w)
    BY <1>9 DEF MarkSucceeded, MarkFailedRetryable
  <2>3. \A v \in Workers : pc'[v] \notin Executing
    BY <2>1, <2>2 DEF Return, GoTo, IdempotencyTypeOK, Executing, Claiming
  <2> QED BY <2>3 DEF OwnerInv
<1>10. ASSUME NEW w \in Workers, MarkSucceededFails(w) \/ Crash(w)
       PROVE  OwnerInv'
  BY <1>3, <1>10 DEF MarkSucceededFails, Crash
<1>11. CASE Cleanup
  <2>1. \A v \in Workers : pc[v] \notin Executing
    BY <1>2, <1>11 DEF Cleanup, Delete, Deletable, OwnerInv, IdempotencyTypeOK, RowType
  <2> QED BY <1>11, <2>1 DEF Cleanup, request, OwnerInv
<1>12. CASE Tick
  <2>1. \A w \in Workers : ~Overruns(w)
    BY <1>2, <1>12 DEF Tick
  <2>2. \A w \in Workers : pc[w] \in Executing => lag'[w] = lag[w] + 1 /\ lag[w] + 1 < Ttl
    BY <1>2, <1>12, <2>1 DEF Tick, Overruns, OwnerInv, Executing, IdempotencyTypeOK
  <2>3. \A w \in Workers : pc[w] \in Claiming => lag'[w] = lag[w] + 1
    BY <1>12 DEF Tick, Claiming, IdempotencyTypeOK
  <2>4. UNCHANGED <<pc, held, from, id, status>> /\ left' = Floor(left - 1) /\ life' = Floor(life - 1)
    BY <1>12 DEF Tick, Age
  <2>5. ASSUME NEW w \in Workers, pc[w] \in Executing
        PROVE  life' >= Ttl - lag'[w] /\ left' >= ProcessingTimeout - lag'[w]
    BY <1>2, <2>2, <2>4, <2>5 DEF OwnerInv, Floor, IdempotencyTypeOK, RowType
  <2>6. ASSUME NEW w \in Workers, pc[w] \in Executing, NEW v \in Workers,
               pc[v] = "reclaimExpired", held[v] = id, from[v] = "processing"
        PROVE  lag'[w] <= lag'[v] + MaxLag
    BY <1>2, <2>2, <2>3, <2>6 DEF OwnerInv, Claiming, IdempotencyTypeOK
  <2> QED BY <1>2, <2>2, <2>4, <2>5, <2>6 DEF OwnerInv
<1>13. CASE UNCHANGED vars
  BY <1>2, <1>13 DEF vars, row, request, history, OwnerInv
<1> QED BY <1>4, <1>5, <1>6, <1>7, <1>8, <1>9, <1>10, <1>11, <1>12, <1>13 DEF Next, Proceed

\* A step keeps EffectInv.
LEMMA EffectStep ==
    ASSUME IdempotencyTypeOK, ClaimInv, OwnerInv, EffectInv, [Next]_vars
    PROVE  EffectInv'
<1> USE RecordsAssumption
<1>1. ~overran' /\ ~revived' => ~overran /\ ~revived
  BY DEF Next, Proceed, Execute, CreateProcessing, GetExisting, ReclaimExpired, GetLatest,
         ReclaimFailed, RunOperation, MarkSucceeded, MarkSucceededFails, MarkFailedRetryable,
         Crash, Cleanup, Tick, vars, history
<1>2. SUFFICES ASSUME ~overran', ~revived'
               PROVE  EffectInv'
  BY DEF EffectInv
<1>3. ASSUME effects' = effects, status' = status,
             \A v \in Workers : pc'[v] \in {"execute", "markFailed"} => pc[v] \in {"execute", "markFailed"}
      PROVE  EffectInv'
  BY <1>1, <1>2, <1>3 DEF EffectInv
<1>4. ASSUME NEW w \in Workers, Return(w) \/ LeaveTo(w, "reclaimFailed") \/ LeaveTo(w, "reclaimExpired")
      PROVE  \A v \in Workers : pc'[v] \in {"execute", "markFailed"} => pc[v] \in {"execute", "markFailed"}
  BY <1>4 DEF Return, LeaveTo, GoTo, IdempotencyTypeOK
<1>5. ASSUME NEW w \in Workers, NEW p \in Fingerprints, Execute(w, p)
      PROVE  EffectInv'
  BY <1>3, <1>5 DEF Execute, GoTo, IdempotencyTypeOK, row, history
<1>6. ASSUME NEW w \in Workers, CreateProcessing(w)
      PROVE  EffectInv'
  <2>1. CASE GoTo(w, "get") /\ UNCHANGED <<row, body, payload, lag, held, from, out, effects>>
    BY <1>3, <2>1 DEF GoTo, IdempotencyTypeOK, row
  <2>2. CASE effects' = 0 /\ \E i \in RowIds : Insert(i, payload[w], lag[w])
    BY <2>2 DEF EffectInv, Insert
  <2> QED BY <1>6, <2>1, <2>2 DEF CreateProcessing
<1>7. ASSUME NEW w \in Workers, GetExisting(w) \/ GetLatest(w)
      PROVE  EffectInv'
  <2>1. effects' = effects /\ status' = status
    BY <1>7, Reads DEF row
  <2> QED BY <1>3, <1>4, <1>7, <2>1, Reads
<1>8. ASSUME NEW w \in Workers, ReclaimExpired(w)
      PROVE  EffectInv'
  <2>1. CASE Reclaim(lag[w]) /\ effects' = 0
    BY <2>1 DEF EffectInv, Reclaim
  <2>2. CASE ~Expired(lag[w]) /\ revived' = (revived \/ ~Expired(lag[w]))
    BY <1>2, <2>2
  <2>3. CASE GoTo(w, "latest") /\ UNCHANGED <<row, payload, lag, out, effects, revived>>
    BY <1>3, <2>3 DEF GoTo, IdempotencyTypeOK, row
  <2> QED BY <1>8, <2>1, <2>2, <2>3 DEF ReclaimExpired
<1>9. ASSUME NEW w \in Workers, ReclaimFailed(w)
      PROVE  EffectInv'
  <2>1. CASE Reclaimable(held[w], from[w], lag[w]) /\ Reclaim(lag[w])
    BY <1>1, <1>2, <1>9, <2>1 DEF ReclaimFailed, Reclaimable, Reclaim, ClaimInv, EffectInv, history
  <2>2. CASE Return(w) /\ UNCHANGED row
    BY <1>3, <1>4, <1>9, <2>2 DEF ReclaimFailed, row, history
  <2> QED BY <1>9, <2>1, <2>2 DEF ReclaimFailed
<1>10. ASSUME NEW w \in Workers, RunOperation(w)
       PROVE  EffectInv'
  <2>1. /\ effects = 0 /\ status = "processing" /\ status' = status
        /\ \A v \in Workers : pc[v] \in Executing => v = w
    BY <1>1, <1>2, <1>10 DEF RunOperation, OwnerInv, EffectInv, Executing, row
  <2>2. CASE GoTo(w, "markSucceeded") /\ effects' = 1
    BY <2>1, <2>2 DEF EffectInv, GoTo, IdempotencyTypeOK, Executing
  <2>3. CASE effects' = effects
    BY <2>1, <2>3 DEF EffectInv
  <2> QED BY <1>10, <2>1, <2>2, <2>3 DEF RunOperation
<1>11. ASSUME NEW w \in Workers, MarkSucceeded(w)
       PROVE  EffectInv'
  <2>1. status' \in {"succeeded", status} /\ effects' = effects /\ Return(w)
    BY <1>11 DEF MarkSucceeded, Mark, row
  <2> QED BY <1>1, <1>2, <1>4, <2>1 DEF EffectInv
<1>12. ASSUME NEW w \in Workers, MarkFailedRetryable(w)
       PROVE  EffectInv'
  <2>1. effects = 0 /\ effects' = effects
    BY <1>1, <1>2, <1>12 DEF MarkFailedRetryable, EffectInv, history
  <2> QED BY <2>1 DEF EffectInv
<1>13. ASSUME NEW w \in Workers, MarkSucceededFails(w) \/ Crash(w)
       PROVE  EffectInv'
  BY <1>3, <1>4, <1>13 DEF MarkSucceededFails, Crash, row, history
<1>14. CASE Cleanup
  <2>1. status' = "none" /\ UNCHANGED <<pc, effects>>
    BY <1>14 DEF Cleanup, Delete, request, history
  <2> QED BY <1>1, <1>2, <2>1 DEF EffectInv
<1>15. CASE Tick
  BY <1>3, <1>15 DEF Tick, Age
<1>16. CASE UNCHANGED vars
  BY <1>3, <1>16 DEF vars, row, request, history
<1> QED BY <1>5, <1>6, <1>7, <1>8, <1>9, <1>10, <1>11, <1>12, <1>13, <1>14, <1>15, <1>16 DEF Next, Proceed

\* Type correctness: whatever requests race, crash or fail (Execute, the
\* statements of idempotency_repo.go, DeleteExpired), the row and the requests
\* keep their types, and the invariant that makes a key safe is kept with them.
THEOREM IdempotencyCorrect == Spec => [](IdempotencyTypeOK /\ IdempotencyInv)
<1>1. Init => IdempotencyTypeOK /\ IdempotencyInv
  <2> USE RecordsAssumption, IdempotencyAssumption DEF Init
  <2>1. Init => RowType /\ RequestType
    BY DEF RowInit, RowType, Present, RequestType
  <2>2. Init => HistoryType
    <3>1. Init => overran \in BOOLEAN /\ revived \in BOOLEAN
      BY Zenon
    <3>2. Init => effects \in 0..2 /\ faults \in 0..MaxFaults
      OBVIOUS
    <3>3. Init => body \in {"none", "whole", "cut"} /\ applied \subseteq Fingerprints /\ told \subseteq Fingerprints
      OBVIOUS
    <3> QED BY <3>1, <3>2, <3>3 DEF HistoryType
  <2>3. Init => PayloadInv /\ ClaimInv
    BY DEF RowInit, Present, PayloadInv, ClaimInv, Claiming, Executing
  <2>4. Init => OwnerInv
    BY DEF OwnerInv, Executing
  <2>5. Init => EffectInv
    BY DEF RowInit, EffectInv
  <2> QED BY <2>1, <2>2, <2>3, <2>4, <2>5
          DEF IdempotencyTypeOK, IdempotencyInv, RequestType, HistoryType
<1>2. IdempotencyTypeOK /\ IdempotencyInv /\ [Next]_vars => IdempotencyTypeOK' /\ IdempotencyInv'
  BY TypeStep, PayloadStep, OwnerStep, EffectStep DEF IdempotencyInv
<1> QED BY <1>1, <1>2, PTL DEF Spec

\* The row and every request keep their types (IdempotencyCoordinator.Execute).
THEOREM IdempotencyTypeCorrect == Spec => []IdempotencyTypeOK
BY IdempotencyCorrect, PTL

\* One owner, one payload, one effect: the inductive invariant holds of Execute.
THEOREM IdempotencyInvariant == Spec => []IdempotencyInv
BY IdempotencyCorrect, PTL

\* CreateProcessing and TryReclaim hand the row to one request at a time, as long
\* as no execution outlives its record.
THEOREM ExecutionIsExclusive == Spec => []ExecutesAlone
<1>1. IdempotencyInv => ExecutesAlone
  BY DEF IdempotencyInv, OwnerInv, ExecutesAlone
<1> QED BY <1>1, IdempotencyCorrect, PTL

\* No client is told a result, executed or replayed, for a payload that was not
\* executed with success (fingerprint check, MarkSucceeded by id).
THEOREM ResultsAreReal == Spec => []ToldIsApplied
<1>1. IdempotencyInv => ToldIsApplied
  BY DEF IdempotencyInv, PayloadInv, ToldIsApplied
<1> QED BY <1>1, IdempotencyCorrect, PTL

\* The operation succeeds at most once in the life of a record, unless an
\* execution outlives the record or TryReclaim revives one (Execute).
THEOREM EffectIsSingle == Spec => []SingleEffect
<1>1. IdempotencyInv => SingleEffect
  BY DEF IdempotencyInv, EffectInv, SingleEffect
<1> QED BY <1>1, IdempotencyCorrect, PTL

\* Under the same conditions a stored success is kept until it expires (TryReclaim,
\* MarkFailedRetryable, DeleteExpired).
THEOREM SuccessIsKept == Spec => SuccessStays
<1> USE RecordsAssumption
<1>1. ASSUME IdempotencyTypeOK, IdempotencyInv, Next,
             ~overran', ~revived', status = "succeeded", life > 0
      PROVE  status' = "succeeded"
  <2>1. ~overran
    BY <1>1 DEF Next, Proceed, Execute, CreateProcessing, GetExisting, ReclaimExpired, GetLatest,
         ReclaimFailed, RunOperation, MarkSucceeded, MarkSucceededFails, MarkFailedRetryable,
         Crash, Cleanup, Tick, history
  <2>2. \A w \in Workers : pc[w] \notin Executing
    BY <1>1, <2>1 DEF IdempotencyInv, OwnerInv
  <2>3. ASSUME NEW w \in Workers, NEW p \in Fingerprints, Execute(w, p)
        PROVE  status' = "succeeded"
    BY <1>1, <2>3 DEF Execute, row
  <2>4. ASSUME NEW w \in Workers, CreateProcessing(w)
        PROVE  status' = "succeeded"
    BY <1>1, <2>4 DEF CreateProcessing, Insert, Present, row
  <2>5. ASSUME NEW w \in Workers, GetExisting(w) \/ GetLatest(w)
        PROVE  status' = "succeeded"
    BY <1>1, <2>5, Reads DEF row
  <2>6. ASSUME NEW w \in Workers, ReclaimExpired(w)
        PROVE  status' = "succeeded"
    <3>1. lag[w] >= 0 /\ lag[w] \in Int /\ life \in Int
      BY <1>1 DEF IdempotencyTypeOK, RowType
    <3>2. ~Expired(lag[w])
      BY <1>1, <3>1 DEF Expired
    <3>3. CASE revived' = (revived \/ ~Expired(lag[w]))
      BY <1>1, <3>2, <3>3
    <3>4. CASE UNCHANGED row
      BY <1>1, <3>4 DEF row
    <3> QED BY <2>6, <3>3, <3>4 DEF ReclaimExpired
  <2>7. ASSUME NEW w \in Workers, ReclaimFailed(w)
        PROVE  status' = "succeeded"
    BY <1>1, <2>7 DEF ReclaimFailed, Reclaimable, IdempotencyInv, ClaimInv, row
  <2>8. ASSUME NEW w \in Workers,
               RunOperation(w) \/ MarkSucceeded(w) \/ MarkSucceededFails(w) \/ MarkFailedRetryable(w)
        PROVE  FALSE
    BY <2>2, <2>8 DEF RunOperation, MarkSucceeded, MarkSucceededFails, MarkFailedRetryable, Executing
  <2>9. ASSUME NEW w \in Workers, Crash(w)
        PROVE  status' = "succeeded"
    BY <1>1, <2>9 DEF Crash, row
  <2>10. CASE Cleanup
    BY <1>1, <2>10 DEF Cleanup, Delete, Deletable, IdempotencyTypeOK, RowType
  <2>11. CASE Tick
    BY <1>1, <2>11 DEF Tick, Age
  <2> QED BY <1>1, <2>3, <2>4, <2>5, <2>6, <2>7, <2>8, <2>9, <2>10, <2>11 DEF Next, Proceed
<1>2. IdempotencyTypeOK /\ IdempotencyInv /\ [Next]_vars
        => [~overran' /\ ~revived' /\ status = "succeeded" /\ life > 0 => status' = "succeeded"]_vars
  BY <1>1
<1> QED BY <1>2, IdempotencyCorrect, PTL DEF Spec, SuccessStays
=============================================================================
