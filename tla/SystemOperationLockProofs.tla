--------------------- MODULE SystemOperationLockProofs ---------------------
(***************************************************************************)
(* Type correctness of SystemOperationLock, and mutual exclusion of system *)
(* operations that end before their lease does, for any number of calls,   *)
(* crashes, failed statements and late renewals.                           *)
(***************************************************************************)
EXTENDS SystemOperationLock, TLAPS

\* A claim, made n ticks after the clock was read, keeps the type of the row.
LEMMA ClaimTypes ==
    ASSUME RowType, NEW n \in 0..MaxLag
    PROVE  /\ \A i \in RowIds, f \in Fingerprints : Insert(i, f, n) => RowType'
           /\ Present /\ Reclaim(n) => RowType'
<1> USE RecordsAssumption DEF RowType, Present
<1>1. \A i \in RowIds, f \in Fingerprints : Insert(i, f, n) => RowType'
  BY DEF Insert
<1>2. Present /\ Reclaim(n) => RowType'
  BY DEF Reclaim
<1> QED BY <1>1, <1>2

\* So does every other statement, and so does a tick.
LEMMA RowTypes ==
    ASSUME RowType
    PROVE  /\ Present /\ Extend => RowType'
           /\ \A i : \A s \in {"succeeded", "failed_retryable"} : \A l \in Int, t \in Int :
                l <= ProcessingTimeout /\ t <= Ttl /\ Mark(i, s, l, t) => RowType'
           /\ Delete \/ Age \/ UNCHANGED row => RowType'
<1> USE RecordsAssumption DEF RowType, Present, Floor
<1>1. Present /\ Extend => RowType'
  BY DEF Extend
<1>2. ASSUME NEW i, NEW s \in {"succeeded", "failed_retryable"}, NEW l \in Int, NEW t \in Int,
             l <= ProcessingTimeout, t <= Ttl, Mark(i, s, l, t)
      PROVE  RowType'
  BY <1>2 DEF Mark, row
<1>3. Delete => RowType'
  BY DEF Delete
<1>4. Age => RowType'
  BY DEF Age
<1>5. UNCHANGED row => RowType'
  BY DEF row
<1> QED BY <1>1, <1>2, <1>3, <1>4, <1>5

\* The statement of Release keeps the type of the row.
LEMMA ReleaseTypes ==
    ASSUME RowType
    PROVE  \A i : MarkReleased(i) => RowType'
<1>1. /\ -MaxLag \in Int /\ 0 \in Int /\ Ttl \in Int /\ Ttl <= Ttl
      /\ -MaxLag <= ProcessingTimeout /\ 0 <= ProcessingTimeout
  BY RecordsAssumption
<1> QED BY <1>1, RowTypes DEF MarkReleased

\* The types of what belongs to the calls.
CallType ==
    /\ pc \in [Workers -> Positions]
    /\ op \in [Workers -> Fingerprints \cup {NoFingerprint}]
    /\ lag \in [Workers -> 0..MaxLag]
    /\ held \in [Workers -> RowIds \cup {NoRow}]
    /\ from \in [Workers -> {"none", "processing", "succeeded", "failed_retryable"}]
    /\ renewal \in [Workers -> {"off", "wait", "sending"}]
    /\ due \in [Workers -> 0..RenewInterval]
    /\ ran \in [Workers -> 0..MaxRun]
    /\ \A w \in Workers : pc[w] # "idle" => op[w] \in Fingerprints

\* The steps every action is made of keep these types.
LEMMA CallTypes ==
    ASSUME CallType, NEW w \in Workers, RowType'
    PROVE  /\ pc[w] # "idle" /\ Start(w) => CallType'
           /\ \A s \in BOOLEAN : Return(w, s) => CallType'
           /\ \A s \in BOOLEAN : AfterAttempt(w, s) => CallType'
<1> USE RecordsAssumption, LockAssumption DEF CallType, Positions
<1>1. pc[w] # "idle" /\ Start(w) => CallType'
  BY DEF Start, GoTo, RowType
<1>2. \A s \in BOOLEAN : Return(w, s) => CallType'
  BY DEF Return, GoTo
<1>3. ASSUME NEW s \in BOOLEAN, AfterAttempt(w, s)
      PROVE  CallType'
  <2>1. CASE Return(w, FALSE)
    BY <1>2, <2>1
  <2>2. CASE ~Return(w, FALSE)
    <3>1. /\ renewal' = [renewal EXCEPT ![w] = IF s THEN "wait" ELSE "off"]
          /\ due' = [due EXCEPT ![w] = 0]
          /\ UNCHANGED <<pc, callVars, lag, ran>>
      BY <1>3, <2>2 DEF AfterAttempt
    <3> QED BY <3>1 DEF callVars
  <2> QED BY <2>1, <2>2
<1> QED BY <1>1, <1>2, <1>3

\* A step keeps the types.
LEMMA TypeStep ==
    ASSUME LockTypeOK, [Next]_vars
    PROVE  LockTypeOK'
<1> USE RecordsAssumption, LockAssumption
<1>1. RowType /\ CallType /\ faults \in 0..MaxFaults
  BY DEF LockTypeOK, CallType
<1>2. SUFFICES RowType' /\ CallType' /\ faults' \in 0..MaxFaults
  BY DEF LockTypeOK, CallType
<1>3. Fault => faults' \in 0..MaxFaults
  BY <1>1 DEF Fault
<1>4. UNCHANGED <<pc, callVars, timeVars, renewal>> => CallType'
  BY <1>1 DEF CallType, callVars, timeVars
<1>5. ASSUME NEW w \in Workers, NEW f \in Fingerprints, Acquire(w, f)
      PROVE  RowType' /\ CallType' /\ faults' \in 0..MaxFaults
  <2>1. RowType' /\ faults' = faults
    BY <1>1, <1>5, RowTypes DEF Acquire
  <2>2. CallType'
    BY <1>1, <1>5 DEF Acquire, CallType, Positions, GoTo, timeVars
  <2> QED BY <1>1, <2>1, <2>2
<1>6. ASSUME NEW w \in Workers, CreateProcessing(w)
      PROVE  RowType' /\ CallType' /\ faults' \in 0..MaxFaults
  <2>1. pc[w] # "idle" /\ op[w] \in Fingerprints /\ lag[w] \in 0..MaxLag /\ faults' = faults
    BY <1>1, <1>6 DEF CreateProcessing, CallType
  <2>2. CASE Start(w) /\ \E i \in RowIds : Insert(i, op[w], lag[w])
    <3>1. RowType'
      BY <1>1, <2>1, <2>2, ClaimTypes
    <3> QED BY <1>1, <2>1, <2>2, <3>1, CallTypes
  <2>3. CASE Present /\ GoTo(w, "get") /\ UNCHANGED <<row, callVars, timeVars, renewal>>
    <3>1. RowType'
      BY <1>1, <2>1, <2>3, RowTypes
    <3>2. CallType'
      BY <1>1, <2>1, <2>3 DEF CallType, Positions, GoTo, callVars, timeVars
    <3> QED BY <1>1, <2>1, <3>1, <3>2
  <2> QED BY <1>6, <2>2, <2>3 DEF CreateProcessing
<1>7. ASSUME NEW w \in Workers, GetExisting(w)
      PROVE  RowType' /\ CallType' /\ faults' \in 0..MaxFaults
  <2>1. RowType' /\ faults' = faults
    BY <1>1, <1>7, RowTypes DEF GetExisting
  <2>2. CASE Return(w, FALSE)
    BY <1>1, <2>1, <2>2, CallTypes
  <2>3. CASE ~Return(w, FALSE)
    <3>1. pc[w] # "idle" /\ UNCHANGED <<op, timeVars, renewal>> /\ GoTo(w, "reclaim")
          /\ held' = [held EXCEPT ![w] = id] /\ from' = [from EXCEPT ![w] = status]
      BY <1>7, <2>3 DEF GetExisting
    <3>2. CallType'
      BY <1>1, <3>1 DEF CallType, RowType, Positions, GoTo, timeVars
    <3> QED BY <1>1, <2>1, <3>2
  <2> QED BY <2>2, <2>3
<1>8. ASSUME NEW w \in Workers, TryReclaim(w)
      PROVE  RowType' /\ CallType' /\ faults' \in 0..MaxFaults
  <2>1. pc[w] # "idle" /\ lag[w] \in 0..MaxLag /\ faults' = faults
    BY <1>1, <1>8 DEF TryReclaim, CallType
  <2>2. RowType'
    BY <1>1, <1>8, <2>1, ClaimTypes, RowTypes DEF TryReclaim, Reclaimable
  <2> QED BY <1>1, <1>8, <2>1, <2>2, CallTypes DEF TryReclaim
<1>9. ASSUME NEW w \in Workers, RenewTick(w)
      PROVE  RowType' /\ CallType' /\ faults' \in 0..MaxFaults
  <2>1. RowType' /\ faults' = faults
    BY <1>1, <1>9, RowTypes DEF RenewTick
  <2>2. CallType'
    BY <1>1, <1>9 DEF RenewTick, CallType, callVars, timeVars
  <2> QED BY <1>1, <2>1, <2>2
<1>10. ASSUME NEW w \in Workers, Renew(w) \/ RenewFails(w)
       PROVE  RowType' /\ CallType' /\ faults' \in 0..MaxFaults
  <2>1. RowType'
    <3>2. CASE UNCHANGED row
      BY <1>1, <3>2, RowTypes
    <3>3. CASE Present /\ Extend
      BY <1>1, <3>3, RowTypes
    <3> QED BY <1>10, <3>2, <3>3 DEF Renew, RenewFails, Extendable
  <2>2. faults' \in 0..MaxFaults
    BY <1>1, <1>3, <1>10 DEF Renew, RenewFails
  <2> QED BY <1>1, <1>10, <2>1, <2>2, CallTypes DEF Renew, RenewFails
<1>11. ASSUME NEW w \in Workers, Release(w) \/ ReleaseFails(w) \/ Crash(w)
       PROVE  RowType' /\ CallType' /\ faults' \in 0..MaxFaults
  <2>1. RowType'
    <3>2. CASE UNCHANGED row
      BY <1>1, <3>2, RowTypes
    <3>3. CASE MarkReleased(held[w])
      BY <1>1, <3>3, ReleaseTypes
    <3> QED BY <1>11, <3>2, <3>3 DEF Release, ReleaseFails, Crash
  <2>2. faults' \in 0..MaxFaults
    BY <1>1, <1>3, <1>11 DEF Release, ReleaseFails, Crash
  <2>3. PICK s \in BOOLEAN : Return(w, s)
    BY <1>11 DEF Release, ReleaseFails, Crash, Leave
  <2> QED BY <1>1, <2>1, <2>2, <2>3, CallTypes
<1>12. CASE Cleanup
  BY <1>1, <1>4, <1>12, RowTypes DEF Cleanup
<1>13. CASE Tick
  <2>1. RowType'
    BY <1>1, <1>13, RowTypes DEF Tick
  <2>2. faults' \in 0..MaxFaults
    BY <1>1, <1>3, <1>13 DEF Tick
  <2>3. /\ lag' \in [Workers -> 0..MaxLag]
        /\ ran' \in [Workers -> 0..MaxRun]
        /\ due' \in [Workers -> 0..RenewInterval]
    BY <1>1, <1>13 DEF Tick, CallType
  <2>4. CallType'
    BY <1>1, <1>13, <2>3 DEF Tick, CallType, callVars
  <2> QED BY <2>1, <2>2, <2>4
<1>14. CASE UNCHANGED vars
  BY <1>1, <1>4, <1>14, RowTypes DEF vars
<1> QED
  BY <1>5, <1>6, <1>7, <1>8, <1>9, <1>10, <1>11, <1>12, <1>13, <1>14 DEF Next, Proceed

\* Every variable has its type, for any number of calls and faults.
THEOREM LockTypeCorrect == Spec => []LockTypeOK
<1>1. Init => LockTypeOK
  BY RecordsAssumption, LockAssumption DEF Init, LockTypeOK, RowInit, RowType, Present, Positions
<1>2. LockTypeOK /\ [Next]_vars => LockTypeOK'
  BY TypeStep
<1> QED BY <1>1, <1>2, PTL DEF Spec

\* While an operation runs no call finds the lock free, nobody but its holder
\* ends it, and no tick, renewal or cleanup takes it away.
LEMMA LeaseStep ==
    ASSUME ShortOperations, LockTypeOK, LeaseCovers, [Next]_vars
    PROVE  LeaseCovers'
<1> USE RecordsAssumption, LockAssumption
        DEF LockTypeOK, RowType, LeaseCovers, ShortOperations
<1>1. \A w \in Workers : pc[w] = "run" => left > 0 /\ life > 0
  OBVIOUS
<1>2. ASSUME NEW w \in Workers, NEW f \in Fingerprints, Acquire(w, f) PROVE LeaseCovers'
  BY <1>2 DEF Acquire, GoTo, row, timeVars
<1>3. ASSUME NEW w \in Workers, CreateProcessing(w) PROVE LeaseCovers'
  <2>1. CASE Start(w) /\ \E i \in RowIds : Insert(i, op[w], lag[w])
    <3>1. \A v \in Workers : pc[v] # "run"
      BY <2>1 DEF Insert, Present
    <3>2. ran[w] >= 0 /\ lag[w] <= MaxLag
      OBVIOUS
    <3> QED BY <2>1, <3>1, <3>2 DEF Start, GoTo, Insert
  <2>2. CASE GoTo(w, "get") /\ UNCHANGED <<row, callVars, timeVars, renewal>>
    BY <2>2 DEF GoTo, row, callVars, timeVars
  <2> QED BY <1>3, <2>1, <2>2 DEF CreateProcessing
<1>4. ASSUME NEW w \in Workers, GetExisting(w) PROVE LeaseCovers'
  <2>1. pc[w] # "run" /\ pc'[w] # "run" /\ UNCHANGED row
    BY <1>4 DEF GetExisting, Return, GoTo
  <2>2. \A v \in Workers \ {w} : pc'[v] = pc[v] /\ held'[v] = held[v] /\ ran'[v] = ran[v]
    BY <1>4 DEF GetExisting, Return, GoTo, timeVars
  <2> QED BY <2>1, <2>2 DEF row
<1>5. ASSUME NEW w \in Workers, TryReclaim(w) PROVE LeaseCovers'
  <2>1. CASE Reclaimable(held[w], from[w], lag[w]) /\ Reclaim(lag[w]) /\ Start(w)
    <3>1. \A v \in Workers : pc[v] # "run"
      BY <1>1, <2>1 DEF Reclaimable
    <3> QED BY <2>1, <3>1 DEF Start, GoTo, Reclaim
  <2>2. CASE Return(w, FALSE) /\ UNCHANGED row
    BY <2>2 DEF Return, GoTo, row
  <2> QED BY <1>5, <2>1, <2>2 DEF TryReclaim
<1>6. ASSUME NEW w \in Workers, RenewTick(w) PROVE LeaseCovers'
  BY <1>6 DEF RenewTick, row, callVars, timeVars
<1>7. ASSUME NEW w \in Workers, Renew(w) \/ RenewFails(w) PROVE LeaseCovers'
  <2>1. \/ UNCHANGED row
        \/ UNCHANGED <<id, status>> /\ left' = ProcessingTimeout /\ life' = Ttl
    BY <1>7 DEF Renew, RenewFails, Extend
  <2>2. \A v \in Workers : pc'[v] = "run" =>
            pc[v] = "run" /\ held'[v] = held[v] /\ ran'[v] = ran[v]
    BY <1>7 DEF Renew, RenewFails, AfterAttempt, Return, GoTo, callVars
  <2> QED BY <2>1, <2>2 DEF row
<1>8. ASSUME NEW w \in Workers, Release(w) \/ ReleaseFails(w) \/ Crash(w) PROVE LeaseCovers'
  <2>1. PICK s \in BOOLEAN : Return(w, s)
    BY <1>8 DEF Release, ReleaseFails, Crash, Leave
  <2>2. UNCHANGED row \/ pc[w] = "run"
    BY <1>8 DEF Release, ReleaseFails, Crash, Leave
  <2> QED BY <2>1, <2>2 DEF Return, GoTo, row
<1>9. CASE Cleanup
  BY <1>1, <1>9 DEF Cleanup, Delete, Deletable, callVars, timeVars
<1>10. CASE Tick
  <2>1. ASSUME NEW w \in Workers, pc[w] = "run"
        PROVE  /\ ran'[w] = ran[w] + 1
               /\ left' >= ProcessingTimeout - MaxLag - ran'[w]
               /\ life' >= Ttl - MaxLag - ran'[w]
    BY <1>10, <2>1 DEF Tick, Age, Floor
  <2> QED BY <1>10, <2>1 DEF Tick, Age, callVars
<1>11. CASE UNCHANGED vars
  BY <1>11 DEF vars, row, callVars, timeVars
<1> QED
  BY <1>2, <1>3, <1>4, <1>5, <1>6, <1>7, <1>8, <1>9, <1>10, <1>11 DEF Next, Proceed

\* The lease of a short operation covers it: the invariant that exclusion needs,
\* since the row alone does not say who runs.
THEOREM LeaseCoversOperation == ShortOperations => (Spec => []LeaseCovers)
<1> SUFFICES ASSUME ShortOperations PROVE Spec => []LeaseCovers
  OBVIOUS
<1>1. Init => LeaseCovers
  BY DEF Init, LeaseCovers
<1>2. LockTypeOK /\ LeaseCovers /\ [Next]_vars => LeaseCovers'
  BY LeaseStep
<1> QED BY <1>1, <1>2, LockTypeCorrect, PTL DEF Spec

\* Short system operations exclude each other, for any number of calls and any
\* crashes, failed statements and late renewals.
THEOREM ShortOperationsExclude == ShortOperations => (Spec => []OneOperationAtATime)
<1> SUFFICES ASSUME ShortOperations PROVE Spec => []OneOperationAtATime
  OBVIOUS
<1>1. LeaseCovers => OneOperationAtATime
  BY DEF LeaseCovers, OneOperationAtATime
<1> QED BY <1>1, LeaseCoversOperation, PTL
=============================================================================
