----------------------- MODULE ConcurrencySlotsProofs -----------------------
(***************************************************************************)
(* Type correctness of ConcurrencySlots, and its limit, for any number of  *)
(* requests and processes, any limits and any number of faults.            *)
(***************************************************************************)
EXTENDS ConcurrencySlots, FiniteSetTheorems, TLAPS

\* A step keeps the types.
LEMMA SlotsTypeStep ==
    ASSUME SlotsTypeOK, [Next]_vars
    PROVE  SlotsTypeOK'
<1> USE SlotsAssumption DEF SlotsTypeOK, Positions
<1>1. ASSUME NEW S \in SUBSET Requests, NEW L \in SUBSET Requests
      PROVE  /\ Keep(S, L) => /\ slots' \subseteq Requests /\ leases' \subseteq Requests
                              /\ aged' \subseteq slots' /\ stale' \subseteq leases'
                              /\ lost' \subseteq Requests
             /\ \A r \in Requests :
                    End(r, S, L) => /\ slots' \subseteq Requests /\ leases' \subseteq Requests
                                    /\ aged' \subseteq slots' /\ stale' \subseteq leases'
                                    /\ lost' \subseteq Requests
                                    /\ pc' \in [Requests -> Positions]
  BY <1>1 DEF Keep, End, GoTo, Running
<1>2. Fault => faults' \in 0..MaxFaults
  BY DEF Fault
<1>3. ASSUME NEW r \in Requests,
             \/ Acquire(r) \/ Refuse(r) \/ AcquireFails(r)
             \/ AcquireLiveLease(r) \/ Handover(r)
      PROVE  SlotsTypeOK'
  BY <1>1, <1>2, <1>3
     DEF Acquire, Refuse, AcquireFails, AcquireLiveLease, Handover,
         GoTo, Granted, Failed, redisVars
<1>4. ASSUME NEW r \in Requests,
             \/ Release(r) \/ ReleaseFails(r) \/ HandoverFails(r) \/ AcquireLiveLeaseFails(r)
             \/ ReleaseLiveLease(r) \/ ReleaseLiveLeaseFails(r)
      PROVE  SlotsTypeOK'
  BY <1>1, <1>2, <1>4
     DEF Release, ReleaseFails, HandoverFails, AcquireLiveLeaseFails,
         ReleaseLiveLease, ReleaseLiveLeaseFails
<1>5. ASSUME NEW r \in Requests, RefreshLiveLease(r) \/ ReleaseOnDone(r)
      PROVE  SlotsTypeOK'
  BY <1>1, <1>2, <1>5 DEF RefreshLiveLease, ReleaseOnDone
<1>6. ASSUME NEW r \in Requests,
             \/ Arrive(r) \/ IncrementWaitCount(r) \/ IncrementFails(r) \/ WaitTimeout(r)
             \/ DecrementWaitCount(r) \/ DecrementFails(r)
      PROVE  SlotsTypeOK'
  BY <1>2, <1>6
     DEF Arrive, IncrementWaitCount, IncrementFails, WaitTimeout, DecrementWaitCount,
         DecrementFails, Decremented, GoTo, redisVars
<1>7. ASSUME NEW r \in Requests, Age(r) \/ AgeLease(r)
      PROVE  SlotsTypeOK'
  BY <1>2, <1>7 DEF Age, AgeLease
<1>8. ASSUME WaitExpires \/ CleanupExpired \/ StartProcess
      PROVE  SlotsTypeOK'
  <2>1. CASE WaitExpires
    BY <2>1 DEF WaitExpires, redisVars
  <2>2. CASE CleanupExpired
    BY <1>1, <2>2 DEF CleanupExpired
  <2>3. CASE StartProcess
    <3>1. {} \in SUBSET Requests /\ leases \in SUBSET Requests
      OBVIOUS
    <3>2. /\ slots' \subseteq Requests /\ leases' \subseteq Requests
          /\ aged' \subseteq slots' /\ stale' \subseteq leases'
          /\ lost' \subseteq Requests
      BY <1>1, <2>3, <3>1 DEF StartProcess
    <3> QED BY <1>2, <2>3, <3>2 DEF StartProcess
  <2> QED BY <1>8, <2>1, <2>2, <2>3
<1>9. ASSUME NEW p \in Procs, Crash(p)
      PROVE  SlotsTypeOK'
  BY <1>2, <1>9 DEF Crash, redisVars
<1>10. CASE UNCHANGED vars
  BY <1>10 DEF vars, redisVars
<1> QED BY <1>3, <1>4, <1>5, <1>6, <1>7, <1>8, <1>9, <1>10 DEF Next

\* Every variable keeps its type, and the wait counter its limits
\* (incrementWaitScript and decrementWaitScript), in every behaviour.
THEOREM SlotsTypeCorrect == Spec => []SlotsTypeOK
<1>1. Init => SlotsTypeOK
  BY SlotsAssumption DEF Init, SlotsTypeOK, Positions
<1> QED BY <1>1, SlotsTypeStep, PTL DEF Spec

---------------------------------------------------------------------------

\* A request that runs and has not lost its admission has a member in Redis.
Covered == Running \ lost \subseteq slots \cup leases

\* What Redis does not keep makes its requests lose their admission.
LEMMA KeepCovers ==
    ASSUME SlotsTypeOK, NEW S, NEW L, Keep(S, L), Covered,
           NEW X \in SUBSET (S \cup L), Running' \subseteq Running \cup X
    PROVE  Covered' /\ Running' \ lost' \subseteq (Running \ lost) \cup X
BY DEF Keep, Covered

\* So it does when a request ends.
LEMMA EndCovers ==
    ASSUME SlotsTypeOK, NEW r \in Requests, NEW S, NEW L, End(r, S, L), Covered
    PROVE  Covered' /\ Running' \ lost' \subseteq Running \ lost
<1>1. Running' = Running \ {r}
  BY DEF End, GoTo, Running, Admitted, SlotsTypeOK, Positions
<1> QED BY <1>1 DEF End, Covered

\* Fewer requests keep the limit.
LEMMA LimitShrinks ==
    ASSUME SlotsTypeOK, LimitHolds, Running' \ lost' \subseteq Running \ lost
    PROVE  LimitHolds'
<1>1. IsFiniteSet(Running \ lost)
  BY SlotsAssumption, FS_Subset DEF Running
<1>2. Cardinality(Running' \ lost') <= Cardinality(Running \ lost)
  BY <1>1, FS_Subset
<1>3. Cardinality(Running' \ lost') \in Nat /\ Cardinality(Running \ lost) \in Nat
  BY <1>1, FS_Subset, FS_CardinalityType
<1> QED BY <1>2, <1>3, SlotsAssumption DEF LimitHolds

\* One more, where Redis has a vacancy, does too.
LEMMA LimitGrows ==
    ASSUME NEW S \in SUBSET Requests, NEW L \in SUBSET Requests, Vacant(S, L),
           NEW r \in Requests, NEW X \in SUBSET (S \cup L \cup {r})
    PROVE  Cardinality(X) <= MaxConcurrency
<1>1. IsFiniteSet(S) /\ IsFiniteSet(L)
  BY SlotsAssumption, FS_Subset
<1>2. /\ IsFiniteSet(S \cup L) /\ IsFiniteSet(S \cap L)
      /\ Cardinality(S \cup L) = Cardinality(S) + Cardinality(L) - Cardinality(S \cap L)
  BY <1>1, FS_Union, FS_Subset
<1>3. /\ Cardinality(S) \in Nat /\ Cardinality(L) \in Nat
      /\ Cardinality(S \cap L) \in Nat /\ Cardinality(S \cup L) \in Nat
  BY <1>1, <1>2, FS_CardinalityType
<1>4. /\ IsFiniteSet(S \cup L \cup {r})
      /\ Cardinality(S \cup L \cup {r}) <= Cardinality(S \cup L) + 1
  <2> DEFINE U == S \cup L
  <2>1. IsFiniteSet(U \cup {r}) /\ Cardinality(U \cup {r}) = IF r \in U THEN Cardinality(U) ELSE Cardinality(U) + 1
    <3> HIDE DEF U
    <3>1. IsFiniteSet(U)
      BY <1>2 DEF U
    <3> QED BY <3>1, FS_AddElement
  <2> QED BY <2>1, <1>3
<1>5. /\ Cardinality(X) <= Cardinality(S \cup L \cup {r})
      /\ Cardinality(X) \in Nat /\ Cardinality(S \cup L \cup {r}) \in Nat
  BY <1>4, FS_Subset, FS_CardinalityType
<1> QED BY <1>2, <1>3, <1>4, <1>5, SlotsAssumption DEF Vacant

\* A step keeps the limit and what it rests on.
LEMMA LimitStep ==
    ASSUME SlotsTypeOK, Covered, LimitHolds, [Next]_vars
    PROVE  Covered' /\ LimitHolds'
<1>1. ASSUME Covered', Running' \ lost' \subseteq Running \ lost
      PROVE  Covered' /\ LimitHolds'
  BY <1>1, LimitShrinks
<1>2. ASSUME NEW S, NEW L, Keep(S, L), Running' \subseteq Running
      PROVE  Covered' /\ LimitHolds'
  <2>1. {} \in SUBSET (S \cup L) /\ Running' \subseteq Running \cup {}
    BY <1>2
  <2>2. Covered' /\ Running' \ lost' \subseteq (Running \ lost) \cup {}
    BY <1>2, <2>1, KeepCovers
  <2> QED BY <1>1, <2>2
<1>3. ASSUME NEW r \in Requests, NEW S, NEW L, End(r, S, L)
      PROVE  Covered' /\ LimitHolds'
  BY <1>1, <1>3, EndCovers
<1>4. ASSUME UNCHANGED <<redisVars, lost>>, Running' \subseteq Running
      PROVE  Covered' /\ LimitHolds'
  BY <1>1, <1>4 DEF redisVars, Covered
<1>5. ASSUME NEW r \in Requests, Acquire(r)
      PROVE  Covered' /\ LimitHolds'
  <2> DEFINE S == slots \ aged
             L == leases \ stale
  <2>1. /\ Vacant(S, L) /\ Keep(S \cup {r}, L)
        /\ S \in SUBSET Requests /\ L \in SUBSET Requests
    BY <1>5 DEF Acquire, SlotsTypeOK
  <2>2. Running' \subseteq Running \cup {r}
    BY <1>5 DEF Acquire, GoTo, Running, SlotsTypeOK
  <2>3. Covered'
    BY <2>1, <2>2, KeepCovers
  <2>4. Running' \ lost' \subseteq S \cup L \cup {r}
    BY <2>1, <2>3 DEF Covered, Keep
  <2> QED BY <2>1, <2>3, <2>4, LimitGrows DEF LimitHolds
<1>6. ASSUME NEW r \in Requests, Refuse(r) \/ AcquireFails(r)
      PROVE  Covered' /\ LimitHolds'
  <2>1. Running' \subseteq Running
    BY <1>6 DEF Refuse, AcquireFails, Asks, Failed, GoTo, Running, Admitted, SlotsTypeOK, Positions
  <2> QED BY <1>2, <1>4, <1>6, <2>1 DEF Refuse, AcquireFails
<1>7. ASSUME NEW r \in Requests,
             \/ Release(r) \/ ReleaseFails(r) \/ HandoverFails(r) \/ AcquireLiveLeaseFails(r)
             \/ ReleaseLiveLease(r) \/ ReleaseLiveLeaseFails(r)
      PROVE  Covered' /\ LimitHolds'
  BY <1>3, <1>7
     DEF Release, ReleaseFails, HandoverFails, AcquireLiveLeaseFails,
         ReleaseLiveLease, ReleaseLiveLeaseFails
<1>8. ASSUME NEW r \in Requests, AcquireLiveLease(r) \/ Handover(r) \/ ReleaseOnDone(r)
      PROVE  Covered' /\ LimitHolds'
  <2>1. Running' \subseteq Running
    BY <1>8 DEF AcquireLiveLease, Handover, ReleaseOnDone, GoTo, Running, Admitted, SlotsTypeOK, Positions
  <2> QED BY <1>2, <1>8, <2>1 DEF AcquireLiveLease, Handover, ReleaseOnDone
<1>9. ASSUME NEW r \in Requests, RefreshLiveLease(r)
      PROVE  Covered' /\ LimitHolds'
  <2>1. CASE r \in leases \ stale
    BY <1>2, <1>9, <2>1 DEF RefreshLiveLease, Running
  <2>2. CASE r \notin leases \ stale
    BY <1>3, <1>9, <2>2 DEF RefreshLiveLease
  <2> QED BY <2>1, <2>2
<1>10. ASSUME NEW r \in Requests,
             \/ Arrive(r) \/ IncrementWaitCount(r) \/ IncrementFails(r) \/ WaitTimeout(r)
             \/ DecrementWaitCount(r) \/ DecrementFails(r)
      PROVE  Covered' /\ LimitHolds'
  <2>1. Running' \subseteq Running
    BY <1>10
       DEF Arrive, IncrementWaitCount, IncrementFails, WaitTimeout, DecrementWaitCount,
           DecrementFails, GoTo, Running, Admitted, SlotsTypeOK, Positions
  <2> QED
    BY <1>4, <1>10, <2>1
       DEF Arrive, IncrementWaitCount, IncrementFails, WaitTimeout, DecrementWaitCount,
           DecrementFails
<1>11. ASSUME NEW r \in Requests, Age(r) \/ AgeLease(r)
       PROVE  Covered' /\ LimitHolds'
  BY <1>1, <1>11 DEF Age, AgeLease, Covered, Running
<1>12. ASSUME WaitExpires \/ CleanupExpired \/ StartProcess
       PROVE  Covered' /\ LimitHolds'
  BY <1>2, <1>4, <1>12 DEF WaitExpires, CleanupExpired, StartProcess, Running
<1>13. ASSUME NEW p \in Procs, Crash(p)
       PROVE  Covered' /\ LimitHolds'
  <2>1. Running' = {r \in Running : Home[r] # p}
    BY <1>13 DEF Crash, Running, Admitted
  <2> QED BY <1>1, <1>13, <2>1 DEF Crash, Covered, redisVars, Running
<1>14. CASE UNCHANGED vars
  BY <1>4, <1>14 DEF vars, Running
<1> QED
  BY <1>5, <1>6, <1>7, <1>8, <1>9, <1>10, <1>11, <1>12, <1>13, <1>14 DEF Next

\* However many processes share the account, and whatever crashes, fails or
\* expires, the requests served at once exceed the limit of acquireScript by
\* at most those that lost their slot while they ran.
THEOREM LimitCorrect == Spec => []LimitHolds
<1>1. Init => Covered /\ LimitHolds
  <2> SUFFICES ASSUME Init PROVE Covered /\ LimitHolds
    OBVIOUS
  <2>1. Running = {}
    BY DEF Init, Running, Admitted
  <2> QED BY <2>1, FS_EmptySet, SlotsAssumption DEF Covered, LimitHolds
<1> QED BY <1>1, LimitStep, SlotsTypeCorrect, PTL DEF Spec
=============================================================================
