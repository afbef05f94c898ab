-------------------------- MODULE OAuthRefreshProofs --------------------------
(***************************************************************************)
(* Type correctness of OAuthRefresh and its safety properties, for any     *)
(* deployment of any number of workers and processes, any number of        *)
(* credentials, retries and faults.                                        *)
(***************************************************************************)
EXTENDS OAuthRefresh, FiniteSetTheorems, TLAPS

\* A worker between its read of the account and the end of its attempt, one that
\* was given new credentials, and one whose refresh token was refused.
Between(w) == pc[w] \in {"call", "called"}
Exchanged(w) == pc[w] = "called" /\ res[w] = "ok"
Refused(w) == pc[w] \in {"release", "settle"} /\ res[w] = "invalid_grant"

\* Nobody knows credentials that were not issued; whoever is at the provider has
\* read some, as has an administrator's request, and new credentials are newer
\* than those they were bought with.
IssueInv ==
    /\ creds <= issued /\ draft <= issued /\ (admin # "idle" => draft # 0)
    /\ live \subseteq 1..issued
    /\ \A w \in Workers : held[w] <= issued /\ basis[w] <= issued /\ got[w] <= issued
    /\ \A w \in Workers : Between(w) => basis[w] # 0
    /\ \A w \in Workers : Exchanged(w) => got[w] > basis[w]

\* The bound on issued credentials leaves room for every exchange.
RoomInv == issued + Cardinality(Open) <= MaxIssued

\* While no refresh goes on without the lock: the lock has at most one owner,
\* and whoever is at the provider is it.  A worker that went on without the lock
\* after its deadline cannot get past the read of the account.
LockInv == ~slipped =>
    /\ \A w \in Workers : owns[w] => lock
    /\ \A v, w \in Workers : owns[v] /\ owns[w] => v = w
    /\ \A w \in Workers : Between(w) => owns[w]
    /\ \A w \in Workers : pc[w] = "read" => owns[w] \/ expired[w]

\* A refused token is dead and stays so.  While refreshes keep their lock, nobody
\* waits to store what was bought with a token that was refused to another; while
\* no other writer crosses a refresh either, they know the credentials of the row.
TokenInv ==
    /\ \A w \in Workers : pc[w] = "called" /\ res[w] = "invalid_grant" => basis[w] \notin live
    /\ \A w \in Workers : Refused(w) => held[w] \notin live
    /\ ~slipped => \A v, w \in Workers : Exchanged(v) /\ Refused(w) => held[w] # basis[v]
    /\ ~slipped /\ ~beside =>
        \A w \in Workers : (Between(w) => basis[w] = creds) /\ (Refused(w) => held[w] = creds)

\* While no administrator's request crosses a refresh, it finds nobody refreshing
\* and will not write older credentials than the row's.
AdminInv == ~beside /\ admin # "idle" => draft >= creds /\ \A w \in Workers : pc[w] = "idle"

Inv == OAuthTypeOK /\ IssueInv /\ RoomInv

---------------------------------------------------------------------------

\* The credentials that may be exchanged are finitely many.
LEMMA OpenFinite ==
    ASSUME OAuthTypeOK, NEW R
    PROVE  IsFiniteSet(Exchangeable(R)) /\ Cardinality(Exchangeable(R)) \in Nat
<1>1. Exchangeable(R) \subseteq 1..MaxIssued
  BY DEF Exchangeable, OAuthTypeOK, Creds
<1>2. IsFiniteSet(1..MaxIssued)
  BY OAuthAssumption, FS_Interval
<1> QED BY <1>1, <1>2, FS_Subset, FS_CardinalityType

\* An exchange has room for the credentials it returns, and uses one up.
LEMMA ExchangeRoom ==
    ASSUME Inv, NEW c \in Open
    PROVE  /\ issued + 1 \in Creds
           /\ Cardinality(Open \ {c}) = Cardinality(Open) - 1
<1>1. IsFiniteSet(Open) /\ Cardinality(Open) \in Nat
  BY OpenFinite DEF Open, Inv
<1>2. /\ Cardinality(Open \ {c}) = Cardinality(Open) - 1
      /\ Cardinality(Open \ {c}) \in Nat
  BY <1>1, FS_RemoveElement, FS_CardinalityType
<1> QED BY <1>1, <1>2, OAuthAssumption DEF Inv, RoomInv, OAuthTypeOK, Creds

\* A step keeps the types.
LEMMA TypeStep ==
    ASSUME Inv, [Next]_vars
    PROVE  OAuthTypeOK'
<1> USE OAuthAssumption DEF Inv, OAuthTypeOK, Positions, Results, siteVars,
       accountVars, providerVars, callVars, ghostVars, adminVars
<1>1. ASSUME NEW w \in Workers, Start(w) PROVE OAuthTypeOK'
  BY <1>1 DEF Start, Eligible, GoTo
<1>2. ASSUME NEW w \in Workers, LocalLock(w) PROVE OAuthTypeOK'
  BY <1>2 DEF LocalLock, MutexFree, InMutex, GoTo
<1>3. ASSUME NEW w \in Workers, LocalLockTimeout(w) PROVE OAuthTypeOK'
  BY <1>3 DEF LocalLockTimeout, Ends, GoTo
<1>4. ASSUME NEW w \in Workers, AcquireLock(w) PROVE OAuthTypeOK'
  <2>1. lock' \in BOOLEAN /\ owns' \in [Workers -> BOOLEAN]
    BY <1>4 DEF AcquireLock, AcquireRefreshLock
  <2>2. pc' \in [Workers -> Positions] /\ res' \in [Workers -> Results]
    BY <1>4 DEF AcquireLock, AcquireRefreshLock, Ends, GoTo
  <2> QED BY <1>4, <2>1, <2>2 DEF AcquireLock
<1>5. ASSUME NEW w \in Workers, Degrade(w) PROVE OAuthTypeOK'
  BY <1>5 DEF Degrade, CallFails, Fault, GoTo
<1>6. ASSUME NEW w \in Workers, ReadAccount(w) PROVE OAuthTypeOK'
  BY <1>6 DEF ReadAccount, Ends, GoTo
<1>7. ASSUME NEW w \in Workers, ReadFails(w) PROVE OAuthTypeOK'
  BY <1>7 DEF ReadFails, CallFails, Fault, Ends, GoTo
<1>8. ASSUME NEW w \in Workers, Refresh(w) PROVE OAuthTypeOK'
  <2>1. basis[w] \in live => issued + 1 \in Creds
    BY <1>8, ExchangeRoom DEF Refresh, Open, Exchangeable, AtProvider
  <2>2. CASE Exchange(w) /\ got' = [got EXCEPT ![w] = issued + 1] /\ Ends(w, "called", "ok")
    BY <1>8, <2>1, <2>2 DEF Refresh, Exchange, Ends, GoTo
  <2>3. CASE UNCHANGED <<live, issued, got>> /\ Ends(w, "called", "invalid_grant")
    BY <1>8, <2>3 DEF Refresh, Ends, GoTo
  <2> QED BY <1>8, <2>2, <2>3 DEF Refresh
<1>9. ASSUME NEW w \in Workers, RefreshFails(w) PROVE OAuthTypeOK'
  <2>1. basis[w] \in live => issued + 1 \in Creds
    BY <1>9, ExchangeRoom DEF RefreshFails, Open, Exchangeable, AtProvider
  <2>2. /\ live' \in SUBSET Creds /\ issued' \in Creds
        /\ Ends(w, "called", "retryable") \/ Ends(w, "called", "shared")
    BY <1>9, <2>1 DEF RefreshFails, Exchange
  <2> QED BY <1>9, <2>2 DEF RefreshFails, Fault, Ends, GoTo
<1>10. ASSUME NEW w \in Workers, Late(w) PROVE OAuthTypeOK'
  BY <1>10 DEF Late, Ends, GoTo
<1>11. ASSUME NEW w \in Workers, Failed(w) PROVE OAuthTypeOK'
  BY <1>11 DEF Failed, GoTo
<1>12. ASSUME NEW w \in Workers, Recover(w) PROVE OAuthTypeOK'
  BY <1>12 DEF Recover, Ends, GoTo
<1>13. ASSUME NEW w \in Workers, RecoverFails(w) PROVE OAuthTypeOK'
  BY <1>13 DEF RecoverFails, CallFails, Fault, GoTo
<1>14. ASSUME NEW w \in Workers, Persist(w) PROVE OAuthTypeOK'
  <2>1. got[w] \in Creds
    BY <1>14 DEF Persist, IssueInv, Exchanged, Creds
  <2>2. /\ creds' \in Creds /\ due' \in BOOLEAN
        /\ status' \in {"active", "error"} /\ cooldown' \in BOOLEAN
    BY <1>14, <2>1 DEF Persist, Store
  <2>3. \E r \in Results : Ends(w, "release", r)
    BY <1>14 DEF Persist
  <2>4. pc' \in [Workers -> Positions] /\ res' \in [Workers -> Results]
    BY <2>3 DEF Ends, GoTo
  <2> QED BY <1>14, <2>2, <2>4 DEF Persist
<1>15. ASSUME NEW w \in Workers, PersistFails(w) PROVE OAuthTypeOK'
  <2>1. got[w] \in Creds
    BY <1>15 DEF PersistFails, IssueInv, Exchanged, Creds
  <2>2. /\ creds' \in Creds /\ due' \in BOOLEAN
        /\ status' \in {"active", "error"} /\ cooldown' \in BOOLEAN
    BY <1>15, <2>1 DEF PersistFails, Store
  <2>3. \E r \in Results : Ends(w, "release", r)
    BY <1>15 DEF PersistFails
  <2>4. pc' \in [Workers -> Positions] /\ res' \in [Workers -> Results]
    BY <2>3 DEF Ends, GoTo
  <2>5. faults' \in 0..MaxFaults
    BY <1>15 DEF PersistFails, CallFails, Fault
  <2>6. got' \in [Workers -> Creds \cup {0}]
    BY <1>15 DEF PersistFails
  <2> QED BY <1>15, <2>2, <2>4, <2>5, <2>6 DEF PersistFails
<1>16. ASSUME NEW w \in Workers, Release(w) PROVE OAuthTypeOK'
  BY <1>16 DEF Release, GoTo
<1>17. ASSUME NEW w \in Workers, ReleaseFails(w) PROVE OAuthTypeOK'
  BY <1>17 DEF ReleaseFails, Fault, GoTo
<1>18. ASSUME NEW w \in Workers, Return(w) PROVE OAuthTypeOK'
  BY <1>18 DEF Return, Outcome, Idle, Ends, GoTo
<1>19. ASSUME NEW w \in Workers, Succeed(w) PROVE OAuthTypeOK'
  <2>1. cooldown' \in BOOLEAN
    BY <1>19 DEF Succeed
  <2> QED BY <1>19, <2>1 DEF Succeed, Judges, Idle, Ends, GoTo
<1>20. ASSUME NEW w \in Workers, SetError(w) PROVE OAuthTypeOK'
  BY <1>20 DEF SetError, Judges, Outcome, Unchanged, Idle, Ends, GoTo
<1>21. ASSUME NEW w \in Workers, Retry(w) PROVE OAuthTypeOK'
  BY <1>21 DEF Retry, Judges, Outcome, Ends, GoTo
<1>22. ASSUME NEW w \in Workers, SetTempUnschedulable(w) PROVE OAuthTypeOK'
  BY <1>22 DEF SetTempUnschedulable, Judges, Outcome, Unchanged, Idle, Ends, GoTo
<1>23. ASSUME NEW w \in Workers, JudgementFails(w) PROVE OAuthTypeOK'
  BY <1>23 DEF JudgementFails, Judges, Outcome, Fault, Idle, Ends, GoTo
<1>24. ASSUME NEW w \in Workers, Deadline(w) PROVE OAuthTypeOK'
  BY <1>24 DEF Deadline, InMutex, Bounded, Fault
<1>25. CASE Due
  BY <1>25 DEF Due
<1>26. CASE CooldownEnds
  BY <1>26 DEF CooldownEnds
<1>27. CASE Edit
  <2>1. was' \in {"active", "error", "kept"} /\ beside' \in BOOLEAN
    BY <1>27 DEF Edit, Arrives
  <2> QED BY <1>27, <2>1 DEF Edit, Arrives, Fault
<1>28. CASE ApplyOAuthCredentials
  <2>1. issued + 1 \in Creds
    BY <1>28, OpenFinite DEF ApplyOAuthCredentials, Open, Creds
  <2>2. beside' \in BOOLEAN
    BY <1>28, Zenon DEF ApplyOAuthCredentials, Arrives
  <2> QED BY <1>28, <2>1, <2>2 DEF ApplyOAuthCredentials, Arrives, Fault
<1>29. CASE RefreshByHand
  <2>1. beside' \in BOOLEAN
    BY <1>29, Zenon DEF RefreshByHand, Arrives
  <2> QED BY <1>29, <2>1 DEF RefreshByHand, Arrives, Fault
<1>30. CASE ExchangeByHand
  <2>1. draft \in Open
    BY <1>30 DEF ExchangeByHand, Open, Exchangeable, AtProvider
  <2>2. issued + 1 \in Creds
    BY <2>1, ExchangeRoom
  <2> QED BY <1>30, <2>2 DEF ExchangeByHand
<1>31. CASE ReadRow
  BY <1>31 DEF ReadRow
<1>32. CASE SaveRow
  <2>1. creds' \in Creds /\ due' \in BOOLEAN /\ status' \in {"active", "error"}
    BY <1>32 DEF SaveRow, IssueInv
  <2> QED BY <1>32, <2>1 DEF SaveRow
<1>33. CASE GiveUp
  BY <1>33 DEF GiveUp
<1>34. CASE ClearError
  <2>1. cooldown' \in BOOLEAN
    BY <1>34 DEF ClearError
  <2> QED BY <1>34, <2>1 DEF ClearError
<1>35. CASE LockLapses
  <2>1. slipped' \in BOOLEAN
    BY <1>35 DEF LockLapses
  <2>2. faults' \in 0..MaxFaults
    BY <1>35 DEF LockLapses, Fault
  <2> QED BY <1>35, <2>1, <2>2 DEF LockLapses
<1>36. ASSUME NEW p \in Procs, Crash(p) PROVE OAuthTypeOK'
  <2>1. /\ pc' \in [Workers -> Positions] /\ res' \in [Workers -> Results]
        /\ expired' \in [Workers -> BOOLEAN] /\ owns' \in [Workers -> BOOLEAN]
    BY <1>36 DEF Crash
  <2>2. /\ held' \in [Workers -> Creds \cup {0}] /\ basis' \in [Workers -> Creds \cup {0}]
        /\ got' \in [Workers -> Creds \cup {0}] /\ tries' \in [Workers -> 0..MaxRetries - 1]
    BY <1>36 DEF Crash
  <2>3. faults' \in 0..MaxFaults
    BY <1>36 DEF Crash, Fault
  <2>4. UNCHANGED <<siteVars, adminVars, accountVars, providerVars, lock, ghostVars>>
    BY <1>36 DEF Crash
  <2> QED BY <2>1, <2>2, <2>3, <2>4
<1>37. CASE UNCHANGED vars
  BY <1>37 DEF vars
<1> QED
  BY <1>1, <1>2, <1>3, <1>4, <1>5, <1>6, <1>7, <1>8, <1>9, <1>10, <1>11, <1>12, <1>13,
     <1>14, <1>15, <1>16, <1>17, <1>18, <1>19, <1>20, <1>21, <1>22, <1>23, <1>24,
     <1>25, <1>26, <1>27, <1>28, <1>29, <1>30, <1>31, <1>32, <1>33,
     <1>34, <1>35, <1>36, <1>37 DEF Next

\* Only the credentials that an exchange returns are new.
LEMMA ExchangeIssues ==
    ASSUME Inv, NEW w \in Workers, Exchange(w)
    PROVE  live' \subseteq 1..issued' /\ creds <= issued'
<1>1. issued \in Nat /\ creds \in Nat /\ creds <= issued /\ live \subseteq 1..issued
  BY DEF Inv, OAuthTypeOK, IssueInv, Creds
<1>2. issued' = issued + 1 /\ \A c \in live' : c \in live \/ c = issued + 1
  BY DEF Exchange
<1>3. ASSUME NEW c \in live' PROVE c \in 1..issued'
  <2>1. c \in 1..issued \/ c = issued + 1
    BY <1>1, <1>2
  <2> QED BY <2>1, <1>1, <1>2
<1> QED BY <1>1, <1>2, <1>3

\* A step keeps what is known of issued credentials.
LEMMA IssueStep ==
    ASSUME Inv, [Next]_vars
    PROVE  IssueInv'
<1> USE OAuthAssumption DEF Inv, OAuthTypeOK, IssueInv, Between, Exchanged, Creds,
       siteVars, accountVars, providerVars, callVars, ghostVars, adminVars
<1>1. ASSUME NEW w \in Workers, Start(w) PROVE IssueInv'
  BY <1>1 DEF Start, Eligible, GoTo
<1>2. ASSUME NEW w \in Workers, LocalLock(w) PROVE IssueInv'
  BY <1>2 DEF LocalLock, MutexFree, InMutex, GoTo
<1>3. ASSUME NEW w \in Workers, LocalLockTimeout(w) PROVE IssueInv'
  BY <1>3 DEF LocalLockTimeout, Ends, GoTo
<1>4. ASSUME NEW w \in Workers, AcquireLock(w) PROVE IssueInv'
  BY <1>4 DEF AcquireLock, AcquireRefreshLock, Ends, GoTo
<1>5. ASSUME NEW w \in Workers, Degrade(w) PROVE IssueInv'
  BY <1>5 DEF Degrade, CallFails, Fault, GoTo
<1>6. ASSUME NEW w \in Workers, ReadAccount(w) PROVE IssueInv'
  BY <1>6 DEF ReadAccount, Ends, GoTo
<1>7. ASSUME NEW w \in Workers, ReadFails(w) PROVE IssueInv'
  BY <1>7 DEF ReadFails, CallFails, Fault, Ends, GoTo
<1>8. ASSUME NEW w \in Workers, Refresh(w) PROVE IssueInv'
  <2>1. CASE Exchange(w) /\ got' = [got EXCEPT ![w] = issued + 1] /\ Ends(w, "called", "ok")
    <3>1. creds' <= issued' /\ live' \subseteq 1..issued'
      BY <1>8, <2>1, ExchangeIssues DEF Refresh
    <3>2. \A v \in Workers : held'[v] <= issued' /\ basis'[v] <= issued' /\ got'[v] <= issued'
      BY <1>8, <2>1 DEF Refresh, Exchange
    <3>3. \A v \in Workers : /\ Between(v)' => basis'[v] # 0
                             /\ Exchanged(v)' => got'[v] > basis'[v]
      BY <1>8, <2>1 DEF Refresh, Exchange, Ends, GoTo
    <3>4. draft' <= issued' /\ (admin' # "idle" => draft' # 0)
      BY <1>8, <2>1 DEF Refresh, Exchange
    <3> QED BY <3>1, <3>2, <3>3, <3>4
  <2>2. CASE UNCHANGED <<live, issued, got>> /\ Ends(w, "called", "invalid_grant")
    BY <1>8, <2>2 DEF Refresh, Ends, GoTo
  <2> QED BY <1>8, <2>1, <2>2 DEF Refresh
<1>9. ASSUME NEW w \in Workers, RefreshFails(w) PROVE IssueInv'
  <2>1. CASE Exchange(w) /\ Ends(w, "called", "retryable")
    <3>1. creds' <= issued' /\ live' \subseteq 1..issued'
      BY <1>9, <2>1, ExchangeIssues DEF RefreshFails
    <3>2. \A v \in Workers : held'[v] <= issued' /\ basis'[v] <= issued' /\ got'[v] <= issued'
      BY <1>9, <2>1 DEF RefreshFails, Exchange
    <3>3. \A v \in Workers : /\ Between(v)' => basis'[v] # 0
                             /\ Exchanged(v)' => got'[v] > basis'[v]
      BY <1>9, <2>1 DEF RefreshFails, Exchange, Ends, GoTo
    <3>4. draft' <= issued' /\ (admin' # "idle" => draft' # 0)
      BY <1>9, <2>1 DEF RefreshFails, Exchange
    <3> QED BY <3>1, <3>2, <3>3, <3>4
  <2>2. CASE UNCHANGED providerVars /\ (Ends(w, "called", "retryable") \/ Ends(w, "called", "shared"))
    BY <1>9, <2>2 DEF RefreshFails, Ends, GoTo
  <2> QED BY <1>9, <2>1, <2>2 DEF RefreshFails
<1>10. ASSUME NEW w \in Workers, Late(w) PROVE IssueInv'
  BY <1>10 DEF Late, Ends, GoTo
<1>11. ASSUME NEW w \in Workers, Failed(w) PROVE IssueInv'
  BY <1>11 DEF Failed, GoTo
<1>12. ASSUME NEW w \in Workers, Recover(w) PROVE IssueInv'
  BY <1>12 DEF Recover, Ends, GoTo
<1>13. ASSUME NEW w \in Workers, RecoverFails(w) PROVE IssueInv'
  BY <1>13 DEF RecoverFails, CallFails, Fault, GoTo
<1>14. ASSUME NEW w \in Workers, Persist(w) PROVE IssueInv'
  BY <1>14 DEF Persist, Store, Unchanged, Ends, GoTo
<1>15. ASSUME NEW w \in Workers, PersistFails(w) PROVE IssueInv'
  BY <1>15 DEF PersistFails, CallFails, Fault, Store, Unchanged, Ends, GoTo
<1>16. ASSUME NEW w \in Workers, Release(w) PROVE IssueInv'
  BY <1>16 DEF Release, GoTo
<1>17. ASSUME NEW w \in Workers, ReleaseFails(w) PROVE IssueInv'
  BY <1>17 DEF ReleaseFails, Fault, GoTo
<1>18. ASSUME NEW w \in Workers, Return(w) PROVE IssueInv'
  BY <1>18 DEF Return, Outcome, Idle, Ends, GoTo
<1>19. ASSUME NEW w \in Workers, Succeed(w) PROVE IssueInv'
  BY <1>19 DEF Succeed, Judges, Outcome, Idle, Ends, GoTo
<1>20. ASSUME NEW w \in Workers, SetError(w) PROVE IssueInv'
  BY <1>20 DEF SetError, Judges, Outcome, Unchanged, Idle, Ends, GoTo
<1>21. ASSUME NEW w \in Workers, Retry(w) PROVE IssueInv'
  BY <1>21 DEF Retry, Judges, Outcome, Ends, GoTo
<1>22. ASSUME NEW w \in Workers, SetTempUnschedulable(w) PROVE IssueInv'
  BY <1>22 DEF SetTempUnschedulable, Judges, Outcome, Unchanged, Idle, Ends, GoTo
<1>23. ASSUME NEW w \in Workers, JudgementFails(w) PROVE IssueInv'
  BY <1>23 DEF JudgementFails, Judges, Outcome, Fault, Idle, Ends, GoTo
<1>24. ASSUME NEW w \in Workers, Deadline(w) PROVE IssueInv'
  BY <1>24 DEF Deadline, InMutex, Bounded, Fault
<1>25. CASE Due
  BY <1>25 DEF Due
<1>26. CASE CooldownEnds
  BY <1>26 DEF CooldownEnds
<1>27. CASE Edit
  BY <1>27 DEF Edit, Arrives, Fault
<1>28. CASE ApplyOAuthCredentials
  BY <1>28 DEF ApplyOAuthCredentials, Arrives, Fault
<1>29. CASE RefreshByHand
  BY <1>29 DEF RefreshByHand, Arrives, Fault
<1>30. CASE ExchangeByHand
  <2>1. \A c \in live' : c \in live \/ c = issued + 1
    BY <1>30 DEF ExchangeByHand
  <2>2. live' \subseteq 1..issued'
    BY <1>30, <2>1 DEF ExchangeByHand
  <2> QED BY <1>30, <2>2 DEF ExchangeByHand
<1>31. CASE ReadRow
  BY <1>31 DEF ReadRow
<1>32. CASE SaveRow
  BY <1>32 DEF SaveRow
<1>33. CASE GiveUp
  BY <1>33 DEF GiveUp
<1>34. CASE ClearError
  BY <1>34 DEF ClearError
<1>35. CASE LockLapses
  BY <1>35 DEF LockLapses, Fault, Bounded
<1>36. ASSUME NEW p \in Procs, Crash(p) PROVE IssueInv'
  BY <1>36 DEF Crash, Fault
<1>37. CASE UNCHANGED vars
  BY <1>37 DEF vars
<1> QED
  BY <1>1, <1>2, <1>3, <1>4, <1>5, <1>6, <1>7, <1>8, <1>9, <1>10, <1>11, <1>12, <1>13,
     <1>14, <1>15, <1>16, <1>17, <1>18, <1>19, <1>20, <1>21, <1>22, <1>23, <1>24,
     <1>25, <1>26, <1>27, <1>28, <1>29, <1>30, <1>31, <1>32, <1>33,
     <1>34, <1>35, <1>36, <1>37 DEF Next

\* The bound leaves room as long as nothing is issued and nothing becomes open.
LEMMA RoomKept ==
    ASSUME Inv, OAuthTypeOK', Open' \subseteq Open, issued' = issued
    PROVE  RoomInv'
<1>1. IsFiniteSet(Open) /\ Cardinality(Open) \in Nat
  BY OpenFinite DEF Open, Inv
<1>2. Cardinality(Open') \in Nat /\ Cardinality(Open') <= Cardinality(Open)
  BY <1>1, FS_Subset, FS_CardinalityType
<1> QED BY <1>1, <1>2, OAuthAssumption DEF Inv, RoomInv, OAuthTypeOK, Creds

\* An exchange leaves room for all the others.
LEMMA RoomExchanged ==
    ASSUME Inv, OAuthTypeOK', NEW c \in Open, Open' \subseteq Open \ {c}, issued' = issued + 1
    PROVE  RoomInv'
<1>1. IsFiniteSet(Open) /\ Cardinality(Open) \in Nat
  BY OpenFinite DEF Open, Inv
<1>2. Cardinality(Open \ {c}) = Cardinality(Open) - 1
  BY ExchangeRoom
<1>3. IsFiniteSet(Open \ {c})
  BY <1>1, FS_Subset
<1>4. Cardinality(Open') \in Nat /\ Cardinality(Open') <= Cardinality(Open) - 1
  BY <1>2, <1>3, FS_Subset, FS_CardinalityType
<1> QED BY <1>1, <1>4, OAuthAssumption DEF Inv, RoomInv, OAuthTypeOK, Creds

\* A worker's exchange closes the credentials it uses.
LEMMA ExchangeCloses ==
    ASSUME Inv, NEW w \in Workers, pc[w] = "call", Exchange(w), GoTo(w, "called"),
           UNCHANGED <<creds, due, basis, adminVars>>
    PROVE  basis[w] \in Open /\ Open' \subseteq Open \ {basis[w]} /\ issued' = issued + 1
<1>1. basis[w] \in Open
  BY DEF Open, Exchangeable, AtProvider, Exchange
<1>2. Open' \subseteq Open \ {basis[w]}
  BY DEF Inv, OAuthTypeOK, IssueInv, Creds, Open, Exchangeable, AtProvider, Exchange, GoTo,
     adminVars
<1> QED BY <1>1, <1>2 DEF Exchange

\* A step leaves room for every exchange.
LEMMA RoomStep ==
    ASSUME Inv, OAuthTypeOK', [Next]_vars
    PROVE  RoomInv'
<1> USE OAuthAssumption DEF Inv, OAuthTypeOK, siteVars, accountVars, providerVars,
       callVars, ghostVars, adminVars
<1>1. ASSUME NEW w \in Workers, Start(w) PROVE RoomInv'
  <2>1. Open' \subseteq Open /\ issued' = issued
    BY <1>1 DEF Start, Eligible, GoTo, Open, Exchangeable, AtProvider
  <2> QED BY <2>1, RoomKept
<1>2. ASSUME NEW w \in Workers, LocalLock(w) PROVE RoomInv'
  <2>1. Open' \subseteq Open /\ issued' = issued
    BY <1>2 DEF LocalLock, MutexFree, InMutex, GoTo, Open, Exchangeable, AtProvider
  <2> QED BY <2>1, RoomKept
<1>3. ASSUME NEW w \in Workers, LocalLockTimeout(w) PROVE RoomInv'
  <2>1. Open' \subseteq Open /\ issued' = issued
    BY <1>3 DEF LocalLockTimeout, Ends, GoTo, Open, Exchangeable, AtProvider
  <2> QED BY <2>1, RoomKept
<1>4. ASSUME NEW w \in Workers, AcquireLock(w) PROVE RoomInv'
  <2>1. Open' \subseteq Open /\ issued' = issued
    BY <1>4 DEF AcquireLock, AcquireRefreshLock, Ends, GoTo, Open, Exchangeable, AtProvider
  <2> QED BY <2>1, RoomKept
<1>5. ASSUME NEW w \in Workers, Degrade(w) PROVE RoomInv'
  <2>1. Open' \subseteq Open /\ issued' = issued
    BY <1>5 DEF Degrade, CallFails, Fault, GoTo, Open, Exchangeable, AtProvider
  <2> QED BY <2>1, RoomKept
<1>6. ASSUME NEW w \in Workers, ReadAccount(w) PROVE RoomInv'
  <2>1. Open' \subseteq Open /\ issued' = issued
    BY <1>6 DEF ReadAccount, Ends, GoTo, Open, Exchangeable, AtProvider
  <2> QED BY <2>1, RoomKept
<1>7. ASSUME NEW w \in Workers, ReadFails(w) PROVE RoomInv'
  <2>1. Open' \subseteq Open /\ issued' = issued
    BY <1>7 DEF ReadFails, CallFails, Fault, Ends, GoTo, Open, Exchangeable, AtProvider
  <2> QED BY <2>1, RoomKept
<1>8. ASSUME NEW w \in Workers, Refresh(w) PROVE RoomInv'
  <2>1. CASE Exchange(w) /\ Ends(w, "called", "ok")
    BY <1>8, <2>1, ExchangeCloses, RoomExchanged DEF Refresh, Ends
  <2>2. CASE UNCHANGED <<live, issued, got>> /\ Ends(w, "called", "invalid_grant")
    <3>1. Open' \subseteq Open /\ issued' = issued
      BY <1>8, <2>2 DEF Refresh, Ends, GoTo, Open, Exchangeable, AtProvider
    <3> QED BY <3>1, RoomKept
  <2> QED BY <1>8, <2>1, <2>2 DEF Refresh
<1>9. ASSUME NEW w \in Workers, RefreshFails(w) PROVE RoomInv'
  <2>1. CASE Exchange(w) /\ Ends(w, "called", "retryable")
    BY <1>9, <2>1, ExchangeCloses, RoomExchanged DEF RefreshFails, Ends
  <2>2. CASE UNCHANGED providerVars /\ (Ends(w, "called", "retryable") \/ Ends(w, "called", "shared"))
    <3>1. Open' \subseteq Open /\ issued' = issued
      BY <1>9, <2>2 DEF RefreshFails, Ends, GoTo, Open, Exchangeable, AtProvider
    <3> QED BY <3>1, RoomKept
  <2> QED BY <1>9, <2>1, <2>2 DEF RefreshFails
<1>10. ASSUME NEW w \in Workers, Late(w) PROVE RoomInv'
  <2>1. Open' \subseteq Open /\ issued' = issued
    BY <1>10 DEF Late, Ends, GoTo, Open, Exchangeable, AtProvider
  <2> QED BY <2>1, RoomKept
<1>11. ASSUME NEW w \in Workers, Failed(w) PROVE RoomInv'
  <2>1. Open' \subseteq Open /\ issued' = issued
    BY <1>11 DEF Failed, GoTo, Open, Exchangeable, AtProvider
  <2> QED BY <2>1, RoomKept
<1>12. ASSUME NEW w \in Workers, Recover(w) PROVE RoomInv'
  <2>1. Open' \subseteq Open /\ issued' = issued
    BY <1>12 DEF Recover, Ends, GoTo, Open, Exchangeable, AtProvider
  <2> QED BY <2>1, RoomKept
<1>13. ASSUME NEW w \in Workers, RecoverFails(w) PROVE RoomInv'
  <2>1. Open' \subseteq Open /\ issued' = issued
    BY <1>13 DEF RecoverFails, CallFails, Fault, GoTo, Open, Exchangeable, AtProvider
  <2> QED BY <2>1, RoomKept
<1>14. ASSUME NEW w \in Workers, Persist(w) PROVE RoomInv'
  <2>1. Open' \subseteq Open /\ issued' = issued
    BY <1>14 DEF Persist, Store, Unchanged, Ends, GoTo, Open, Exchangeable, AtProvider
  <2> QED BY <2>1, RoomKept
<1>15. ASSUME NEW w \in Workers, PersistFails(w) PROVE RoomInv'
  <2>1. Open' \subseteq Open /\ issued' = issued
    BY <1>15 DEF PersistFails, CallFails, Fault, Store, Unchanged, Ends, GoTo, Open,
       Exchangeable, AtProvider
  <2> QED BY <2>1, RoomKept
<1>16. ASSUME NEW w \in Workers, Release(w) PROVE RoomInv'
  <2>1. Open' \subseteq Open /\ issued' = issued
    BY <1>16 DEF Release, GoTo, Open, Exchangeable, AtProvider
  <2> QED BY <2>1, RoomKept
<1>17. ASSUME NEW w \in Workers, ReleaseFails(w) PROVE RoomInv'
  <2>1. Open' \subseteq Open /\ issued' = issued
    BY <1>17 DEF ReleaseFails, Fault, GoTo, Open, Exchangeable, AtProvider
  <2> QED BY <2>1, RoomKept
<1>18. ASSUME NEW w \in Workers, Return(w) PROVE RoomInv'
  <2>1. Open' \subseteq Open /\ issued' = issued
    BY <1>18 DEF Return, Outcome, Idle, Ends, GoTo, Open, Exchangeable, AtProvider
  <2> QED BY <2>1, RoomKept
<1>19. ASSUME NEW w \in Workers, Succeed(w) PROVE RoomInv'
  <2>1. Open' \subseteq Open /\ issued' = issued
    BY <1>19 DEF Succeed, Judges, Outcome, Idle, Ends, GoTo, Open, Exchangeable, AtProvider
  <2> QED BY <2>1, RoomKept
<1>20. ASSUME NEW w \in Workers, SetError(w) PROVE RoomInv'
  <2>1. Open' \subseteq Open /\ issued' = issued
    BY <1>20 DEF SetError, Judges, Outcome, Unchanged, Idle, Ends, GoTo, Open,
       Exchangeable, AtProvider
  <2> QED BY <2>1, RoomKept
<1>21. ASSUME NEW w \in Workers, Retry(w) PROVE RoomInv'
  <2>1. Open' \subseteq Open /\ issued' = issued
    BY <1>21 DEF Retry, Judges, Outcome, Ends, GoTo, Open, Exchangeable, AtProvider
  <2> QED BY <2>1, RoomKept
<1>22. ASSUME NEW w \in Workers, SetTempUnschedulable(w) PROVE RoomInv'
  <2>1. Open' \subseteq Open /\ issued' = issued
    BY <1>22 DEF SetTempUnschedulable, Judges, Outcome, Unchanged, Idle, Ends, GoTo,
       Open, Exchangeable, AtProvider
  <2> QED BY <2>1, RoomKept
<1>23. ASSUME NEW w \in Workers, JudgementFails(w) PROVE RoomInv'
  <2>1. Open' \subseteq Open /\ issued' = issued
    BY <1>23 DEF JudgementFails, Judges, Outcome, Fault, Idle, Ends, GoTo, Open,
       Exchangeable, AtProvider
  <2> QED BY <2>1, RoomKept
<1>24. ASSUME NEW w \in Workers, Deadline(w) PROVE RoomInv'
  <2>1. Open' \subseteq Open /\ issued' = issued
    BY <1>24 DEF Deadline, InMutex, Bounded, Fault, Open, Exchangeable, AtProvider
  <2> QED BY <2>1, RoomKept
<1>25. CASE Due
  <2>1. Open' = Exchangeable({creds}) /\ issued' = issued
    BY <1>25 DEF Due, Open, Exchangeable, AtProvider
  <2> QED BY <1>25, <2>1 DEF Due, RoomInv
<1>26. CASE CooldownEnds
  <2>1. Open' \subseteq Open /\ issued' = issued
    BY <1>26 DEF CooldownEnds, Open, Exchangeable, AtProvider
  <2> QED BY <2>1, RoomKept
<1>27. CASE Edit
  <2>1. Open' \subseteq Open /\ issued' = issued
    BY <1>27 DEF Edit, Arrives, Open, Exchangeable, AtProvider
  <2> QED BY <2>1, RoomKept
<1>28. CASE ApplyOAuthCredentials
  <2>1. Open' \subseteq Open /\ issued' = issued + 1
    BY <1>28 DEF ApplyOAuthCredentials, Arrives, Open, Exchangeable, AtProvider, IssueInv, Creds
  <2>2. IsFiniteSet(Open) /\ Cardinality(Open) \in Nat
    BY OpenFinite DEF Open
  <2>3. Cardinality(Open') \in Nat /\ Cardinality(Open') <= Cardinality(Open)
    BY <2>1, <2>2, FS_Subset, FS_CardinalityType
  <2> QED BY <1>28, <2>1, <2>2, <2>3 DEF ApplyOAuthCredentials, RoomInv, Creds
<1>29. CASE RefreshByHand
  <2>1. Open' \subseteq Exchangeable({creds}) /\ issued' = issued
    BY <1>29 DEF RefreshByHand, Arrives, Open, Exchangeable, AtProvider
  <2>2. IsFiniteSet(Exchangeable({creds})) /\ Cardinality(Exchangeable({creds})) \in Nat
    BY OpenFinite
  <2>3. Cardinality(Open') \in Nat /\ Cardinality(Open') <= Cardinality(Exchangeable({creds}))
    BY <2>1, <2>2, FS_Subset, FS_CardinalityType
  <2> QED BY <1>29, <2>1, <2>2, <2>3 DEF RefreshByHand, RoomInv, Creds
<1>30. CASE ExchangeByHand
  <2>1. draft \in Open
    BY <1>30 DEF ExchangeByHand, Open, Exchangeable, AtProvider
  <2>2. Open' \subseteq Open \ {draft} /\ issued' = issued + 1
    BY <1>30 DEF ExchangeByHand, IssueInv, Creds, Open, Exchangeable, AtProvider
  <2> QED BY <2>1, <2>2, RoomExchanged
<1>31. CASE ReadRow
  <2>1. Open' \subseteq Open /\ issued' = issued
    BY <1>31 DEF ReadRow, Open, Exchangeable, AtProvider
  <2> QED BY <2>1, RoomKept
<1>32. CASE SaveRow
  <2>1. Open' \subseteq Open /\ issued' = issued
    BY <1>32 DEF SaveRow, Open, Exchangeable, AtProvider
  <2> QED BY <2>1, RoomKept
<1>33. CASE GiveUp
  <2>1. Open' \subseteq Open /\ issued' = issued
    BY <1>33 DEF GiveUp, Open, Exchangeable, AtProvider
  <2> QED BY <2>1, RoomKept
<1>34. CASE ClearError
  <2>1. Open' \subseteq Open /\ issued' = issued
    BY <1>34 DEF ClearError, Open, Exchangeable, AtProvider
  <2> QED BY <2>1, RoomKept
<1>35. CASE LockLapses
  <2>1. Open' \subseteq Open /\ issued' = issued
    BY <1>35 DEF LockLapses, Fault, Bounded, Open, Exchangeable, AtProvider
  <2> QED BY <2>1, RoomKept
<1>36. ASSUME NEW p \in Procs, Crash(p) PROVE RoomInv'
  <2>1. Open' \subseteq Open /\ issued' = issued
    BY <1>36 DEF Crash, Fault, Open, Exchangeable, AtProvider
  <2> QED BY <2>1, RoomKept
<1>37. CASE UNCHANGED vars
  <2>1. Open' \subseteq Open /\ issued' = issued
    BY <1>37 DEF vars, Open, Exchangeable, AtProvider
  <2> QED BY <2>1, RoomKept
<1> QED
  BY <1>1, <1>2, <1>3, <1>4, <1>5, <1>6, <1>7, <1>8, <1>9, <1>10, <1>11, <1>12, <1>13,
     <1>14, <1>15, <1>16, <1>17, <1>18, <1>19, <1>20, <1>21, <1>22, <1>23, <1>24,
     <1>25, <1>26, <1>27, <1>28, <1>29, <1>30, <1>31, <1>32, <1>33,
     <1>34, <1>35, <1>36, <1>37 DEF Next

\* A step keeps the lock with its owner.
LEMMA LockStep ==
    ASSUME OAuthTypeOK, LockInv, [Next]_vars
    PROVE  LockInv'
<1> USE DEF OAuthTypeOK, LockInv, Between, siteVars, accountVars, providerVars,
       callVars, ghostVars, adminVars
<1>1. ASSUME NEW w \in Workers, Start(w) PROVE LockInv'
  BY <1>1 DEF Start, Eligible, GoTo
<1>2. ASSUME NEW w \in Workers, LocalLock(w) PROVE LockInv'
  BY <1>2 DEF LocalLock, MutexFree, InMutex, GoTo
<1>3. ASSUME NEW w \in Workers, LocalLockTimeout(w) PROVE LockInv'
  BY <1>3 DEF LocalLockTimeout, Ends, GoTo
<1>4. ASSUME NEW w \in Workers, AcquireLock(w) PROVE LockInv'
  BY <1>4 DEF AcquireLock, AcquireRefreshLock, Ends, GoTo
<1>5. ASSUME NEW w \in Workers, Degrade(w) PROVE LockInv'
  BY <1>5 DEF Degrade, CallFails, Fault, GoTo
<1>6. ASSUME NEW w \in Workers, ReadAccount(w) PROVE LockInv'
  BY <1>6 DEF ReadAccount, Ends, GoTo
<1>7. ASSUME NEW w \in Workers, ReadFails(w) PROVE LockInv'
  BY <1>7 DEF ReadFails, CallFails, Fault, Ends, GoTo
<1>8. ASSUME NEW w \in Workers, Refresh(w) PROVE LockInv'
  BY <1>8 DEF Refresh, Exchange, Ends, GoTo
<1>9. ASSUME NEW w \in Workers, RefreshFails(w) PROVE LockInv'
  BY <1>9 DEF RefreshFails, Exchange, Fault, Ends, GoTo
<1>10. ASSUME NEW w \in Workers, Late(w) PROVE LockInv'
  BY <1>10 DEF Late, Ends, GoTo
<1>11. ASSUME NEW w \in Workers, Failed(w) PROVE LockInv'
  BY <1>11 DEF Failed, GoTo
<1>12. ASSUME NEW w \in Workers, Recover(w) PROVE LockInv'
  BY <1>12 DEF Recover, Ends, GoTo
<1>13. ASSUME NEW w \in Workers, RecoverFails(w) PROVE LockInv'
  BY <1>13 DEF RecoverFails, CallFails, Fault, GoTo
<1>14. ASSUME NEW w \in Workers, Persist(w) PROVE LockInv'
  BY <1>14 DEF Persist, Store, Unchanged, Ends, GoTo
<1>15. ASSUME NEW w \in Workers, PersistFails(w) PROVE LockInv'
  BY <1>15 DEF PersistFails, CallFails, Fault, Store, Unchanged, Ends, GoTo
<1>16. ASSUME NEW w \in Workers, Release(w) PROVE LockInv'
  BY <1>16 DEF Release, GoTo
<1>17. ASSUME NEW w \in Workers, ReleaseFails(w) PROVE LockInv'
  BY <1>17 DEF ReleaseFails, Fault, GoTo
<1>18. ASSUME NEW w \in Workers, Return(w) PROVE LockInv'
  BY <1>18 DEF Return, Outcome, Idle, Ends, GoTo
<1>19. ASSUME NEW w \in Workers, Succeed(w) PROVE LockInv'
  BY <1>19 DEF Succeed, Judges, Outcome, Idle, Ends, GoTo
<1>20. ASSUME NEW w \in Workers, SetError(w) PROVE LockInv'
  BY <1>20 DEF SetError, Judges, Outcome, Unchanged, Idle, Ends, GoTo
<1>21. ASSUME NEW w \in Workers, Retry(w) PROVE LockInv'
  BY <1>21 DEF Retry, Judges, Outcome, Ends, GoTo
<1>22. ASSUME NEW w \in Workers, SetTempUnschedulable(w) PROVE LockInv'
  BY <1>22 DEF SetTempUnschedulable, Judges, Outcome, Unchanged, Idle, Ends, GoTo
<1>23. ASSUME NEW w \in Workers, JudgementFails(w) PROVE LockInv'
  BY <1>23 DEF JudgementFails, Judges, Outcome, Fault, Idle, Ends, GoTo
<1>24. ASSUME NEW w \in Workers, Deadline(w) PROVE LockInv'
  BY <1>24 DEF Deadline, InMutex, Bounded, Fault
<1>25. CASE Due
  BY <1>25 DEF Due
<1>26. CASE CooldownEnds
  BY <1>26 DEF CooldownEnds
<1>27. CASE Edit
  BY <1>27 DEF Edit, Arrives, Fault
<1>28. CASE ApplyOAuthCredentials
  BY <1>28 DEF ApplyOAuthCredentials, Arrives, Fault
<1>29. CASE RefreshByHand
  BY <1>29 DEF RefreshByHand, Arrives, Fault
<1>30. CASE ExchangeByHand
  BY <1>30 DEF ExchangeByHand
<1>31. CASE ReadRow
  BY <1>31 DEF ReadRow
<1>32. CASE SaveRow
  BY <1>32 DEF SaveRow
<1>33. CASE GiveUp
  BY <1>33 DEF GiveUp
<1>34. CASE ClearError
  BY <1>34 DEF ClearError
<1>35. CASE LockLapses
  BY <1>35 DEF LockLapses, Fault, Bounded
<1>36. ASSUME NEW p \in Procs, Crash(p) PROVE LockInv'
  BY <1>36 DEF Crash, Fault
<1>37. CASE UNCHANGED vars
  BY <1>37 DEF vars
<1> QED
  BY <1>1, <1>2, <1>3, <1>4, <1>5, <1>6, <1>7, <1>8, <1>9, <1>10, <1>11, <1>12, <1>13,
     <1>14, <1>15, <1>16, <1>17, <1>18, <1>19, <1>20, <1>21, <1>22, <1>23, <1>24,
     <1>25, <1>26, <1>27, <1>28, <1>29, <1>30, <1>31, <1>32, <1>33,
     <1>34, <1>35, <1>36, <1>37 DEF Next

\* A step keeps refused tokens dead.
LEMMA TokenStep ==
    ASSUME Inv, LockInv, TokenInv, AdminInv, [Next]_vars
    PROVE  TokenInv'
<1> USE DEF Inv, OAuthTypeOK, IssueInv, LockInv, TokenInv, Between, Exchanged,
       Refused, Creds, siteVars, accountVars, providerVars, callVars, ghostVars, adminVars
<1>1. ASSUME NEW w \in Workers, Start(w) PROVE TokenInv'
  BY <1>1 DEF Start, Eligible, GoTo
<1>2. ASSUME NEW w \in Workers, LocalLock(w) PROVE TokenInv'
  BY <1>2 DEF LocalLock, MutexFree, InMutex, GoTo
<1>3. ASSUME NEW w \in Workers, LocalLockTimeout(w) PROVE TokenInv'
  BY <1>3 DEF LocalLockTimeout, Ends, GoTo
<1>4. ASSUME NEW w \in Workers, AcquireLock(w) PROVE TokenInv'
  BY <1>4 DEF AcquireLock, AcquireRefreshLock, Ends, GoTo
<1>5. ASSUME NEW w \in Workers, Degrade(w) PROVE TokenInv'
  BY <1>5 DEF Degrade, CallFails, Fault, GoTo
<1>6. ASSUME NEW w \in Workers, ReadAccount(w) PROVE TokenInv'
  BY <1>6 DEF ReadAccount, Ends, GoTo
<1>7. ASSUME NEW w \in Workers, ReadFails(w) PROVE TokenInv'
  BY <1>7 DEF ReadFails, CallFails, Fault, Ends, GoTo
<1>8. ASSUME NEW w \in Workers, Refresh(w) PROVE TokenInv'
  BY <1>8 DEF Refresh, Exchange, Ends, GoTo
<1>9. ASSUME NEW w \in Workers, RefreshFails(w) PROVE TokenInv'
  BY <1>9 DEF RefreshFails, Exchange, Fault, Ends, GoTo
<1>10. ASSUME NEW w \in Workers, Late(w) PROVE TokenInv'
  BY <1>10 DEF Late, Ends, GoTo
<1>11. ASSUME NEW w \in Workers, Failed(w) PROVE TokenInv'
  BY <1>11 DEF Failed, GoTo
<1>12. ASSUME NEW w \in Workers, Recover(w) PROVE TokenInv'
  BY <1>12 DEF Recover, Ends, GoTo
<1>13. ASSUME NEW w \in Workers, RecoverFails(w) PROVE TokenInv'
  BY <1>13 DEF RecoverFails, CallFails, Fault, GoTo
<1>14. ASSUME NEW w \in Workers, Persist(w) PROVE TokenInv'
  BY <1>14 DEF Persist, Store, Unchanged, Ends, GoTo
<1>15. ASSUME NEW w \in Workers, PersistFails(w) PROVE TokenInv'
  BY <1>15 DEF PersistFails, CallFails, Fault, Store, Unchanged, Ends, GoTo
<1>16. ASSUME NEW w \in Workers, Release(w) PROVE TokenInv'
  BY <1>16 DEF Release, GoTo
<1>17. ASSUME NEW w \in Workers, ReleaseFails(w) PROVE TokenInv'
  BY <1>17 DEF ReleaseFails, Fault, GoTo
<1>18. ASSUME NEW w \in Workers, Return(w) PROVE TokenInv'
  BY <1>18 DEF Return, Outcome, Idle, Ends, GoTo
<1>19. ASSUME NEW w \in Workers, Succeed(w) PROVE TokenInv'
  BY <1>19 DEF Succeed, Judges, Outcome, Idle, Ends, GoTo
<1>20. ASSUME NEW w \in Workers, SetError(w) PROVE TokenInv'
  BY <1>20 DEF SetError, Judges, Outcome, Unchanged, Idle, Ends, GoTo
<1>21. ASSUME NEW w \in Workers, Retry(w) PROVE TokenInv'
  BY <1>21 DEF Retry, Judges, Outcome, Ends, GoTo
<1>22. ASSUME NEW w \in Workers, SetTempUnschedulable(w) PROVE TokenInv'
  BY <1>22 DEF SetTempUnschedulable, Judges, Outcome, Unchanged, Idle, Ends, GoTo
<1>23. ASSUME NEW w \in Workers, JudgementFails(w) PROVE TokenInv'
  BY <1>23 DEF JudgementFails, Judges, Outcome, Fault, Idle, Ends, GoTo
<1>24. ASSUME NEW w \in Workers, Deadline(w) PROVE TokenInv'
  BY <1>24 DEF Deadline, InMutex, Bounded, Fault
<1>25. CASE Due
  BY <1>25 DEF Due
<1>26. CASE CooldownEnds
  BY <1>26 DEF CooldownEnds
<1>27. CASE Edit
  BY <1>27 DEF Edit, Arrives, Fault
<1>28. CASE ApplyOAuthCredentials
  <2>1. \A c \in live' : c \in live \/ c = issued + 1
    BY <1>28 DEF ApplyOAuthCredentials
  <2>2. \A w \in Workers : held[w] # issued + 1 /\ basis[w] # issued + 1
    BY <1>28
  <2> QED BY <1>28, <2>1, <2>2 DEF ApplyOAuthCredentials, Arrives
<1>29. CASE RefreshByHand
  BY <1>29 DEF RefreshByHand, Arrives, Fault
<1>30. CASE ExchangeByHand
  <2>1. \A c \in live' : c \in live \/ c = issued + 1
    BY <1>30 DEF ExchangeByHand
  <2>2. \A w \in Workers : held[w] # issued + 1 /\ basis[w] # issued + 1
    BY <1>30
  <2> QED BY <1>30, <2>1, <2>2 DEF ExchangeByHand
<1>31. CASE ReadRow
  BY <1>31 DEF ReadRow
<1>32. CASE SaveRow
  BY <1>32 DEF SaveRow, AdminInv
<1>33. CASE GiveUp
  BY <1>33 DEF GiveUp
<1>34. CASE ClearError
  BY <1>34 DEF ClearError
<1>35. CASE LockLapses
  BY <1>35 DEF LockLapses, Fault, Bounded
<1>36. ASSUME NEW p \in Procs, Crash(p) PROVE TokenInv'
  BY <1>36 DEF Crash, Fault
<1>37. CASE UNCHANGED vars
  BY <1>37 DEF vars
<1> QED
  BY <1>1, <1>2, <1>3, <1>4, <1>5, <1>6, <1>7, <1>8, <1>9, <1>10, <1>11, <1>12, <1>13,
     <1>14, <1>15, <1>16, <1>17, <1>18, <1>19, <1>20, <1>21, <1>22, <1>23, <1>24,
     <1>25, <1>26, <1>27, <1>28, <1>29, <1>30, <1>31, <1>32, <1>33,
     <1>34, <1>35, <1>36, <1>37 DEF Next

\* A step keeps an administrator's request and refreshes apart, or notices.
LEMMA AdminStep ==
    ASSUME Inv, AdminInv, [Next]_vars
    PROVE  AdminInv'
<1> USE DEF Inv, OAuthTypeOK, IssueInv, AdminInv, Creds, siteVars, accountVars, callVars,
       ghostVars, adminVars
<1>1. ASSUME NEW w \in Workers, Start(w) PROVE AdminInv'
  BY <1>1 DEF Start
<1>2. ASSUME NEW step, NEW c \in Nat, Arrives(step, c), c >= creds PROVE AdminInv'
  <2>1. ~beside' => \A w \in Workers : pc[w] = "idle"
    BY <1>2, Zenon DEF Arrives
  <2> QED BY <1>2, <2>1 DEF Arrives
<1>3. CASE Edit \/ RefreshByHand
  BY <1>2, <1>3 DEF Edit, RefreshByHand
<1>4. CASE ApplyOAuthCredentials
  BY <1>2, <1>4 DEF ApplyOAuthCredentials
<1>5. CASE ExchangeByHand
  BY <1>5 DEF ExchangeByHand
<1>6. CASE ReadRow
  BY <1>6 DEF ReadRow
<1>7. CASE SaveRow \/ GiveUp
  BY <1>7 DEF SaveRow, GiveUp
<1>8. CASE Due \/ CooldownEnds \/ ClearError \/ LockLapses \/ UNCHANGED vars
  BY <1>8 DEF Due, CooldownEnds, ClearError, LockLapses, vars
<1>9. ASSUME NEW p \in Procs, Crash(p) PROVE AdminInv'
  BY <1>9 DEF Crash
<1>10. ASSUME NEW w \in Workers, pc[w] # "idle", UNCHANGED <<adminVars, beside>>
       PROVE AdminInv'
  BY <1>10
<1>11. \/ \E w \in Workers : Start(w) \/ (pc[w] # "idle" /\ UNCHANGED <<adminVars, beside>>)
       \/ Edit \/ ApplyOAuthCredentials \/ RefreshByHand \/ ExchangeByHand \/ ReadRow
       \/ SaveRow \/ GiveUp
       \/ Due \/ CooldownEnds \/ ClearError \/ LockLapses \/ UNCHANGED vars
       \/ \E p \in Procs : Crash(p)
  BY DEF Next, LocalLock, LocalLockTimeout, AcquireLock, Degrade, ReadAccount, ReadFails,
     Refresh, RefreshFails, Late, Failed, Recover, RecoverFails, Persist, PersistFails,
     Release, ReleaseFails, Return, Succeed, SetError, Retry, SetTempUnschedulable,
     JudgementFails, Judges, Deadline, InMutex
<1> QED BY <1>1, <1>3, <1>4, <1>5, <1>6, <1>7, <1>8, <1>9, <1>10, <1>11

\* Only a worker that was given credentials for the ones in the row, and an
\* administrator's request that is over with it, write the credentials.
LEMMA NeverOlderStep ==
    ASSUME Inv, TokenInv, AdminInv, [Next]_vars
    PROVE  /\ grok /\ UNCHANGED admin => creds' >= creds
           /\ ~(slipped \/ beside) => creds' >= creds
<1>1. /\ creds \in Nat /\ issued \in Nat
      /\ \A w \in Workers : got[w] \in Nat /\ basis[w] \in Nat
  BY DEF Inv, OAuthTypeOK, Creds
<1>2. ASSUME NEW w \in Workers, Persist(w) \/ PersistFails(w), grok \/ ~(slipped \/ beside)
      PROVE  creds' >= creds
  <2>1. got[w] > basis[w]
    BY <1>2 DEF Persist, PersistFails, Inv, IssueInv, Exchanged
  <2>2. creds' # creds => creds' = got[w] /\ creds = basis[w]
    BY <1>2 DEF Persist, PersistFails, Store, Unchanged, TokenInv, Between,
       accountVars
  <2> QED BY <1>1, <2>1, <2>2
<1>3. CASE SaveRow
  BY <1>1, <1>3 DEF SaveRow, AdminInv
<1>4. CASE UNCHANGED creds
  BY <1>1, <1>4
<1>5. \/ \E w \in Workers : Persist(w) \/ PersistFails(w)
      \/ SaveRow
      \/ UNCHANGED creds
  BY DEF Next, vars, accountVars, Start, LocalLock, LocalLockTimeout, AcquireLock,
     Degrade, ReadAccount, ReadFails, Refresh, RefreshFails, Late, Failed, Recover,
     RecoverFails, Release, ReleaseFails, Return, Succeed, SetError, Retry,
     SetTempUnschedulable, JudgementFails, Deadline, Due, CooldownEnds, Edit,
     ApplyOAuthCredentials, RefreshByHand, Arrives, ExchangeByHand, ReadRow, GiveUp,
     ClearError, LockLapses, Crash
<1> QED BY <1>2, <1>3, <1>4, <1>5

\* Only SetError disables, and it knows that the token was refused.
LEMMA DisablesOnlyDeadStep ==
    ASSUME Inv, TokenInv, [Next]_vars, status = "active", status' = "error", UNCHANGED admin,
           grok \/ ~(slipped \/ beside)
    PROVE  creds \notin live
<1>1. ASSUME NEW w \in Workers, SetError(w) PROVE creds \notin live
  <2>1. Refused(w) /\ Unchanged(w, held[w])
    BY <1>1 DEF SetError, Judges, Outcome, Refused
  <2>2. held[w] \notin live /\ creds = held[w]
    BY <2>1 DEF TokenInv, Unchanged
  <2> QED BY <2>2
<1>2. \/ \E w \in Workers : SetError(w)
      \/ SaveRow \/ ClearError
      \/ UNCHANGED status
  BY DEF Next, vars, accountVars, Start, LocalLock, LocalLockTimeout, AcquireLock,
     Degrade, ReadAccount, ReadFails, Refresh, RefreshFails, Late, Failed, Recover,
     RecoverFails, Persist, PersistFails, Store, Release, ReleaseFails, Return, Succeed,
     Retry, SetTempUnschedulable, JudgementFails, Deadline, Due, CooldownEnds, Edit,
     ApplyOAuthCredentials, RefreshByHand, Arrives, ExchangeByHand, ReadRow, GiveUp,
     LockLapses, Crash
<1> QED BY <1>1, <1>2 DEF SaveRow, ClearError

\* The inductive invariant.
THEOREM InvCorrect == Spec => [](Inv /\ LockInv /\ TokenInv /\ AdminInv)
<1>1. Init => Inv /\ LockInv /\ TokenInv /\ AdminInv
  <2> SUFFICES ASSUME Init PROVE Inv /\ LockInv /\ TokenInv /\ AdminInv
    OBVIOUS
  <2>1. OAuthTypeOK
    <3>1. grok \in BOOLEAN /\ home \in [Workers -> Procs] /\ kind \in [Workers -> Kinds]
      BY OAuthAssumption DEF Init
    <3>2. /\ creds \in Creds /\ issued \in Creds /\ live \in SUBSET Creds
          /\ faults \in 0..MaxFaults /\ tries \in [Workers -> 0..MaxRetries - 1]
      BY OAuthAssumption DEF Init, Creds
    <3> QED BY <3>1, <3>2 DEF Init, OAuthTypeOK, Positions, Results
  <2>2. IssueInv /\ LockInv /\ TokenInv /\ AdminInv
    BY DEF Init, IssueInv, LockInv, TokenInv, AdminInv, Between, Exchanged, Refused
  <2>3. Open = {}
    BY DEF Init, Open, Exchangeable, AtProvider
  <2>4. RoomInv
    BY <2>1, <2>3, FS_EmptySet, OAuthAssumption DEF RoomInv, OAuthTypeOK, Creds
  <2> QED BY <2>1, <2>2, <2>4 DEF Inv
<1>2. /\ Inv /\ LockInv /\ TokenInv /\ AdminInv /\ [Next]_vars
      => (Inv /\ LockInv /\ TokenInv /\ AdminInv)'
  <2> SUFFICES ASSUME Inv, LockInv, TokenInv, AdminInv, [Next]_vars
               PROVE  (Inv /\ LockInv /\ TokenInv /\ AdminInv)'
    OBVIOUS
  <2>1. OAuthTypeOK' /\ IssueInv'
    BY TypeStep, IssueStep
  <2>2. RoomInv'
    BY <2>1, RoomStep
  <2>3. LockInv' /\ TokenInv' /\ AdminInv'
    BY LockStep, TokenStep, AdminStep DEF Inv
  <2> QED BY <2>1, <2>2, <2>3 DEF Inv
<1> QED BY <1>1, <1>2, PTL DEF Spec

\* Every variable of the refresh of a token keeps its type; that issued stays
\* within its bound is the part that needs RoomInv.
THEOREM OAuthTypeCorrect == Spec => []OAuthTypeOK
<1>1. Inv => OAuthTypeOK
  BY DEF Inv
<1> QED BY <1>1, InvCorrect, PTL

\* RefreshIfNeeded: while every refresh keeps its Redis lock, at most one worker
\* of all processes is between its read of the account and the end of its attempt.
THEOREM ExclusiveRefreshCorrect == Spec => []ExclusiveRefresh
<1>1. LockInv => ExclusiveRefresh
  BY DEF LockInv, ExclusiveRefresh, Between
<1> QED BY <1>1, InvCorrect, PTL

\* UpdateGrokOAuthCredentialsIfUnchanged and UpdateCredentials: no step of a
\* refresh takes Grok's stored credentials back to older ones, whatever happens to
\* the lock and whoever else writes the row; no step at all does, an
\* administrator's included, while the lock holds and nobody else crosses a refresh.
THEOREM NeverOlderCorrect == Spec => NeverOlder
<1>1. Inv /\ LockInv /\ TokenInv /\ AdminInv /\ [Next]_vars =>
        [/\ grok /\ UNCHANGED admin => creds' >= creds
         /\ ~(slipped \/ beside) => creds' >= creds]_vars
  BY NeverOlderStep
<1> QED BY <1>1, InvCorrect, PTL DEF Spec, NeverOlder

\* SetError: the refresh token in the row of an account that a refresh disables is
\* dead at that moment, on Grok whatever happened, elsewhere as long as refreshes
\* keep their lock and no other writer crosses one.
THEOREM DisablesOnlyDeadCorrect == Spec => DisablesOnlyDead
<1>1. Inv /\ LockInv /\ TokenInv /\ AdminInv /\ [Next]_vars =>
        [/\ status = "active" /\ status' = "error" /\ UNCHANGED admin
         /\ grok \/ ~(slipped \/ beside)
         => creds \notin live]_vars
  BY DisablesOnlyDeadStep
<1> QED BY <1>1, InvCorrect, PTL DEF Spec, DisablesOnlyDead

=============================================================================
