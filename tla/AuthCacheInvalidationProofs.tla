--------------------- MODULE AuthCacheInvalidationProofs ---------------------
(***************************************************************************)
(* Type correctness of AuthCacheInvalidation and its safety property, for  *)
(* any number of processes, requests, versions and faults, and any delays  *)
(* with a safety delay longer than a read.                                 *)
(***************************************************************************)
EXTENDS AuthCacheInvalidation, TLAPS

Steps == {"none", "delete", "publish", "ack", "retry"}

\* A worker is at the second pass of a row.
Second(p, e) == e \in pending /\ work[p][e] # "none" /\ seen[p][e] = 1

\* What a request is about to store, and what is stored, was read from the
\* database; L2 has versions of an existing key only.
ReaderInv ==
    /\ l2 # NoEntry => Found(l2)
    /\ \A r \in Requests : Holding(r) => val[r] \in Versions
    /\ \A r \in Requests : req[r] = "share" => Found(val[r])
    /\ ~late => \A r \in Requests : Holding(r) => age[r] <= MaxRead

\* Rows and deliveries are those of changes that were made.
RowInv ==
    /\ \A e \in pending : e <= db
    /\ \A e \in Events \ pending : stage[e] = 0
    /\ \A p \in Procs, e \in Events : work[p][e] # "none" => e <= db

\* So are the events that ever were.
LoudInv == \A e \in loud : e <= db

\* A claim is for the stage that its owner knows, and a worker at the second pass,
\* even one that lost its claim, has not missed another stage.
ClaimInv ==
    /\ \A p \in Procs, e \in Events : Second(p, e) => stage[e] = 1
    /\ \A p \in Procs, e \in pending :
        claim[e] = p /\ work[p][e] # "none" => seen[p][e] = stage[e]

EventInv == RowInv /\ ClaimInv

\* Between the passes of a row, a request that holds an older version is at least
\* as old as the time passed since the first: none is left when the second begins.
AgeInv == ~late =>
    \A e \in pending, r \in Requests :
        stage[e] = 1 /\ Holding(r) /\ val[r] < e => age[r] + wait[e] >= SafetyDelay

\* From then on nobody can bring back what the second pass deletes.
PassInv == ~late =>
    \A p \in Procs, e \in pending :
        Second(p, e) =>
            /\ \A r \in Requests : Holding(r) => val[r] >= e
            /\ work[p][e] \in {"publish", "ack"} => l2 = NoEntry \/ l2 >= e

---------------------------------------------------------------------------

\* What the assignments to the state of one delivery do.
LEMMA GoesEffect ==
    ASSUME AuthCacheTypeOK, NEW p \in Procs, NEW e \in Events, NEW s \in Steps, Goes(p, e, s)
    PROVE  /\ work' \in [Procs -> [Events -> Steps]]
           /\ \A q \in Procs, d \in Events :
                work'[q][d] = IF q = p /\ d = e THEN s ELSE work[q][d]
BY DEF AuthCacheTypeOK, Goes, Steps

\* What Settled does to the stage a worker knows.
LEMMA SeenEffect ==
    ASSUME AuthCacheTypeOK, NEW p \in Procs, NEW e \in Events,
           seen' = [seen EXCEPT ![p][e] = 0]
    PROVE  /\ seen' \in [Procs -> [Events -> 0..1]]
           /\ \A q \in Procs, d \in Events :
                seen'[q][d] = IF q = p /\ d = e THEN 0 ELSE seen[q][d]
BY DEF AuthCacheTypeOK

\* What a claim does to the deliveries of its worker.
LEMMA ClaimEffect ==
    ASSUME AuthCacheTypeOK, NEW p \in Procs, Claim(p)
    PROVE  /\ work' \in [Procs -> [Events -> Steps]] /\ seen' \in [Procs -> [Events -> 0..1]]
           /\ \A q \in Procs, e \in Events :
                work'[q][e] = IF q = p /\ Claimable(e) THEN "delete" ELSE work[q][e]
           /\ \A q \in Procs, e \in Events :
                seen'[q][e] = IF q = p /\ Claimable(e) THEN stage[e] ELSE seen[q][e]
<1> USE DEF AuthCacheTypeOK, Steps
<1> DEFINE batch == {e \in Events : Claimable(e)}
           w == [e \in Events |-> IF e \in batch THEN "delete" ELSE work[p][e]]
           s == [e \in Events |-> IF e \in batch THEN stage[e] ELSE seen[p][e]]
<1>1. w \in [Events -> Steps] /\ s \in [Events -> 0..1]
  OBVIOUS
<1>2. work' = [work EXCEPT ![p] = w] /\ seen' = [seen EXCEPT ![p] = s]
  BY DEF Claim
<1>3. /\ \A e \in Events : w[e] = IF Claimable(e) THEN "delete" ELSE work[p][e]
      /\ \A e \in Events : s[e] = IF Claimable(e) THEN stage[e] ELSE seen[p][e]
  OBVIOUS
<1> HIDE DEF w, s
<1> QED BY <1>1, <1>2, <1>3

\* A crash ends the deliveries of its process.
LEMMA CrashEffect ==
    ASSUME AuthCacheTypeOK, NEW p \in Procs, Crash(p)
    PROVE  /\ work' \in [Procs -> [Events -> Steps]] /\ seen' \in [Procs -> [Events -> 0..1]]
           /\ \A q \in Procs, e \in Events : work'[q][e] = IF q = p THEN "none" ELSE work[q][e]
           /\ \A q \in Procs, e \in Events : seen'[q][e] = IF q = p THEN 0 ELSE seen[q][e]
<1> USE DEF AuthCacheTypeOK, Steps
<1> DEFINE w == [e \in Events |-> "none"]
           s == [e \in Events |-> 0]
<1>1. /\ w \in [Events -> Steps] /\ s \in [Events -> 0..1]
      /\ \A e \in Events : w[e] = "none" /\ s[e] = 0
  OBVIOUS
<1>2. work' = [work EXCEPT ![p] = w] /\ seen' = [seen EXCEPT ![p] = s]
  BY DEF Crash
<1> HIDE DEF w, s
<1> QED BY <1>1, <1>2

\* A row that is given back.
LEMMA UnclaimTypes ==
    ASSUME AuthCacheTypeOK, NEW e \in Events, NEW n \in Nat, Unclaim(e, n)
    PROVE  /\ wait' \in [Events -> Nat]
           /\ claim' \in [Events -> Procs \cup {NoOne, Dead}] /\ lease' \in [Events -> 0..Lease]
BY AuthCacheAssumption DEF AuthCacheTypeOK, Unclaim

\* Time passes down to zero.
LEMMA ElapseTypes ==
    ASSUME AuthCacheTypeOK, Elapse
    PROVE  /\ wait' \in [Events -> Nat] /\ lease' \in [Events -> 0..Lease]
           /\ age' \in [Requests -> Nat]
<1>1. \A n \in Nat : Left(n) \in Nat /\ Left(n) <= n
  BY DEF Left
<1>2. Lease \in Nat
  BY AuthCacheAssumption
<1> QED BY <1>1, <1>2 DEF AuthCacheTypeOK, Elapse

\* A step keeps the types.
LEMMA TypeStep ==
    ASSUME AuthCacheTypeOK, [Next]_vars
    PROVE  AuthCacheTypeOK'
<1> USE AuthCacheAssumption DEF AuthCacheTypeOK, Entries, outboxVars,
       cacheVars, workVars, reqVars
<1>1. CASE Write
  <2>1. db' \in Versions /\ db + 1 \in Events
    BY <1>1 DEF Write, Change, Versions, Events, Deleted
  <2>2. pending' \in SUBSET Events /\ loud' \in SUBSET Events
    BY <1>1, <2>1 DEF Write, Change
  <2> QED BY <1>1, <2>1, <2>2 DEF Write, Change
<1>2. ASSUME NEW p \in Procs, ExpireL1(p) PROVE AuthCacheTypeOK'
  BY <1>2 DEF ExpireL1
<1>3. ASSUME NEW p \in Procs, Claim(p) PROVE AuthCacheTypeOK'
  <2>1. work' \in [Procs -> [Events -> Steps]] /\ seen' \in [Procs -> [Events -> 0..1]]
    BY <1>3, ClaimEffect
  <2>2. claim' \in [Events -> Procs \cup {NoOne, Dead}] /\ lease' \in [Events -> 0..Lease]
    BY <1>3 DEF Claim
  <2> QED BY <1>3, <2>1, <2>2 DEF Claim, Steps
<1>4. ASSUME NEW p \in Procs, Crash(p) PROVE AuthCacheTypeOK'
  <2>1. work' \in [Procs -> [Events -> Steps]] /\ seen' \in [Procs -> [Events -> 0..1]]
    BY <1>4, CrashEffect
  <2>2. faults' \in 0..MaxFaults
    BY <1>4 DEF Crash, Fault
  <2>3. /\ claim' \in [Events -> Procs \cup {NoOne, Dead}] /\ l1' \in [Procs -> Entries]
        /\ at' \in [Requests -> Procs \cup {NoOne}] /\ age' \in [Requests -> Nat]
    BY <1>4 DEF Crash
  <2>4. /\ req' \in [Requests -> {"idle", "fill", "loaded", "share"}]
        /\ val' \in [Requests -> Entries]
    BY <1>4 DEF Crash
  <2> QED BY <1>4, <2>1, <2>2, <2>3, <2>4 DEF Crash, Steps
<1>5. ASSUME NEW p \in Procs, NEW e \in Events, DeleteAuthCache(p, e) PROVE AuthCacheTypeOK'
  BY <1>5 DEF DeleteAuthCache, Goes
<1>6. ASSUME NEW p \in Procs, NEW e \in Events, DeleteFails(p, e) PROVE AuthCacheTypeOK'
  <2>1. work' \in [Procs -> [Events -> Steps]]
    BY <1>6, GoesEffect DEF DeleteFails, Steps
  <2>2. faults' \in 0..MaxFaults /\ l2' \in Entries /\ l1' \in [Procs -> Entries]
    BY <1>6 DEF DeleteFails, Fault, Sent
  <2> QED BY <1>6, <2>1, <2>2 DEF DeleteFails, Steps
<1>7. ASSUME NEW p \in Procs, NEW e \in Events, Publish(p, e) PROVE AuthCacheTypeOK'
  BY <1>7 DEF Publish, Sent, Goes
<1>8. ASSUME NEW p \in Procs, NEW e \in Events, PublishFails(p, e) PROVE AuthCacheTypeOK'
  <2>1. work' \in [Procs -> [Events -> Steps]]
    BY <1>8, GoesEffect DEF PublishFails, Steps
  <2>2. faults' \in 0..MaxFaults /\ l1' \in [Procs -> Entries]
    BY <1>8 DEF PublishFails, Fault, Sent
  <2> QED BY <1>8, <2>1, <2>2 DEF PublishFails, Steps
<1>9. ASSUME NEW p \in Procs, NEW e \in Events, ScheduleSecondPass(p, e) PROVE AuthCacheTypeOK'
  <2>1. work' \in [Procs -> [Events -> Steps]] /\ seen' \in [Procs -> [Events -> 0..1]]
    BY <1>9, GoesEffect, SeenEffect DEF ScheduleSecondPass, Settled, Steps
  <2>2. /\ wait' \in [Events -> Nat]
        /\ claim' \in [Events -> Procs \cup {NoOne, Dead}] /\ lease' \in [Events -> 0..Lease]
    BY <1>9, UnclaimTypes DEF ScheduleSecondPass
  <2>3. stage' \in [Events -> 0..1]
    BY <1>9 DEF ScheduleSecondPass
  <2>4. pending' \in SUBSET Events
    BY <1>9 DEF ScheduleSecondPass
  <2> QED BY <1>9, <2>1, <2>2, <2>3, <2>4 DEF ScheduleSecondPass, Settled, Steps
<1>10. ASSUME NEW p \in Procs, NEW e \in Events, DeleteClaimed(p, e) PROVE AuthCacheTypeOK'
  <2>1. work' \in [Procs -> [Events -> Steps]] /\ seen' \in [Procs -> [Events -> 0..1]]
    BY <1>10, GoesEffect, SeenEffect DEF DeleteClaimed, Settled, Steps
  <2>2. /\ wait' \in [Events -> Nat]
        /\ claim' \in [Events -> Procs \cup {NoOne, Dead}] /\ lease' \in [Events -> 0..Lease]
    BY <1>10, UnclaimTypes DEF DeleteClaimed
  <2>3. stage' \in [Events -> 0..1]
    BY <1>10 DEF DeleteClaimed
  <2>4. pending' \in SUBSET Events
    BY <1>10 DEF DeleteClaimed
  <2> QED BY <1>10, <2>1, <2>2, <2>3, <2>4 DEF DeleteClaimed, Settled, Steps
<1>11. ASSUME NEW p \in Procs, NEW e \in Events, RetryClaimed(p, e) PROVE AuthCacheTypeOK'
  <2>1. work' \in [Procs -> [Events -> Steps]] /\ seen' \in [Procs -> [Events -> 0..1]]
    BY <1>11, GoesEffect, SeenEffect DEF RetryClaimed, Settled, Steps
  <2>2. /\ wait' \in [Events -> Nat]
        /\ claim' \in [Events -> Procs \cup {NoOne, Dead}] /\ lease' \in [Events -> 0..Lease]
    BY <1>11, UnclaimTypes DEF RetryClaimed
  <2>3. stage' \in [Events -> 0..1]
    BY <1>11 DEF RetryClaimed
  <2>4. pending' \in SUBSET Events
    BY <1>11 DEF RetryClaimed
  <2> QED BY <1>11, <2>1, <2>2, <2>3, <2>4 DEF RetryClaimed, Settled, Steps
<1>12. ASSUME NEW p \in Procs, NEW e \in Events, SettleFails(p, e) PROVE AuthCacheTypeOK'
  <2>1. work' \in [Procs -> [Events -> Steps]] /\ seen' \in [Procs -> [Events -> 0..1]]
    BY <1>12, GoesEffect, SeenEffect DEF SettleFails, Steps
  <2>2. faults' \in 0..MaxFaults
    BY <1>12 DEF SettleFails, Fault
  <2> QED BY <1>12, <2>1, <2>2 DEF SettleFails, Steps
<1>13. ASSUME NEW p \in Procs, NEW r \in Requests, LookupL2(r, p) PROVE AuthCacheTypeOK'
  <2>1. \E v \in Entries : Holds(r, "fill", p, v)
    BY <1>13 DEF LookupL2
  <2>2. /\ req' \in [Requests -> {"idle", "fill", "loaded", "share"}]
        /\ at' \in [Requests -> Procs \cup {NoOne}]
        /\ val' \in [Requests -> Entries] /\ age' \in [Requests -> Nat]
    BY <2>1 DEF Holds
  <2> QED BY <1>13, <2>2 DEF LookupL2
<1>14. ASSUME NEW r \in Requests, FillL1(r) PROVE AuthCacheTypeOK'
  BY <1>14 DEF FillL1, Done, Holds
<1>15. ASSUME NEW p \in Procs, NEW r \in Requests, Load(r, p) PROVE AuthCacheTypeOK'
  BY <1>15 DEF Load, Holds
<1>16. ASSUME NEW r \in Requests, StoreL1(r) PROVE AuthCacheTypeOK'
  <2>1. l1' \in [Procs -> Entries]
    BY <1>16 DEF StoreL1
  <2>2. /\ req' \in [Requests -> {"idle", "fill", "loaded", "share"}]
        /\ at' \in [Requests -> Procs \cup {NoOne}]
        /\ val' \in [Requests -> Entries] /\ age' \in [Requests -> Nat]
    <3>1. CASE Done(r)
      BY <3>1 DEF Done, Holds
    <3>2. CASE req' = [req EXCEPT ![r] = "share"] /\ UNCHANGED <<at, val, age>>
      BY <3>2
    <3> QED BY <1>16, <3>1, <3>2 DEF StoreL1
  <2> QED BY <1>16, <2>1, <2>2 DEF StoreL1
<1>17. ASSUME NEW r \in Requests, StoreL2(r) PROVE AuthCacheTypeOK'
  BY <1>17 DEF StoreL2, Done, Holds
<1>18. ASSUME NEW r \in Requests, StoreFails(r) PROVE AuthCacheTypeOK'
  BY <1>18 DEF StoreFails, Done, Holds
<1>19. CASE ExpireL2
  BY <1>19 DEF ExpireL2
<1>20. CASE Tick
  <2>1. /\ wait' \in [Events -> Nat] /\ lease' \in [Events -> 0..Lease]
        /\ age' \in [Requests -> Nat]
    BY <1>20, ElapseTypes DEF Tick
  <2> QED BY <1>20, <2>1 DEF Tick, Elapse
<1>21. CASE SlowTick
  <2>1. /\ wait' \in [Events -> Nat] /\ lease' \in [Events -> 0..Lease]
        /\ age' \in [Requests -> Nat]
    BY <1>21, ElapseTypes DEF SlowTick
  <2>2. late' \in BOOLEAN /\ faults' \in 0..MaxFaults
    BY <1>21 DEF SlowTick, Fault
  <2> QED BY <1>21, <2>1, <2>2 DEF SlowTick, Elapse
<1>22. CASE UNCHANGED vars
  BY <1>22 DEF vars
<1>23. ASSUME NEW p \in Procs, InvalidateAuthCache(p) PROVE AuthCacheTypeOK'
  BY <1>23 DEF InvalidateAuthCache
<1> QED
  BY <1>1, <1>2, <1>3, <1>4, <1>5, <1>6, <1>7, <1>8, <1>9, <1>10, <1>11, <1>12, <1>13,
     <1>14, <1>15, <1>16, <1>17, <1>18, <1>19, <1>20, <1>21, <1>22, <1>23 DEF Next

\* A step keeps what readers hold.
LEMMA ReaderStep ==
    ASSUME AuthCacheTypeOK, ReaderInv, [Next]_vars
    PROVE  ReaderInv'
<1> USE AuthCacheAssumption DEF AuthCacheTypeOK, ReaderInv, Found, Holding, Entries,
       Versions, Deleted, outboxVars, cacheVars, workVars, reqVars
<1>1. CASE Write
  BY <1>1 DEF Write, Change, Goes
<1>2. ASSUME NEW p \in Procs, ExpireL1(p) PROVE ReaderInv'
  BY <1>2 DEF ExpireL1
<1>3. ASSUME NEW p \in Procs, Claim(p) PROVE ReaderInv'
  BY <1>3 DEF Claim, Claimable
<1>4. ASSUME NEW p \in Procs, Crash(p) PROVE ReaderInv'
  BY <1>4 DEF Crash, Fault
<1>5. ASSUME NEW p \in Procs, NEW e \in Events, DeleteAuthCache(p, e) PROVE ReaderInv'
  BY <1>5 DEF DeleteAuthCache, Goes
<1>6. ASSUME NEW p \in Procs, NEW e \in Events, DeleteFails(p, e) PROVE ReaderInv'
  BY <1>6 DEF DeleteFails, Fault, Goes
<1>7. ASSUME NEW p \in Procs, NEW e \in Events, Publish(p, e) PROVE ReaderInv'
  BY <1>7 DEF Publish, Sent, Goes
<1>8. ASSUME NEW p \in Procs, NEW e \in Events, PublishFails(p, e) PROVE ReaderInv'
  BY <1>8 DEF PublishFails, Fault, Sent, Goes
<1>9. ASSUME NEW p \in Procs, NEW e \in Events, ScheduleSecondPass(p, e) PROVE ReaderInv'
  BY <1>9 DEF ScheduleSecondPass, Owns, Unclaim, Settled, Goes
<1>10. ASSUME NEW p \in Procs, NEW e \in Events, DeleteClaimed(p, e) PROVE ReaderInv'
  BY <1>10 DEF DeleteClaimed, Owns, Unclaim, Settled, Goes
<1>11. ASSUME NEW p \in Procs, NEW e \in Events, RetryClaimed(p, e) PROVE ReaderInv'
  BY <1>11 DEF RetryClaimed, Owns, Unclaim, Settled, Goes
<1>12. ASSUME NEW p \in Procs, NEW e \in Events, SettleFails(p, e) PROVE ReaderInv'
  BY <1>12 DEF SettleFails, Fault, Goes
<1>13. ASSUME NEW p \in Procs, NEW r \in Requests, LookupL2(r, p) PROVE ReaderInv'
  <2>1. /\ req'[r] = "fill"
        /\ \A q \in Requests \ {r} : req'[q] = req[q] /\ val'[q] = val[q] /\ age'[q] = age[q]
    BY <1>13 DEF LookupL2, Holds
  <2> QED BY <1>13, <2>1 DEF LookupL2
<1>14. ASSUME NEW r \in Requests, FillL1(r) PROVE ReaderInv'
  BY <1>14 DEF FillL1, Done, Holds
<1>15. ASSUME NEW p \in Procs, NEW r \in Requests, Load(r, p) PROVE ReaderInv'
  BY <1>15 DEF Load, Holds
<1>16. ASSUME NEW r \in Requests, StoreL1(r) PROVE ReaderInv'
  BY <1>16 DEF StoreL1, Done, Holds
<1>17. ASSUME NEW r \in Requests, StoreL2(r) PROVE ReaderInv'
  BY <1>17 DEF StoreL2, Done, Holds
<1>18. ASSUME NEW r \in Requests, StoreFails(r) PROVE ReaderInv'
  BY <1>18 DEF StoreFails, Done, Holds
<1>19. CASE ExpireL2
  BY <1>19 DEF ExpireL2
<1>20. CASE Tick
  BY <1>20 DEF Tick, Elapse, Left, Overdue
<1>21. CASE SlowTick
  <2>1. ~late' => ~late /\ \A r \in Requests : ~Overdue(r)
    BY <1>21 DEF SlowTick
  <2>2. \A r \in Requests : age'[r] = IF Holding(r) THEN age[r] + 1 ELSE age[r]
    BY <1>21 DEF SlowTick, Elapse
  <2> QED BY <1>21, <2>1, <2>2 DEF SlowTick, Elapse, Overdue
<1>22. CASE UNCHANGED vars
  BY <1>22 DEF vars
<1>23. ASSUME NEW p \in Procs, InvalidateAuthCache(p) PROVE ReaderInv'
  BY <1>23 DEF InvalidateAuthCache
<1> QED
  BY <1>1, <1>2, <1>3, <1>4, <1>5, <1>6, <1>7, <1>8, <1>9, <1>10, <1>11, <1>12, <1>13,
     <1>14, <1>15, <1>16, <1>17, <1>18, <1>19, <1>20, <1>21, <1>22, <1>23 DEF Next

\* No step but a claim begins the delivery of an event.
LEMMA Continues ==
    ASSUME AuthCacheTypeOK, NEW p \in Procs, NEW e \in Events,
           \/ DeleteAuthCache(p, e) \/ DeleteFails(p, e) \/ Publish(p, e) \/ PublishFails(p, e)
    PROVE  \A q \in Procs, d \in Events :
             /\ work'[q][d] # "none" => work[q][d] # "none"
             /\ work'[q][d] = "publish" => work[q][d] = "publish" \/ l2' = NoEntry
             /\ work'[q][d] = "ack" => work[q][d] \in {"publish", "ack"}
<1> USE DEF Steps
<1>1. CASE DeleteAuthCache(p, e)
  BY <1>1, GoesEffect DEF DeleteAuthCache
<1>2. CASE DeleteFails(p, e)
  BY <1>2, GoesEffect DEF DeleteFails
<1>3. CASE Publish(p, e)
  BY <1>3, GoesEffect DEF Publish
<1>4. CASE PublishFails(p, e)
  BY <1>4, GoesEffect DEF PublishFails
<1> QED BY <1>1, <1>2, <1>3, <1>4

\* The statement at the end of a delivery ends that delivery only.
LEMMA Finishes ==
    ASSUME AuthCacheTypeOK, NEW p \in Procs, NEW e \in Events,
           \/ ScheduleSecondPass(p, e) \/ DeleteClaimed(p, e) \/ RetryClaimed(p, e)
           \/ SettleFails(p, e)
    PROVE  \A q \in Procs, d \in Events :
             work'[q][d] # "none" =>
                ~(q = p /\ d = e) /\ work'[q][d] = work[q][d] /\ seen'[q][d] = seen[q][d]
<1>1. Goes(p, e, "none") /\ seen' = [seen EXCEPT ![p][e] = 0]
  BY DEF ScheduleSecondPass, DeleteClaimed, RetryClaimed, SettleFails, Settled
<1> QED BY <1>1, GoesEffect, SeenEffect DEF Steps

\* A step keeps the rows and the deliveries together.
LEMMA EventStep ==
    ASSUME AuthCacheTypeOK, EventInv, [Next]_vars
    PROVE  EventInv'
<1>0. /\ db \in Nat /\ Events \subseteq Nat /\ pending \subseteq Events
      /\ stage \in [Events -> 0..1] /\ claim \in [Events -> Procs \cup {NoOne, Dead}]
      /\ NoOne \notin Procs
  BY AuthCacheAssumption DEF AuthCacheTypeOK, Versions, Events, Deleted
<1> USE DEF EventInv, RowInv, ClaimInv, Second, outboxVars, workVars
<1>1. CASE Write
  <2>1. UNCHANGED <<stage, claim, work, seen>>
    BY <1>1 DEF Write, Change
  <2>2. /\ pending' \subseteq pending \cup {db + 1} /\ pending \subseteq pending'
        /\ db' = db + 1
    BY <1>1 DEF Write, Change
  <2>3. pending' \subseteq Events
    BY TypeStep DEF AuthCacheTypeOK
  <2>4. RowInv'
    <3>1. ASSUME NEW d \in pending' PROVE d <= db'
      <4>1. d = db + 1 \/ (d \in pending /\ d <= db /\ d \in Nat)
        BY <1>0, <2>2
      <4> QED BY <1>0, <2>2, <4>1
    <3>2. \A d \in Events \ pending' : stage'[d] = 0
      BY <2>1, <2>2
    <3>3. \A q \in Procs, d \in Events : work'[q][d] # "none" => d <= db'
      BY <1>0, <2>1, <2>2
    <3> QED BY <3>1, <3>2, <3>3
  <2>5. ClaimInv'
    BY <1>0, <2>1, <2>2, <2>3
  <2> QED BY <2>4, <2>5 DEF EventInv
<1>2. ASSUME NEW p \in Procs, ExpireL1(p) PROVE EventInv'
  <2>1. UNCHANGED <<db, pending, stage, claim, work, seen>>
    BY <1>2 DEF ExpireL1, outboxVars, workVars
  <2> QED BY <1>0, <2>1
<1>3. ASSUME NEW p \in Procs, Claim(p) PROVE EventInv'
  <2>1. \A q \in Procs, d \in Events :
          work'[q][d] # "none" =>
            IF q = p /\ Claimable(d) THEN seen'[q][d] = stage[d]
                                     ELSE work[q][d] # "none" /\ seen'[q][d] = seen[q][d]
    BY <1>3, ClaimEffect
  <2>2. \A d \in Events : /\ Claimable(d) => d \in pending
                          /\ claim'[d] = IF Claimable(d) THEN p ELSE claim[d]
    BY <1>3 DEF Claim, Claimable
  <2>3. UNCHANGED <<db, pending, stage>>
    BY <1>3 DEF Claim
  <2>4. RowInv'
    BY <1>0, <2>1, <2>2, <2>3
  <2>5. ClaimInv'
    BY <1>0, <2>1, <2>2, <2>3
  <2> QED BY <2>4, <2>5 DEF EventInv
<1>4. ASSUME NEW p \in Procs, Crash(p) PROVE EventInv'
  <2>1. \A q \in Procs, d \in Events :
          work'[q][d] # "none" => q # p /\ work[q][d] # "none" /\ seen'[q][d] = seen[q][d]
    BY <1>4, CrashEffect
  <2>2. UNCHANGED <<db, pending, stage>>
    BY <1>4 DEF Crash
  <2>3. \A d \in Events : claim'[d] \in Procs => claim'[d] = claim[d]
    BY <1>4, AuthCacheAssumption DEF Crash
  <2>4. RowInv'
    BY <1>0, <2>1, <2>2, <2>3
  <2>5. ClaimInv'
    BY <1>0, <2>1, <2>2, <2>3
  <2> QED BY <2>4, <2>5 DEF EventInv
<1>5. ASSUME NEW p \in Procs, NEW e \in Events, DeleteAuthCache(p, e) PROVE EventInv'
  <2>1. \A q \in Procs, d \in Events : work'[q][d] # "none" => work[q][d] # "none"
    BY <1>5, Continues
  <2>2. UNCHANGED <<db, pending, stage, claim, seen>>
    BY <1>5 DEF DeleteAuthCache
  <2> QED BY <1>0, <2>1, <2>2
<1>6. ASSUME NEW p \in Procs, NEW e \in Events, DeleteFails(p, e) PROVE EventInv'
  <2>1. \A q \in Procs, d \in Events : work'[q][d] # "none" => work[q][d] # "none"
    BY <1>6, Continues
  <2>2. UNCHANGED <<db, pending, stage, claim, seen>>
    BY <1>6 DEF DeleteFails
  <2> QED BY <1>0, <2>1, <2>2
<1>7. ASSUME NEW p \in Procs, NEW e \in Events, Publish(p, e) PROVE EventInv'
  <2>1. \A q \in Procs, d \in Events : work'[q][d] # "none" => work[q][d] # "none"
    BY <1>7, Continues
  <2>2. UNCHANGED <<db, pending, stage, claim, seen>>
    BY <1>7 DEF Publish
  <2> QED BY <1>0, <2>1, <2>2
<1>8. ASSUME NEW p \in Procs, NEW e \in Events, PublishFails(p, e) PROVE EventInv'
  <2>1. \A q \in Procs, d \in Events : work'[q][d] # "none" => work[q][d] # "none"
    BY <1>8, Continues
  <2>2. UNCHANGED <<db, pending, stage, claim, seen>>
    BY <1>8 DEF PublishFails
  <2> QED BY <1>0, <2>1, <2>2
<1>9. ASSUME NEW p \in Procs, NEW e \in Events, ScheduleSecondPass(p, e) PROVE EventInv'
  <2>1. \A q \in Procs, d \in Events :
          work'[q][d] # "none" =>
            ~(q = p /\ d = e) /\ work[q][d] # "none" /\ seen'[q][d] = seen[q][d]
    BY <1>9, Finishes
  <2>2. /\ UNCHANGED <<db, pending>>
        /\ \/ UNCHANGED <<stage, claim>>
           \/ /\ e \in pending
              /\ stage' = [stage EXCEPT ![e] = 1] /\ claim' = [claim EXCEPT ![e] = NoOne]
    BY <1>9 DEF ScheduleSecondPass, Settled, Owns, Unclaim
  <2> QED BY <1>0, <2>1, <2>2
<1>10. ASSUME NEW p \in Procs, NEW e \in Events, DeleteClaimed(p, e) PROVE EventInv'
  <2>1. \A q \in Procs, d \in Events :
          work'[q][d] # "none" =>
            ~(q = p /\ d = e) /\ work[q][d] # "none" /\ seen'[q][d] = seen[q][d]
    BY <1>10, Finishes
  <2>2. /\ UNCHANGED db
        /\ \/ UNCHANGED <<pending, stage, claim>>
           \/ /\ pending' = pending \ {e} /\ stage' = [stage EXCEPT ![e] = 0]
              /\ claim' = [claim EXCEPT ![e] = NoOne]
    BY <1>10 DEF DeleteClaimed, Settled, Unclaim
  <2>3. RowInv'
    BY <1>0, <2>1, <2>2
  <2>4. \A d \in pending' : d \in pending /\ stage'[d] = stage[d] /\ claim'[d] = claim[d]
    BY <1>0, <2>2
  <2>5. ClaimInv'
    <3>1. ASSUME NEW q \in Procs, NEW d \in pending', work'[q][d] # "none"
          PROVE  /\ seen'[q][d] = 1 => stage'[d] = 1
                 /\ claim'[d] = q => seen'[q][d] = stage'[d]
      <4>1. d \in Events /\ d \in pending /\ stage'[d] = stage[d] /\ claim'[d] = claim[d]
        BY <1>0, <2>4
      <4>2. work[q][d] # "none" /\ seen'[q][d] = seen[q][d]
        BY <2>1, <3>1, <4>1
      <4> QED BY <4>1, <4>2
    <3> QED BY <3>1
  <2> QED BY <2>3, <2>5 DEF EventInv
<1>11. ASSUME NEW p \in Procs, NEW e \in Events, RetryClaimed(p, e) PROVE EventInv'
  <2>1. \A q \in Procs, d \in Events :
          work'[q][d] # "none" =>
            ~(q = p /\ d = e) /\ work[q][d] # "none" /\ seen'[q][d] = seen[q][d]
    BY <1>11, Finishes
  <2>2. /\ UNCHANGED <<db, pending, stage>>
        /\ UNCHANGED claim \/ claim' = [claim EXCEPT ![e] = NoOne]
    BY <1>11 DEF RetryClaimed, Settled, Unclaim
  <2> QED BY <1>0, <2>1, <2>2
<1>12. ASSUME NEW p \in Procs, NEW e \in Events, SettleFails(p, e) PROVE EventInv'
  <2>1. \A q \in Procs, d \in Events :
          work'[q][d] # "none" =>
            ~(q = p /\ d = e) /\ work[q][d] # "none" /\ seen'[q][d] = seen[q][d]
    BY <1>12, Finishes
  <2>2. UNCHANGED <<db, pending, stage, claim>>
    BY <1>12 DEF SettleFails
  <2> QED BY <1>0, <2>1, <2>2
<1>13. ASSUME NEW p \in Procs, NEW r \in Requests, LookupL2(r, p) PROVE EventInv'
  <2>1. UNCHANGED <<db, pending, stage, claim, work, seen>>
    BY <1>13 DEF LookupL2, outboxVars, workVars
  <2> QED BY <1>0, <2>1
<1>14. ASSUME NEW r \in Requests, FillL1(r) PROVE EventInv'
  <2>1. UNCHANGED <<db, pending, stage, claim, work, seen>>
    BY <1>14 DEF FillL1, outboxVars, workVars
  <2> QED BY <1>0, <2>1
<1>15. ASSUME NEW p \in Procs, NEW r \in Requests, Load(r, p) PROVE EventInv'
  <2>1. UNCHANGED <<db, pending, stage, claim, work, seen>>
    BY <1>15 DEF Load, outboxVars, workVars
  <2> QED BY <1>0, <2>1
<1>16. ASSUME NEW r \in Requests, StoreL1(r) PROVE EventInv'
  <2>1. UNCHANGED <<db, pending, stage, claim, work, seen>>
    BY <1>16 DEF StoreL1, outboxVars, workVars
  <2> QED BY <1>0, <2>1
<1>17. ASSUME NEW r \in Requests, StoreL2(r) PROVE EventInv'
  <2>1. UNCHANGED <<db, pending, stage, claim, work, seen>>
    BY <1>17 DEF StoreL2, outboxVars, workVars
  <2> QED BY <1>0, <2>1
<1>18. ASSUME NEW r \in Requests, StoreFails(r) PROVE EventInv'
  <2>1. UNCHANGED <<db, pending, stage, claim, work, seen>>
    BY <1>18 DEF StoreFails, outboxVars, workVars
  <2> QED BY <1>0, <2>1
<1>19. CASE ExpireL2
  <2>1. UNCHANGED <<db, pending, stage, claim, work, seen>>
    BY <1>19 DEF ExpireL2, outboxVars, workVars
  <2> QED BY <1>0, <2>1
<1>20. CASE Tick
  <2>1. UNCHANGED <<db, pending, stage, claim, work, seen>>
    BY <1>20 DEF Tick, Elapse, outboxVars, workVars
  <2> QED BY <1>0, <2>1
<1>21. CASE SlowTick
  <2>1. UNCHANGED <<db, pending, stage, claim, work, seen>>
    BY <1>21 DEF SlowTick, Elapse, outboxVars, workVars
  <2> QED BY <1>0, <2>1
<1>22. CASE UNCHANGED vars
  <2>1. UNCHANGED <<db, pending, stage, claim, work, seen>>
    BY <1>22 DEF vars, outboxVars, workVars
  <2> QED BY <1>0, <2>1
<1>23. ASSUME NEW p \in Procs, InvalidateAuthCache(p) PROVE EventInv'
  <2>1. UNCHANGED <<db, pending, stage, claim, work, seen>>
    BY <1>23 DEF InvalidateAuthCache, outboxVars, workVars
  <2> QED BY <1>0, <2>1
<1> QED
  BY <1>1, <1>2, <1>3, <1>4, <1>5, <1>6, <1>7, <1>8, <1>9, <1>10, <1>11, <1>12, <1>13,
     <1>14, <1>15, <1>16, <1>17, <1>18, <1>19, <1>20, <1>21, <1>22, <1>23 DEF Next

\* What the invariants say of the types of the numbers that are compared.
LEMMA Numbers ==
    ASSUME AuthCacheTypeOK, ReaderInv
    PROVE  /\ db \in Nat /\ Events \subseteq Nat /\ pending \subseteq Events
           /\ wait \in [Events -> Nat] /\ age \in [Requests -> Nat]
           /\ stage \in [Events -> 0..1]
           /\ l2 = NoEntry \/ l2 \in Nat
           /\ \A r \in Requests : Holding(r) => val[r] \in Nat
           /\ SafetyDelay \in Nat /\ RetryDelay \in Nat /\ MaxRead \in Nat
           /\ MaxRead < SafetyDelay
BY AuthCacheAssumption
   DEF AuthCacheTypeOK, ReaderInv, Versions, Events, Entries, Deleted

\* What a step of a request does to the versions in hand.
LEMMA HoldsEffect ==
    ASSUME AuthCacheTypeOK, NEW r \in Requests, NEW s, NEW p, NEW v, Holds(r, s, p, v)
    PROVE  /\ req'[r] = s /\ val'[r] = v /\ age'[r] = 0
           /\ \A q \in Requests : q # r =>
                req'[q] = req[q] /\ val'[q] = val[q] /\ age'[q] = age[q]
BY DEF AuthCacheTypeOK, Holds

\* A version in hand was in hand before, unless it has just been read.
LEMMA InHand ==
    ASSUME AuthCacheTypeOK, NEW r \in Requests,
           \/ \E p \in Procs : LookupL2(r, p) \/ Load(r, p)
           \/ FillL1(r) \/ StoreL1(r) \/ StoreL2(r) \/ StoreFails(r)
    PROVE  \A q \in Requests : Holding(q)' =>
             \/ val'[q] = db
             \/ Holding(q) /\ val'[q] = val[q] /\ age'[q] = age[q]
<1>1. CASE \E s \in {"fill", "idle"} : \E p, v : Holds(r, s, p, v)
  BY <1>1, HoldsEffect DEF Holding
<1>2. CASE \E p \in Procs : Load(r, p)
  BY <1>2, HoldsEffect DEF Load, Holding
<1>3. CASE req[r] = "loaded" /\ req' = [req EXCEPT ![r] = "share"] /\ UNCHANGED <<at, val, age>>
  BY <1>3 DEF Holding, AuthCacheTypeOK
<1> QED
  BY <1>1, <1>2, <1>3 DEF LookupL2, FillL1, StoreL1, StoreL2, StoreFails, Done

\* Time passes for readers and rows alike.
LEMMA ElapseAge ==
    ASSUME AuthCacheTypeOK, ReaderInv, AgeInv, Elapse, late => late'
    PROVE  AgeInv'
<1> SUFFICES ASSUME ~late', NEW e \in pending', NEW r \in Requests,
                    stage'[e] = 1, Holding(r)', val'[r] < e
             PROVE  age'[r] + wait'[e] >= SafetyDelay
  BY DEF AgeInv
<1>1. ~late /\ e \in pending /\ e \in Events /\ stage[e] = 1 /\ Holding(r) /\ val[r] < e
  BY Numbers DEF Elapse, Holding
<1>2. age[r] + wait[e] >= SafetyDelay
  BY <1>1 DEF AgeInv
<1>3. age'[r] = age[r] + 1 /\ wait'[e] = Left(wait[e])
  BY <1>1 DEF Elapse
<1>4. age[r] \in Nat /\ wait[e] \in Nat /\ SafetyDelay \in Nat
  BY <1>1, Numbers
<1> QED BY <1>2, <1>3, <1>4 DEF Left

\* No row is older than the version just read.
LEMMA AgeInHand ==
    ASSUME AuthCacheTypeOK, ReaderInv, RowInv, AgeInv, UNCHANGED <<pending, stage, wait, late>>,
           \A q \in Requests : Holding(q)' =>
             val'[q] = db \/ (Holding(q) /\ val'[q] = val[q] /\ age'[q] = age[q])
    PROVE  AgeInv'
<1> SUFFICES ASSUME ~late', NEW e \in pending', NEW q \in Requests,
                    stage'[e] = 1, Holding(q)', val'[q] < e
             PROVE  age'[q] + wait'[e] >= SafetyDelay
  BY DEF AgeInv
<1>1. e \in pending /\ e \in Nat /\ db \in Nat /\ e <= db
  BY Numbers DEF RowInv
<1>2. Holding(q) /\ val'[q] = val[q] /\ age'[q] = age[q]
  <2>1. val'[q] # db
    BY <1>1
  <2> QED BY <2>1
<1> QED BY <1>1, <1>2 DEF AgeInv

\* A step keeps the readers of old versions as old as the time between the passes.
LEMMA AgeStep ==
    ASSUME AuthCacheTypeOK, ReaderInv, EventInv, AgeInv, PassInv, [Next]_vars
    PROVE  AgeInv'
<1>0. /\ db \in Nat /\ Events \subseteq Nat /\ pending \subseteq Events
      /\ wait \in [Events -> Nat] /\ age \in [Requests -> Nat]
      /\ stage \in [Events -> 0..1]
      /\ \A r \in Requests : Holding(r) => val[r] \in Nat
      /\ SafetyDelay \in Nat /\ RetryDelay \in Nat
  BY Numbers
<1> USE DEF AgeInv, Holding, outboxVars, reqVars
<1>1. CASE Write
  <2>1. pending' \subseteq pending \cup {db + 1} /\ pending' \subseteq Events
    BY <1>1, TypeStep DEF Write, Change, AuthCacheTypeOK
  <2>4. UNCHANGED <<stage, wait, req, val, age, late>>
    BY <1>1 DEF Write, Change
  <2>2. db + 1 \notin pending
    BY <1>0 DEF EventInv, RowInv
  <2>3. db + 1 \in Events => stage[db + 1] = 0
    BY <2>2 DEF EventInv, RowInv
  <2> QED BY <1>0, <2>1, <2>3, <2>4
<1>2. ASSUME NEW p \in Procs, ExpireL1(p) PROVE AgeInv'
  <2>1. UNCHANGED <<pending, stage, wait, req, val, age, late>>
    BY <1>2 DEF ExpireL1, outboxVars, reqVars
  <2> QED BY <1>0, <2>1
<1>3. ASSUME NEW p \in Procs, Claim(p) PROVE AgeInv'
  <2>1. UNCHANGED <<pending, stage, wait, req, val, age, late>>
    BY <1>3 DEF Claim, outboxVars, reqVars
  <2> QED BY <1>0, <2>1
<1>4. ASSUME NEW p \in Procs, Crash(p) PROVE AgeInv'
  <2>1. UNCHANGED <<pending, stage, wait, late>>
    BY <1>4 DEF Crash
  <2>2. \A r \in Requests : Holding(r)' => Holding(r) /\ val'[r] = val[r] /\ age'[r] = age[r]
    BY <1>4 DEF Crash
  <2> QED BY <1>0, <2>1, <2>2
<1>5. ASSUME NEW p \in Procs, NEW e \in Events, DeleteAuthCache(p, e) PROVE AgeInv'
  <2>1. UNCHANGED <<pending, stage, wait, req, val, age, late>>
    BY <1>5 DEF DeleteAuthCache, outboxVars, reqVars
  <2> QED BY <1>0, <2>1
<1>6. ASSUME NEW p \in Procs, NEW e \in Events, DeleteFails(p, e) PROVE AgeInv'
  <2>1. UNCHANGED <<pending, stage, wait, req, val, age, late>>
    BY <1>6 DEF DeleteFails, outboxVars, reqVars
  <2> QED BY <1>0, <2>1
<1>7. ASSUME NEW p \in Procs, NEW e \in Events, Publish(p, e) PROVE AgeInv'
  <2>1. UNCHANGED <<pending, stage, wait, req, val, age, late>>
    BY <1>7 DEF Publish, outboxVars, reqVars
  <2> QED BY <1>0, <2>1
<1>8. ASSUME NEW p \in Procs, NEW e \in Events, PublishFails(p, e) PROVE AgeInv'
  <2>1. UNCHANGED <<pending, stage, wait, req, val, age, late>>
    BY <1>8 DEF PublishFails, outboxVars, reqVars
  <2> QED BY <1>0, <2>1
<1>9. ASSUME NEW p \in Procs, NEW e \in Events, ScheduleSecondPass(p, e) PROVE AgeInv'
  <2>1. UNCHANGED <<pending, req, val, age, late>>
    BY <1>9 DEF ScheduleSecondPass, Settled
  <2>2. \A d \in Events : (stage'[d] = stage[d] /\ wait'[d] = wait[d]) \/ wait'[d] = SafetyDelay
    BY <1>9, <1>0 DEF ScheduleSecondPass, Unclaim
  <2> QED BY <1>0, <2>1, <2>2
<1>10. ASSUME NEW p \in Procs, NEW e \in Events, DeleteClaimed(p, e) PROVE AgeInv'
  <2>1. UNCHANGED <<req, val, age, late>>
    BY <1>10 DEF DeleteClaimed, Settled
  <2>2. \A d \in pending' : d \in pending /\ stage'[d] = stage[d] /\ wait'[d] = wait[d]
    BY <1>10, <1>0 DEF DeleteClaimed, Unclaim
  <2> QED BY <1>0, <2>1, <2>2
<1>11. ASSUME NEW p \in Procs, NEW e \in Events, RetryClaimed(p, e) PROVE AgeInv'
  <2>1. UNCHANGED <<pending, stage, req, val, age, late>>
    BY <1>11 DEF RetryClaimed, Settled
  <2>2. \A d \in Events : d # e => wait'[d] = wait[d]
    BY <1>11, <1>0 DEF RetryClaimed, Unclaim
  <2>3. CASE wait'[e] = wait[e]
    BY <1>0, <2>1, <2>2, <2>3
  <2>4. CASE Owns(p, e) /\ stage[e] = 1
    <3>1. Second(p, e)
      BY <1>11, <2>4 DEF RetryClaimed, Owns, EventInv, ClaimInv, Second
    <3>2. ~late => \A r \in Requests : Holding(r) => val[r] >= e
      BY <3>1 DEF PassInv, Second
    <3> QED BY <1>0, <2>1, <2>2, <3>2
  <2>5. CASE stage[e] # 1
    BY <1>0, <2>1, <2>2, <2>5
  <2> QED BY <1>11, <2>3, <2>4, <2>5 DEF RetryClaimed
<1>12. ASSUME NEW p \in Procs, NEW e \in Events, SettleFails(p, e) PROVE AgeInv'
  <2>1. UNCHANGED <<pending, stage, wait, req, val, age, late>>
    BY <1>12 DEF SettleFails, outboxVars, reqVars
  <2> QED BY <1>0, <2>1
<1>13. ASSUME NEW p \in Procs, NEW r \in Requests, LookupL2(r, p) PROVE AgeInv'
  <2>1. UNCHANGED <<pending, stage, wait, late>>
    BY <1>13 DEF LookupL2, outboxVars
  <2>2. \A q \in Requests : Holding(q)' =>
          val'[q] = db \/ (Holding(q) /\ val'[q] = val[q] /\ age'[q] = age[q])
    BY <1>13, InHand
  <2> QED BY <2>1, <2>2, AgeInHand DEF EventInv
<1>14. ASSUME NEW r \in Requests, FillL1(r) PROVE AgeInv'
  <2>1. UNCHANGED <<pending, stage, wait, late>>
    BY <1>14 DEF FillL1, outboxVars
  <2>2. \A q \in Requests : Holding(q)' =>
          val'[q] = db \/ (Holding(q) /\ val'[q] = val[q] /\ age'[q] = age[q])
    BY <1>14, InHand
  <2> QED BY <2>1, <2>2, AgeInHand DEF EventInv
<1>15. ASSUME NEW p \in Procs, NEW r \in Requests, Load(r, p) PROVE AgeInv'
  <2>1. UNCHANGED <<pending, stage, wait, late>>
    BY <1>15 DEF Load, outboxVars
  <2>2. \A q \in Requests : Holding(q)' =>
          val'[q] = db \/ (Holding(q) /\ val'[q] = val[q] /\ age'[q] = age[q])
    BY <1>15, InHand
  <2> QED BY <2>1, <2>2, AgeInHand DEF EventInv
<1>16. ASSUME NEW r \in Requests, StoreL1(r) PROVE AgeInv'
  <2>1. UNCHANGED <<pending, stage, wait, late>>
    BY <1>16 DEF StoreL1, outboxVars
  <2>2. \A q \in Requests : Holding(q)' =>
          val'[q] = db \/ (Holding(q) /\ val'[q] = val[q] /\ age'[q] = age[q])
    BY <1>16, InHand
  <2> QED BY <2>1, <2>2, AgeInHand DEF EventInv
<1>17. ASSUME NEW r \in Requests, StoreL2(r) PROVE AgeInv'
  <2>1. UNCHANGED <<pending, stage, wait, late>>
    BY <1>17 DEF StoreL2, outboxVars
  <2>2. \A q \in Requests : Holding(q)' =>
          val'[q] = db \/ (Holding(q) /\ val'[q] = val[q] /\ age'[q] = age[q])
    BY <1>17, InHand
  <2> QED BY <2>1, <2>2, AgeInHand DEF EventInv
<1>18. ASSUME NEW r \in Requests, StoreFails(r) PROVE AgeInv'
  <2>1. UNCHANGED <<pending, stage, wait, late>>
    BY <1>18 DEF StoreFails, outboxVars
  <2>2. \A q \in Requests : Holding(q)' =>
          val'[q] = db \/ (Holding(q) /\ val'[q] = val[q] /\ age'[q] = age[q])
    BY <1>18, InHand
  <2> QED BY <2>1, <2>2, AgeInHand DEF EventInv
<1>19. CASE ExpireL2
  <2>1. UNCHANGED <<pending, stage, wait, req, val, age, late>>
    BY <1>19 DEF ExpireL2, outboxVars, reqVars
  <2> QED BY <1>0, <2>1
<1>20. CASE Tick
  BY <1>20, ElapseAge DEF Tick
<1>21. CASE SlowTick
  BY <1>21, ElapseAge DEF SlowTick
<1>22. CASE UNCHANGED vars
  <2>1. UNCHANGED <<pending, stage, wait, req, val, age, late>>
    BY <1>22 DEF vars, outboxVars, reqVars
  <2> QED BY <1>0, <2>1
<1>23. ASSUME NEW p \in Procs, InvalidateAuthCache(p) PROVE AgeInv'
  <2>1. UNCHANGED <<pending, stage, wait, req, val, age, late>>
    BY <1>23 DEF InvalidateAuthCache, outboxVars, reqVars
  <2> QED BY <1>0, <2>1
<1> QED
  BY <1>1, <1>2, <1>3, <1>4, <1>5, <1>6, <1>7, <1>8, <1>9, <1>10, <1>11, <1>12, <1>13,
     <1>14, <1>15, <1>16, <1>17, <1>18, <1>19, <1>20, <1>21, <1>22, <1>23 DEF Next

\* What is in hand was read from the database or was in hand before, and L2 gets
\* only what a request had in hand.
Origin ==
    /\ late => late'
    /\ \A r \in Requests : Holding(r)' =>
         val'[r] = db \/ (Holding(r) /\ val'[r] = val[r])
    /\ \/ l2' \in {l2, NoEntry}
       \/ \E r \in Requests : req[r] = "share" /\ l2' = val[r]

\* Every step keeps to that.
LEMMA Sources ==
    ASSUME AuthCacheTypeOK, [Next]_vars
    PROVE  Origin
<1> USE DEF Origin, Holding
<1>1. CASE Write
  BY <1>1 DEF Write, Change, reqVars, cacheVars
<1>2. ASSUME NEW p \in Procs, ExpireL1(p) PROVE Origin
  BY <1>2 DEF ExpireL1, reqVars, cacheVars
<1>3. ASSUME NEW p \in Procs, Claim(p) PROVE Origin
  BY <1>3 DEF Claim, reqVars, cacheVars
<1>4. ASSUME NEW p \in Procs, Crash(p) PROVE Origin
  BY <1>4 DEF Crash, reqVars, cacheVars
<1>5. ASSUME NEW p \in Procs, NEW e \in Events, DeleteAuthCache(p, e) PROVE Origin
  BY <1>5 DEF DeleteAuthCache, reqVars, cacheVars
<1>6. ASSUME NEW p \in Procs, NEW e \in Events, DeleteFails(p, e) PROVE Origin
  BY <1>6 DEF DeleteFails, reqVars, cacheVars
<1>7. ASSUME NEW p \in Procs, NEW e \in Events, Publish(p, e) PROVE Origin
  BY <1>7 DEF Publish, reqVars, cacheVars
<1>8. ASSUME NEW p \in Procs, NEW e \in Events, PublishFails(p, e) PROVE Origin
  BY <1>8 DEF PublishFails, reqVars, cacheVars
<1>9. ASSUME NEW p \in Procs, NEW e \in Events, ScheduleSecondPass(p, e) PROVE Origin
  BY <1>9 DEF ScheduleSecondPass, Settled, reqVars, cacheVars
<1>10. ASSUME NEW p \in Procs, NEW e \in Events, DeleteClaimed(p, e) PROVE Origin
  BY <1>10 DEF DeleteClaimed, Settled, reqVars, cacheVars
<1>11. ASSUME NEW p \in Procs, NEW e \in Events, RetryClaimed(p, e) PROVE Origin
  BY <1>11 DEF RetryClaimed, Settled, reqVars, cacheVars
<1>12. ASSUME NEW p \in Procs, NEW e \in Events, SettleFails(p, e) PROVE Origin
  BY <1>12 DEF SettleFails, reqVars, cacheVars
<1>13. ASSUME NEW p \in Procs, NEW r \in Requests, LookupL2(r, p) PROVE Origin
  <2>1. late' = late /\ (l2' = l2 \/ (req[r] = "share" /\ l2' = val[r]))
    BY <1>13 DEF LookupL2, cacheVars
  <2> QED BY <1>13, <2>1, InHand
<1>14. ASSUME NEW r \in Requests, FillL1(r) PROVE Origin
  <2>1. late' = late /\ (l2' = l2 \/ (req[r] = "share" /\ l2' = val[r]))
    BY <1>14 DEF FillL1, cacheVars
  <2> QED BY <1>14, <2>1, InHand
<1>15. ASSUME NEW p \in Procs, NEW r \in Requests, Load(r, p) PROVE Origin
  <2>1. late' = late /\ (l2' = l2 \/ (req[r] = "share" /\ l2' = val[r]))
    BY <1>15 DEF Load, cacheVars
  <2> QED BY <1>15, <2>1, InHand
<1>16. ASSUME NEW r \in Requests, StoreL1(r) PROVE Origin
  <2>1. late' = late /\ (l2' = l2 \/ (req[r] = "share" /\ l2' = val[r]))
    BY <1>16 DEF StoreL1, cacheVars
  <2> QED BY <1>16, <2>1, InHand
<1>17. ASSUME NEW r \in Requests, StoreL2(r) PROVE Origin
  <2>1. late' = late /\ (l2' = l2 \/ (req[r] = "share" /\ l2' = val[r]))
    BY <1>17 DEF StoreL2, cacheVars
  <2> QED BY <1>17, <2>1, InHand
<1>18. ASSUME NEW r \in Requests, StoreFails(r) PROVE Origin
  <2>1. late' = late /\ (l2' = l2 \/ (req[r] = "share" /\ l2' = val[r]))
    BY <1>18 DEF StoreFails, cacheVars
  <2> QED BY <1>18, <2>1, InHand
<1>19. CASE ExpireL2
  BY <1>19 DEF ExpireL2, reqVars, cacheVars
<1>20. CASE Tick
  BY <1>20 DEF Tick, Elapse, reqVars, cacheVars
<1>21. CASE SlowTick
  BY <1>21 DEF SlowTick, Elapse, reqVars, cacheVars
<1>22. CASE UNCHANGED vars
  BY <1>22 DEF vars, reqVars, cacheVars
<1>23. ASSUME NEW p \in Procs, InvalidateAuthCache(p) PROVE Origin
  BY <1>23 DEF InvalidateAuthCache, reqVars, cacheVars
<1> QED
  BY <1>1, <1>2, <1>3, <1>4, <1>5, <1>6, <1>7, <1>8, <1>9, <1>10, <1>11, <1>12, <1>13,
     <1>14, <1>15, <1>16, <1>17, <1>18, <1>19, <1>20, <1>21, <1>22, <1>23 DEF Next

\* A worker at the second pass was there before, and past the deletion only if it
\* was before or L2 has been cleared.
SamePass ==
    \A q \in Procs, d \in pending' : Second(q, d)' =>
        /\ Second(q, d)
        /\ work'[q][d] \in {"publish", "ack"} =>
             work[q][d] \in {"publish", "ack"} \/ l2' = NoEntry

\* Only a claim brings a worker to the second pass.
LEMMA Deliveries ==
    ASSUME AuthCacheTypeOK, EventInv, [Next]_vars, \A p \in Procs : ~Claim(p)
    PROVE  SamePass
<1>0. /\ db \in Nat /\ Events \subseteq Nat /\ pending \subseteq Events
      /\ \A q \in Procs, d \in Events : work[q][d] # "none" => d <= db
  BY AuthCacheAssumption DEF AuthCacheTypeOK, Versions, Events, Deleted, EventInv,
     RowInv
<1> USE DEF SamePass, Second
<1>1. CASE Write
  <2>1. UNCHANGED <<work, seen>>
    BY <1>1 DEF Write, Change, workVars
  <2>2. pending' \subseteq pending \cup {db + 1} /\ pending' \subseteq Events
    BY <1>1, TypeStep DEF Write, Change, AuthCacheTypeOK
  <2> SUFFICES ASSUME NEW q \in Procs, NEW d \in pending', Second(q, d)'
               PROVE  Second(q, d) /\ work'[q][d] = work[q][d]
    OBVIOUS
  <2>3. d <= db /\ d \in Nat
    BY <1>0, <2>1, <2>2
  <2> QED BY <1>0, <2>1, <2>2, <2>3
<1>2. ASSUME NEW p \in Procs, ExpireL1(p) PROVE SamePass
  <2>1. UNCHANGED <<pending, work, seen>>
    BY <1>2 DEF ExpireL1, outboxVars, workVars
  <2> QED BY <1>0, <2>1
<1>3. ASSUME NEW p \in Procs, Claim(p) PROVE SamePass
  BY <1>3
<1>4. ASSUME NEW p \in Procs, Crash(p) PROVE SamePass
  <2>1. \A q \in Procs, d \in Events :
          work'[q][d] # "none" => work'[q][d] = work[q][d] /\ seen'[q][d] = seen[q][d]
    BY <1>4, CrashEffect
  <2>2. UNCHANGED pending
    BY <1>4 DEF Crash
  <2> QED BY <1>0, <2>1, <2>2
<1>5. ASSUME NEW p \in Procs, NEW e \in Events, DeleteAuthCache(p, e) PROVE SamePass
  <2>1. UNCHANGED <<pending, seen>>
    BY <1>5 DEF DeleteAuthCache, outboxVars
  <2> QED BY <1>5, <1>0, <2>1, Continues
<1>6. ASSUME NEW p \in Procs, NEW e \in Events, DeleteFails(p, e) PROVE SamePass
  <2>1. UNCHANGED <<pending, seen>>
    BY <1>6 DEF DeleteFails, outboxVars
  <2> QED BY <1>6, <1>0, <2>1, Continues
<1>7. ASSUME NEW p \in Procs, NEW e \in Events, Publish(p, e) PROVE SamePass
  <2>1. UNCHANGED <<pending, seen>>
    BY <1>7 DEF Publish, outboxVars
  <2> QED BY <1>7, <1>0, <2>1, Continues
<1>8. ASSUME NEW p \in Procs, NEW e \in Events, PublishFails(p, e) PROVE SamePass
  <2>1. UNCHANGED <<pending, seen>>
    BY <1>8 DEF PublishFails, outboxVars
  <2> QED BY <1>8, <1>0, <2>1, Continues
<1>9. ASSUME NEW p \in Procs, NEW e \in Events, ScheduleSecondPass(p, e) PROVE SamePass
  <2>1. pending' \subseteq pending
    BY <1>9 DEF ScheduleSecondPass, outboxVars
  <2> QED BY <1>9, <1>0, <2>1, Finishes
<1>10. ASSUME NEW p \in Procs, NEW e \in Events, DeleteClaimed(p, e) PROVE SamePass
  <2>1. pending' \subseteq pending
    BY <1>10 DEF DeleteClaimed, outboxVars
  <2> QED BY <1>10, <1>0, <2>1, Finishes
<1>11. ASSUME NEW p \in Procs, NEW e \in Events, RetryClaimed(p, e) PROVE SamePass
  <2>1. pending' \subseteq pending
    BY <1>11 DEF RetryClaimed, outboxVars
  <2> QED BY <1>11, <1>0, <2>1, Finishes
<1>12. ASSUME NEW p \in Procs, NEW e \in Events, SettleFails(p, e) PROVE SamePass
  <2>1. pending' \subseteq pending
    BY <1>12 DEF SettleFails, outboxVars
  <2> QED BY <1>12, <1>0, <2>1, Finishes
<1>13. ASSUME NEW p \in Procs, NEW r \in Requests, LookupL2(r, p) PROVE SamePass
  <2>1. UNCHANGED <<pending, work, seen>>
    BY <1>13 DEF LookupL2, outboxVars, workVars
  <2> QED BY <1>0, <2>1
<1>14. ASSUME NEW r \in Requests, FillL1(r) PROVE SamePass
  <2>1. UNCHANGED <<pending, work, seen>>
    BY <1>14 DEF FillL1, outboxVars, workVars
  <2> QED BY <1>0, <2>1
<1>15. ASSUME NEW p \in Procs, NEW r \in Requests, Load(r, p) PROVE SamePass
  <2>1. UNCHANGED <<pending, work, seen>>
    BY <1>15 DEF Load, outboxVars, workVars
  <2> QED BY <1>0, <2>1
<1>16. ASSUME NEW r \in Requests, StoreL1(r) PROVE SamePass
  <2>1. UNCHANGED <<pending, work, seen>>
    BY <1>16 DEF StoreL1, outboxVars, workVars
  <2> QED BY <1>0, <2>1
<1>17. ASSUME NEW r \in Requests, StoreL2(r) PROVE SamePass
  <2>1. UNCHANGED <<pending, work, seen>>
    BY <1>17 DEF StoreL2, outboxVars, workVars
  <2> QED BY <1>0, <2>1
<1>18. ASSUME NEW r \in Requests, StoreFails(r) PROVE SamePass
  <2>1. UNCHANGED <<pending, work, seen>>
    BY <1>18 DEF StoreFails, outboxVars, workVars
  <2> QED BY <1>0, <2>1
<1>19. CASE ExpireL2
  <2>1. UNCHANGED <<pending, work, seen>>
    BY <1>19 DEF ExpireL2, outboxVars, workVars
  <2> QED BY <1>0, <2>1
<1>20. CASE Tick
  <2>1. UNCHANGED <<pending, work, seen>>
    BY <1>20 DEF Tick, Elapse, outboxVars, workVars
  <2> QED BY <1>0, <2>1
<1>21. CASE SlowTick
  <2>1. UNCHANGED <<pending, work, seen>>
    BY <1>21 DEF SlowTick, Elapse, outboxVars, workVars
  <2> QED BY <1>0, <2>1
<1>22. CASE UNCHANGED vars
  <2>1. UNCHANGED <<pending, work, seen>>
    BY <1>22 DEF vars, outboxVars, workVars
  <2> QED BY <1>0, <2>1
<1>23. ASSUME NEW p \in Procs, InvalidateAuthCache(p) PROVE SamePass
  <2>1. UNCHANGED <<pending, work, seen>>
    BY <1>23 DEF InvalidateAuthCache, outboxVars, workVars
  <2> QED BY <1>0, <2>1
<1> QED
  BY <1>1, <1>2, <1>3, <1>4, <1>5, <1>6, <1>7, <1>8, <1>9, <1>10, <1>11, <1>12, <1>13,
     <1>14, <1>15, <1>16, <1>17, <1>18, <1>19, <1>20, <1>21, <1>22, <1>23 DEF Next

\* A step keeps old versions away from a second pass.
LEMMA PassStep ==
    ASSUME AuthCacheTypeOK, ReaderInv, EventInv, AgeInv, PassInv, AuthCacheTypeOK', [Next]_vars
    PROVE  PassInv'
<1> SUFFICES ASSUME ~late', NEW p \in Procs, NEW e \in pending', Second(p, e)'
             PROVE  /\ \A r \in Requests : Holding(r)' => val'[r] >= e
                    /\ work'[p][e] \in {"publish", "ack"} => l2' = NoEntry \/ l2' >= e
  BY DEF PassInv
<1>1. /\ ~late
      /\ \A r \in Requests : Holding(r)' => val'[r] = db \/ (Holding(r) /\ val'[r] = val[r])
      /\ \/ l2' \in {l2, NoEntry}
         \/ \E r \in Requests : req[r] = "share" /\ l2' = val[r]
  BY Sources DEF Origin
<1>2. CASE \A q \in Procs : ~Claim(q)
  <2>1. /\ Second(p, e)
        /\ work'[p][e] \in {"publish", "ack"} =>
             work[p][e] \in {"publish", "ack"} \/ l2' = NoEntry
    BY <1>2, Deliveries DEF SamePass
  <2>2. /\ e \in pending /\ e <= db
        /\ \A r \in Requests : Holding(r) => val[r] >= e
        /\ work[p][e] \in {"publish", "ack"} => l2 = NoEntry \/ l2 >= e
    BY <1>1, <2>1 DEF PassInv, Second, EventInv, RowInv
  <2>3. db >= e
    BY <2>2, Numbers
  <2> QED BY <1>1, <2>1, <2>2, <2>3 DEF Holding
<1>3. ASSUME NEW q \in Procs, Claim(q)
      PROVE  /\ \A r \in Requests : Holding(r)' => val'[r] >= e
             /\ work'[p][e] \in {"publish", "ack"} => l2' = NoEntry \/ l2' >= e
  <2>1. UNCHANGED <<pending, wait, stage, l2, req, val>> /\ e \in Events
    BY <1>3, Numbers DEF Claim, cacheVars, reqVars
  <2>2. CASE p = q /\ Claimable(e)
    <3>1. work'[p][e] = "delete" /\ stage[e] = 1 /\ wait[e] = 0
      BY <1>3, <2>1, <2>2, ClaimEffect DEF Second, Claimable
    <3>2. ASSUME NEW r \in Requests, Holding(r), val[r] < e PROVE FALSE
      <4>1. age[r] + wait[e] >= SafetyDelay /\ age[r] <= MaxRead
        BY <1>1, <2>1, <3>1, <3>2 DEF AgeInv, ReaderInv
      <4> QED BY <3>1, <4>1, Numbers
    <3> QED BY <2>1, <3>1, <3>2, Numbers DEF Holding
  <2>3. CASE ~(p = q /\ Claimable(e))
    <3>1. Second(p, e) /\ work'[p][e] = work[p][e]
      BY <1>3, <2>1, <2>3, ClaimEffect DEF Second
    <3> QED BY <1>1, <2>1, <3>1 DEF PassInv, Holding
  <2> QED BY <2>2, <2>3
<1> QED BY <1>2, <1>3

\* A row leaves the table at the end of its second pass, and a change only adds.
LEMMA RowSteps ==
    ASSUME [Next]_vars
    PROVE  \/ Write
           \/ \E p \in Procs, e \in Events : DeleteClaimed(p, e)
           \/ UNCHANGED <<db, loud, pending>>
BY DEF Next, ExpireL1, InvalidateAuthCache, Claim, Crash, DeleteAuthCache, DeleteFails,
   Publish, PublishFails, ScheduleSecondPass, RetryClaimed, SettleFails, FillL1, Load,
   StoreL1, StoreL2, StoreFails, ExpireL2, Tick, SlowTick, LookupL2, Settled, Unclaim,
   Elapse, outboxVars, vars

\* A step keeps the events within the versions.
LEMMA LoudStep ==
    ASSUME AuthCacheTypeOK, LoudInv, [Next]_vars
    PROVE  LoudInv'
<1>0. db \in Nat /\ loud \subseteq Nat
  BY AuthCacheAssumption DEF AuthCacheTypeOK, Versions, Events, Deleted
<1>1. CASE Write
  BY <1>0, <1>1 DEF Write, Change, LoudInv
<1>2. CASE ~Write
  <2>1. UNCHANGED <<db, loud>>
    BY <1>2, RowSteps DEF DeleteClaimed, Settled
  <2> QED BY <2>1 DEF LoudInv
<1> QED BY <1>1, <1>2

\* A step leaves a row for every superseded version.
LEMMA StaleStep ==
    ASSUME AuthCacheTypeOK, ReaderInv, EventInv, LoudInv, PassInv, StaleHasEvent, [Next]_vars
    PROVE  StaleHasEvent'
<1> DEFINE Covered(v) ==
             Found(v) /\ ((\E e \in loud : v < e) => \E e \in pending : e > v)
<1> SUFFICES ASSUME ~late', ~late
             PROVE  /\ Superseded(l2)' => \E e \in pending' : e > l2'
                    /\ \A r \in Requests :
                        Holding(r)' /\ Found(val'[r]) /\ Superseded(val[r])' =>
                            \E e \in pending' : e > val'[r]
  BY Sources DEF Origin, StaleHasEvent, Found
<1>0. /\ MaxVersion \in Nat /\ Events = 1..MaxVersion + 1 /\ db \in 0..MaxVersion + 1
      /\ loud \subseteq Events
  BY AuthCacheAssumption DEF AuthCacheTypeOK, Versions, Events, Deleted
<1>1. /\ l2' # NoEntry => Covered(l2')
      /\ \A r \in Requests : Holding(r)' /\ Found(val'[r]) => Covered(val'[r])
  <2>1. l2 # NoEntry => Covered(l2)
    BY DEF StaleHasEvent, ReaderInv, Superseded
  <2>2. \A r \in Requests : Holding(r) /\ Found(val[r]) => Covered(val[r])
    BY AuthCacheAssumption DEF StaleHasEvent, Found, Superseded
  <2>3. \A r \in Requests : req[r] = "share" => Covered(val[r])
    BY <2>2 DEF ReaderInv, Holding
  <2>4. Found(db) => Covered(db)
    BY <1>0 DEF LoudInv
  <2> HIDE DEF Covered
  <2> QED BY <2>1, <2>2, <2>3, <2>4, Sources DEF Origin
<1>2. ASSUME Write, NEW v, Covered(v), NEW e \in loud', v < e
      PROVE  \E d \in pending' : d > v
  <2>1. pending \subseteq pending' /\ (e \in loud \/ e \in pending')
    BY <1>2 DEF Write, Change
  <2>2. v \in Int /\ e \in Int
    BY <1>0, <1>2, TypeStep DEF Found, AuthCacheTypeOK, Events
  <2> QED BY <1>2, <2>1, <2>2
<1>3. ASSUME NEW p \in Procs, NEW e \in Events, DeleteClaimed(p, e)
      PROVE  /\ l2' # NoEntry /\ (\E f \in loud' : l2' < f) => \E d \in pending' : d > l2'
             /\ \A r \in Requests :
                  Holding(r)' /\ Found(val'[r]) /\ (\E f \in loud' : val'[r] < f) =>
                    \E d \in pending' : d > val'[r]
  <2>1. UNCHANGED <<loud, l2, req, val>> /\ work[p][e] = "ack" /\ seen[p][e] = 1
    BY <1>3 DEF DeleteClaimed, Settled, cacheVars, reqVars
  <2>2. CASE UNCHANGED pending
    BY <1>1, <2>1, <2>2
  <2>3. CASE Owns(p, e) /\ pending' = pending \ {e}
    <3>1. Second(p, e)
      BY <2>1, <2>3 DEF Owns, Second
    <3>2. /\ l2 = NoEntry \/ l2 >= e
          /\ \A r \in Requests : Holding(r) => val[r] >= e
      BY <2>1, <3>1 DEF PassInv, Second
    <3>3. ASSUME NEW v, Covered(v), v >= e, NEW f \in loud, v < f
          PROVE  \E d \in pending' : d > v
      <4>1. PICK d \in pending : d > v
        BY <3>3
      <4>2. d # e
        BY <1>0, <3>3, <4>1 DEF Found
      <4> QED BY <2>3, <4>1, <4>2
    <3> QED BY <1>1, <2>1, <3>2, <3>3 DEF Holding
  <2> QED BY <1>3, <2>2, <2>3 DEF DeleteClaimed, outboxVars
<1>4. CASE UNCHANGED <<db, loud, pending>>
  BY <1>1, <1>4 DEF Superseded
<1> QED BY <1>1, <1>2, <1>3, <1>4, RowSteps DEF Superseded

\* The inductive invariant.
Inv == AuthCacheTypeOK /\ ReaderInv /\ EventInv /\ LoudInv /\ AgeInv /\ PassInv /\ StaleHasEvent

\* The inductive invariant holds in every reachable state.
THEOREM InvCorrect == Spec => []Inv
<1>1. Init => Inv
  <2> SUFFICES ASSUME Init PROVE Inv
    OBVIOUS
  <2>1. AuthCacheTypeOK
    <3>1. /\ db \in Versions /\ last \in Versions
          /\ faults \in 0..MaxFaults /\ lease \in [Events -> 0..Lease]
      BY AuthCacheAssumption DEF Init, Versions, Deleted
    <3>2. /\ work \in [Procs -> [Events -> Steps]] /\ seen \in [Procs -> [Events -> 0..1]]
          /\ stage \in [Events -> 0..1] /\ wait \in [Events -> Nat]
      BY DEF Init, Steps
    <3>3. pending \in SUBSET Events /\ loud \in SUBSET Events /\ claim \in [Events -> Procs \cup {NoOne, Dead}]
      BY DEF Init
    <3>4. /\ l1 \in [Procs -> Entries] /\ l2 \in Entries /\ val \in [Requests -> Entries]
          /\ at \in [Requests -> Procs \cup {NoOne}] /\ age \in [Requests -> Nat]
          /\ req \in [Requests -> {"idle", "fill", "loaded", "share"}]
      BY DEF Init, Entries
    <3> QED BY <3>1, <3>2, <3>3, <3>4 DEF Init, AuthCacheTypeOK, Steps
  <2>2. ReaderInv /\ StaleHasEvent
    BY DEF Init, ReaderInv, StaleHasEvent, Holding, Superseded
  <2>3. EventInv /\ LoudInv /\ AgeInv /\ PassInv
    <3>1. /\ \A p \in Procs, e \in Events : work[p][e] = "none"
          /\ \A e \in Events : stage[e] = 0
      BY DEF Init
    <3>2. pending = {}
      BY DEF Init
    <3>3. RowInv
      BY <3>1, <3>2 DEF RowInv
    <3>4. ClaimInv
      BY <3>2 DEF ClaimInv, Second
    <3> QED BY <3>2, <3>3, <3>4 DEF Init, EventInv, LoudInv, AgeInv, PassInv
  <2> QED BY <2>1, <2>2, <2>3 DEF Inv
<1>2. Inv /\ [Next]_vars => Inv'
  <2> SUFFICES ASSUME Inv, [Next]_vars PROVE Inv'
    OBVIOUS
  <2> USE DEF Inv
  <2>1. AuthCacheTypeOK'
    BY TypeStep
  <2>2. ReaderInv' /\ EventInv' /\ LoudInv'
    BY ReaderStep, EventStep, LoudStep
  <2>3. AgeInv' /\ PassInv'
    BY <2>1, AgeStep, PassStep
  <2>4. StaleHasEvent'
    BY StaleStep
  <2> QED BY <2>1, <2>2, <2>3, <2>4
<1> QED BY <1>1, <1>2, PTL DEF Spec

\* Every variable of the authentication caches and of their outbox keeps its type.
THEOREM AuthCacheTypeCorrect == Spec => []AuthCacheTypeOK
<1>1. Inv => AuthCacheTypeOK
  BY DEF Inv
<1> QED BY <1>1, InvCorrect, PTL

\* processEvent and the claimed_by conditions of the repository: while no reader
\* outlived its bound, a version in L2, or on its way there, that a change with an
\* event has superseded (a creation, a deletion, or an update of a column that the
\* triggers of migration 198 compare) still has an outbox row that will remove it, whatever crashed, failed or lost its claim.
THEOREM StaleHasEventCorrect == Spec => []StaleHasEvent
<1>1. Inv => StaleHasEvent
  BY DEF Inv
<1> QED BY <1>1, InvCorrect, PTL
==============================================================================
