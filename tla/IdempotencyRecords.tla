------------------------- MODULE IdempotencyRecords -------------------------
(***************************************************************************)
(* The row of idempotency_records for one scope and key, and the           *)
(* statements of repository/idempotency_repo.go on it.  The unique index   *)
(* on (scope, idempotency_key_hash) makes it one row, and rows of other    *)
(* keys are independent of it.                                             *)
(*                                                                         *)
(* Times are relative to the present: left is locked_until - now and life  *)
(* is expires_at - now.  A request compares them with the moment it        *)
(* remembers as now, which lies lag ticks back.  Moments more than MaxLag  *)
(* in the past are not told apart, and NULL counts as such a moment:       *)
(* every condition reads "locked_until IS NULL OR locked_until <= now".    *)
(* Ids come from a sequence and are only compared, so that a new row takes *)
(* any id nobody remembers.                                                *)
(***************************************************************************)
EXTENDS Integers

CONSTANTS
    RowIds,             \* ids of rows
    NoRow,              \* no id
    Fingerprints,       \* request fingerprints
    NoFingerprint,      \* before the first row
    Ttl,                \* lifetime of a record, in ticks
    ProcessingTimeout,  \* cfg.ProcessingTimeout, in ticks
    MaxLag              \* bound on the ticks between reading the clock and claiming

ASSUME RecordsAssumption ==
    /\ NoFingerprint \notin Fingerprints /\ NoRow \notin RowIds
    /\ Ttl \in Nat \ {0} /\ ProcessingTimeout \in Nat \ {0} /\ MaxLag \in Nat
    /\ MaxLag < ProcessingTimeout /\ MaxLag < Ttl

VARIABLES
    id,      \* id of the row, NoRow while there is none
    status,  \* its status, "none" while there is no row
    fp,      \* request_fingerprint
    left,    \* locked_until - now
    life     \* expires_at - now

row == <<id, status, fp, left, life>>

Present == status # "none"

RowType ==
    /\ id \in RowIds \cup {NoRow}
    /\ status \in {"none", "processing", "succeeded", "failed_retryable"}
    /\ fp \in Fingerprints \cup {NoFingerprint}
    /\ left \in -MaxLag..ProcessingTimeout /\ life \in -MaxLag..Ttl
    /\ Present => id \in RowIds /\ fp \in Fingerprints

RowInit ==
    /\ id = NoRow
    /\ status = "none" /\ fp = NoFingerprint
    /\ left = -MaxLag /\ life = -MaxLag

\* NULL, and every moment too long ago to matter.
Floor(t) == IF t < -MaxLag THEN -MaxLag ELSE t

\* CreateProcessing of a request that read the clock lag ticks ago, where no
\* row is in the way.
Insert(i, f, lag) ==
    /\ ~Present
    /\ id' = i /\ status' = "processing" /\ fp' = f
    /\ left' = ProcessingTimeout - lag
    /\ life' = Ttl - lag

\* Mutant: the lock is not looked at again.
Reclaimable_AnyLock(i, from, lag) == Present /\ id = i /\ status = from

\* The WHERE clause of TryReclaim.
Reclaimable(i, from, lag) == Present /\ id = i /\ status = from /\ left <= -lag

\* TryReclaim: the row starts over, under the fingerprint it already has.
Reclaim(lag) ==
    /\ status' = "processing"
    /\ left' = ProcessingTimeout - lag
    /\ life' = Ttl - lag
    /\ UNCHANGED <<id, fp>>

\* The WHERE clause of ExtendProcessingLock.
Extendable(i, f) == Present /\ id = i /\ status = "processing" /\ fp = f

\* ExtendProcessingLock, with the clock read just before.
Extend ==
    /\ left' = ProcessingTimeout /\ life' = Ttl
    /\ UNCHANGED <<id, status, fp>>

\* MarkSucceeded and MarkFailedRetryable: by id alone; no row, no change.
Mark(i, s, newLeft, newLife) ==
    IF Present /\ id = i
    THEN /\ status' = s
         /\ left' = Floor(newLeft) /\ life' = Floor(newLife)
         /\ UNCHANGED <<id, fp>>
    ELSE UNCHANGED row

\* Mutant: rows that are still processing are kept.
Deletable_NotProcessing == status \in {"succeeded", "failed_retryable"} /\ life <= 0

\* The WHERE clause of DeleteExpired.
Deletable == Present /\ life <= 0

\* DeleteExpired.
Delete ==
    /\ Deletable
    /\ id' = NoRow /\ status' = "none" /\ fp' = NoFingerprint
    /\ left' = -MaxLag /\ life' = -MaxLag

\* A tick passes for the row.
Age ==
    /\ left' = Floor(left - 1) /\ life' = Floor(life - 1)
    /\ UNCHANGED <<id, status, fp>>
=============================================================================
