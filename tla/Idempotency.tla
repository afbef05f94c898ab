---------------------------- MODULE Idempotency ----------------------------
(***************************************************************************)
(* IdempotencyCoordinator.Execute (service/idempotency.go): requests that  *)
(* carry the same Idempotency-Key, with the same or another payload, run   *)
(* at the same time on any gateway instance, and share one row.  One       *)
(* action is one statement on the row, or the execution of the business    *)
(* operation.  Requests without a key run the operation directly and touch *)
(* no row.                                                                 *)
(***************************************************************************)
EXTENDS IdempotencyRecords

CONSTANTS
    Workers,    \* concurrent requests
    Backoff,    \* cfg.FailedRetryBackoff, in ticks
    MaxFaults   \* bound on crashes, failed statements and overlong executions

ASSUME IdempotencyAssumption ==
    /\ Backoff \in Nat /\ Backoff <= ProcessingTimeout
    /\ MaxFaults \in Nat

VARIABLES
    body,     \* response_body: "none", "whole", or "cut" to MaxStoredResponseLen
    pc, payload, lag, held, from, out,  \* the requests: position, payload, ticks since
                                        \* the clock was read, record.ID, status read, result
    effects,  \* history: successful executions since the record began, up to 2
    applied,  \* history: payloads that were executed with success
    told,     \* history: payloads answered with a result
    overran,  \* history: an execution outlived its record
    revived,  \* history: a record was reclaimed as expired that no longer was
    faults

history == <<effects, applied, told, overran, revived>>
request == <<pc, payload, lag, held, from, out>>
vars == <<row, body, request, history, faults>>

Claiming == {"create", "get", "reclaimExpired", "latest", "reclaimFailed"}
Executing == {"execute", "markSucceeded", "markFailed"}

\* Every variable has its type.
IdempotencyTypeOK ==
    /\ RowType
    /\ body \in {"none", "whole", "cut"}
    /\ pc \in [Workers -> {"idle"} \cup Claiming \cup Executing]
    /\ payload \in [Workers -> Fingerprints \cup {NoFingerprint}]
    /\ lag \in [Workers -> 0..(Ttl + MaxLag)]
    /\ held \in [Workers -> RowIds \cup {NoRow}]
    /\ from \in [Workers -> {"none", "processing", "succeeded", "failed_retryable"}]
    /\ out \in [Workers -> {"none", "whole", "cut"}]
    /\ effects \in 0..2
    /\ applied \subseteq Fingerprints /\ told \subseteq Fingerprints
    /\ overran \in BOOLEAN /\ revived \in BOOLEAN
    /\ faults \in 0..MaxFaults
    /\ \A w \in Workers : pc[w] # "idle" => payload[w] \in Fingerprints

Init ==
    /\ RowInit
    /\ body = "none"
    /\ pc = [w \in Workers |-> "idle"]
    /\ payload = [w \in Workers |-> NoFingerprint]
    /\ lag = [w \in Workers |-> 0]
    /\ held = [w \in Workers |-> NoRow]
    /\ from = [w \in Workers |-> "none"]
    /\ out = [w \in Workers |-> "none"]
    /\ effects = 0 /\ applied = {} /\ told = {} /\ overran = FALSE /\ revived = FALSE
    /\ faults = 0

Fault ==
    /\ faults < MaxFaults
    /\ faults' = faults + 1

GoTo(w, p) == pc' = [pc EXCEPT ![w] = p]

\* The request is answered.
Return(w) ==
    /\ GoTo(w, "idle")
    /\ payload' = [payload EXCEPT ![w] = NoFingerprint]
    /\ lag' = [lag EXCEPT ![w] = 0]
    /\ held' = [held EXCEPT ![w] = NoRow]
    /\ from' = [from EXCEPT ![w] = "none"]
    /\ out' = [out EXCEPT ![w] = "none"]

\* Execute, up to reading the clock: key and fingerprint are computed.
Execute(w, p) ==
    /\ pc[w] = "idle"
    /\ GoTo(w, "create")
    /\ payload' = [payload EXCEPT ![w] = p]
    /\ UNCHANGED <<row, body, lag, held, from, out, history, faults>>

\* The request owns the row from now on.
Own(w) ==
    /\ GoTo(w, "execute")
    /\ held' = [held EXCEPT ![w] = id']
    /\ from' = [from EXCEPT ![w] = "none"]
    /\ UNCHANGED <<payload, lag, out>>

\* CreateProcessing inserts the row, or finds one in the way.
CreateProcessing(w) ==
    /\ pc[w] = "create"
    /\ \/ /\ \E i \in RowIds : Insert(i, payload[w], lag[w]) /\ \A v \in Workers : held[v] # i
          /\ Own(w)
          /\ body' = "none" /\ effects' = 0
       \/ /\ Present
          /\ GoTo(w, "get")
          /\ UNCHANGED <<row, body, payload, lag, held, from, out, effects>>
    /\ UNCHANGED <<applied, told, overran, revived, faults>>

\* A result goes back to the client.
Tell(w) == told' = told \cup {payload[w]}

\* The row is left for TryReclaim, with its id and status remembered.
LeaveTo(w, p) ==
    /\ GoTo(w, p)
    /\ held' = [held EXCEPT ![w] = id]
    /\ from' = [from EXCEPT ![w] = status]
    /\ UNCHANGED <<payload, lag, out, told>>

\* decodeStoredResponse: a body that was cut is no JSON.
Decodable == body = "whole"

\* Mutant: a record in progress is taken over when its lock has run out.
Decide_TakeOver(w) ==
    \/ status = "succeeded" /\ Decodable /\ Tell(w) /\ Return(w)
    \/ status = "succeeded" /\ ~Decodable /\ UNCHANGED told /\ Return(w)
    \/ status # "succeeded" /\ left > -lag[w] /\ UNCHANGED told /\ Return(w)
    \/ status # "succeeded" /\ left <= -lag[w] /\ LeaveTo(w, "reclaimFailed")

\* The switch on existing.Status: replay the stored result, or report that it
\* cannot be decoded; conflict while in progress or in backoff; else reclaim.
Decide(w) ==
    \/ status = "succeeded" /\ Decodable /\ Tell(w) /\ Return(w)
    \/ status = "succeeded" /\ ~Decodable /\ UNCHANGED told /\ Return(w)
    \/ status = "processing" /\ UNCHANGED told /\ Return(w)
    \/ status = "failed_retryable" /\ left > -lag[w] /\ UNCHANGED told /\ Return(w)
    \/ status = "failed_retryable" /\ left <= -lag[w] /\ LeaveTo(w, "reclaimFailed")

\* Mutant: the fingerprint is not compared.
Unusable_Missing(w) == ~Present

\* No row (store unavailable) or a row of another payload (conflict).
Unusable(w) == ~Present \/ fp # payload[w]

\* Mutant: expiry is judged by the lock.
Expired_Lock(n) == left <= -n

\* !existing.ExpiresAt.After(now), with the clock read n ticks ago.
Expired(n) == life <= -n

\* GetByScopeAndKeyHash after a lost insert.
GetExisting(w) ==
    /\ pc[w] = "get"
    /\ \/ Unusable(w) /\ Return(w) /\ UNCHANGED told
       \/ ~Unusable(w) /\ Expired(lag[w]) /\ LeaveTo(w, "reclaimExpired")
       \/ ~Unusable(w) /\ ~Expired(lag[w]) /\ Decide(w)
    /\ UNCHANGED <<row, body, effects, applied, overran, revived, faults>>

\* TryReclaim of a record that was read expired, whatever its status was.  The
\* statement does not look at expires_at: a new life begins if the record is
\* still expired, else the life it has goes on.
ReclaimExpired(w) ==
    /\ pc[w] = "reclaimExpired"
    /\ \/ /\ Reclaimable(held[w], from[w], lag[w])
          /\ Reclaim(lag[w])
          /\ Own(w)
          /\ effects' = IF Expired(lag[w]) THEN 0 ELSE effects
          /\ revived' = (revived \/ ~Expired(lag[w]))
       \/ /\ ~Reclaimable(held[w], from[w], lag[w])
          /\ GoTo(w, "latest")
          /\ held' = [held EXCEPT ![w] = NoRow]
          /\ from' = [from EXCEPT ![w] = "none"]
          /\ UNCHANGED <<row, payload, lag, out, effects, revived>>
    /\ UNCHANGED <<body, applied, told, overran, faults>>

\* GetByScopeAndKeyHash after a lost reclaim.
GetLatest(w) ==
    /\ pc[w] = "latest"
    /\ \/ Unusable(w) /\ Return(w) /\ UNCHANGED told
       \/ ~Unusable(w) /\ Decide(w)
    /\ UNCHANGED <<row, body, effects, applied, overran, revived, faults>>

\* TryReclaim of a failed record.
ReclaimFailed(w) ==
    /\ pc[w] = "reclaimFailed"
    /\ \/ /\ Reclaimable(held[w], from[w], lag[w])
          /\ Reclaim(lag[w])
          /\ Own(w)
       \/ /\ ~Reclaimable(held[w], from[w], lag[w])
          /\ Return(w)
          /\ UNCHANGED row
    /\ UNCHANGED <<body, history, faults>>

\* The business operation: it succeeds once and for all, or fails without effect.
RunOperation(w) ==
    /\ pc[w] = "execute"
    /\ \/ /\ GoTo(w, "markSucceeded")
          /\ \E size \in {"whole", "cut"} : out' = [out EXCEPT ![w] = size]
          /\ effects' = IF effects < 2 THEN effects + 1 ELSE effects
          /\ applied' = applied \cup {payload[w]}
       \/ /\ GoTo(w, "markFailed")
          /\ UNCHANGED <<out, effects, applied>>
    /\ UNCHANGED <<row, body, payload, lag, held, from, told, overran, revived, faults>>

\* MarkSucceeded: the result is stored and returned.
MarkSucceeded(w) ==
    /\ pc[w] = "markSucceeded"
    /\ Mark(held[w], "succeeded", -MaxLag, Ttl - lag[w])
    /\ body' = IF Present /\ id = held[w] THEN out[w] ELSE body
    /\ Tell(w)
    /\ Return(w)
    /\ UNCHANGED <<effects, applied, overran, revived, faults>>

\* The result cannot be encoded or stored: the client gets an error, the row
\* stays in progress until it expires.
MarkSucceededFails(w) ==
    /\ pc[w] = "markSucceeded"
    /\ Fault
    /\ Return(w)
    /\ UNCHANGED <<row, body, history>>

\* MarkFailedRetryable: retries wait for the backoff.
MarkFailedRetryable(w) ==
    /\ pc[w] = "markFailed"
    /\ Mark(held[w], "failed_retryable", Backoff, Ttl - lag[w])
    /\ Return(w)
    /\ UNCHANGED <<body, history, faults>>

\* The process dies, the request's context is cancelled, or a statement fails
\* where nothing but an error is returned.
Crash(w) ==
    /\ pc[w] # "idle"
    /\ Fault
    /\ Return(w)
    /\ UNCHANGED <<row, body, history>>

\* IdempotencyCleanupService.
Cleanup ==
    /\ Delete
    /\ body' = "none"
    /\ UNCHANGED <<request, history, faults>>

\* A tick would bring the end of a record that is being executed.
Overruns(w) == pc[w] \in Executing /\ lag[w] + 1 = Ttl

\* Time passes.  That an execution outlives its record counts as a fault.
Tick ==
    /\ \A w \in Workers : pc[w] \in Claiming => lag[w] < MaxLag
    /\ Age
    /\ lag' = [w \in Workers |->
                IF pc[w] # "idle" /\ lag[w] < Ttl + MaxLag THEN lag[w] + 1 ELSE lag[w]]
    /\ IF \E w \in Workers : Overruns(w)
       THEN Fault /\ overran' = TRUE
       ELSE UNCHANGED <<faults, overran>>
    /\ UNCHANGED <<body, pc, payload, held, from, out, effects, applied, told, revived>>

Proceed(w) ==
    \/ CreateProcessing(w) \/ GetExisting(w) \/ ReclaimExpired(w) \/ GetLatest(w)
    \/ ReclaimFailed(w) \/ RunOperation(w) \/ MarkSucceeded(w) \/ MarkFailedRetryable(w)

Next ==
    \/ \E w \in Workers :
          \/ Proceed(w) \/ MarkSucceededFails(w) \/ Crash(w)
          \/ \E p \in Fingerprints : Execute(w, p)
    \/ Cleanup
    \/ Tick

Spec == Init /\ [][Next]_vars

\* Requests run to an end, time passes, and the cleanup runs every minute.
Fairness ==
    /\ \A w \in Workers : WF_vars(Proceed(w))
    /\ WF_vars(Tick) /\ WF_vars(Cleanup)

FairSpec == Spec /\ Fairness

-----------------------------------------------------------------------------

\* During the life of a record the operation succeeds at most once, whatever
\* requests race, retry, crash or fail to store the result, as long as no
\* execution outlives its record and no record is reclaimed as expired that
\* another request has renewed (Execute, TryReclaim).
SingleEffect == ~overran /\ ~revived => effects <= 1

\* No two requests with the same key execute at the same time (CreateProcessing
\* and TryReclaim hand the row to one request), unless one outlives its record.
ExecutesAlone ==
    ~overran => \A v, w \in Workers : pc[v] \in Executing /\ pc[w] \in Executing => v = w

\* A client is told a result, executed or replayed, only for a payload that was
\* executed with success: the fingerprint check and the reclaim keep a record
\* with its payload even where a stale request writes by id.
ToldIsApplied == told \subseteq applied

\* Under the same conditions the record of a success is not given up before it
\* expires (Execute, TryReclaim, MarkFailedRetryable by id, DeleteExpired).
SuccessStays ==
    [][~overran' /\ ~revived' /\ status = "succeeded" /\ life > 0 => status' = "succeeded"]_vars

\* A key left in progress by a crash, or by a result that could not be stored,
\* does not stay so (expires_at, DeleteExpired).
KeyIsFreed == status = "processing" ~> status # "processing"

-----------------------------------------------------------------------------
(* The invariant the proofs rest on. *)

\* A remembered id stands for a row with the request's payload; whoever is about
\* to store a result, and every stored success, was executed.
PayloadInv ==
    /\ told \subseteq applied
    /\ status = "succeeded" => fp \in applied
    /\ \A w \in Workers :
        /\ pc[w] = "markSucceeded" => payload[w] \in applied
        /\ pc[w] \in {"reclaimExpired", "reclaimFailed"} \cup Executing => held[w] # NoRow
        /\ pc[w] = "idle" => held[w] = NoRow
        /\ Present /\ held[w] = id => fp = payload[w]

\* A claiming request has read the clock recently.
ClaimInv ==
    \A w \in Workers :
        /\ pc[w] \in Claiming \cup {"idle"} => lag[w] <= MaxLag
        /\ pc[w] = "reclaimFailed" => from[w] = "failed_retryable"

\* The executing request owns the row, nobody else executes, the row lasts as
\* long as the request's own ttl, and a request that read an earlier life of the
\* row read the clock too early to find the lock run out.
OwnerInv ==
    \A w \in Workers :
        ~overran /\ pc[w] \in Executing =>
            /\ status = "processing" /\ held[w] = id
            /\ lag[w] < Ttl
            /\ life >= Ttl - lag[w]
            /\ left >= ProcessingTimeout - lag[w]
            /\ \A v \in Workers :
                /\ pc[v] \in Executing => v = w
                /\ pc[v] = "reclaimExpired" /\ held[v] = id /\ from[v] = "processing"
                    => lag[w] <= lag[v] + MaxLag

\* Who still has to execute or has failed finds no effect yet, and neither does
\* who retries a failed record.
EffectInv ==
    ~overran /\ ~revived =>
        /\ effects <= 1
        /\ status = "failed_retryable" => effects = 0
        /\ \A w \in Workers : pc[w] \in {"execute", "markFailed"} => effects = 0

\* The inductive invariant: one owner, one payload, one effect.
IdempotencyInv == PayloadInv /\ ClaimInv /\ OwnerInv /\ EffectInv
=============================================================================
