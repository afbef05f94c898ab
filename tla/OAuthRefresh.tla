---------------------------- MODULE OAuthRefresh ----------------------------
(***************************************************************************)
(* The refresh of one OAuth account's token (service/oauth_refresh_api.go) *)
(* by the background service (service/token_refresh_service.go) and by     *)
(* requests (the token providers).  A refresh token works once: the        *)
(* provider answers with the next one, and whoever comes with the old one  *)
(* is told invalid_grant.                                                  *)
(*                                                                         *)
(* Credentials are numbers in the order the provider issued them.  A Grok  *)
(* account is written by statements that compare the whole credential      *)
(* document, the accounts of other platforms without a comparison.         *)
(*                                                                         *)
(* An administrator's requests (edits, a refresh by hand, credentials of a *)
(* new authorization) and the project_id backfill of two token providers   *)
(* write the credentials they hold without the lock and without a          *)
(* comparison; one of them is under way at a time.                         *)
(***************************************************************************)
EXTENDS Integers, FiniteSets

CONSTANTS
    Procs,           \* gateway processes
    Workers,         \* goroutines that refresh the account
    Deployments,     \* the account's platform, where each worker runs, and whether it
                     \* is the background cycle of its process or the requests it serves
    MaxIssued,       \* bound on the credentials the provider issues
    MaxRetries,      \* maxRetries
    MaxFaults        \* bound on crashes, failed calls, stalls and requests of administrators

Kinds == {"background", "request"}

ASSUME OAuthAssumption ==
    /\ Deployments \subseteq [grok : BOOLEAN, home : [Workers -> Procs], kind : [Workers -> Kinds]]
    /\ MaxIssued \in Nat \ {0} /\ MaxRetries \in Nat \ {0} /\ MaxFaults \in Nat

VARIABLES
    grok,      \* the account's platform
    home,      \* process of each worker
    kind,      \* what it refreshes for
    creds,     \* credentials in the account's row
    due,       \* NeedsRefresh for those credentials
    status,    \* status of the account
    cooldown,  \* temp_unschedulable_until is in the future
    live,      \* credentials whose refresh token the provider accepts
    issued,    \* credentials issued so far
    lock,      \* the Redis lock exists
    pc,        \* position of each worker
    expired,   \* the deadline of its attempt has passed
    tries,     \* failed attempts
    held,      \* credentials of the caller's account variable
    basis,     \* credentials read under the lock (attemptedAccount)
    got,       \* credentials the provider returned; 0: none
    res,       \* outcome of the attempt
    owns,      \* the worker acquired the Redis lock
    admin,     \* position of the administrator's request
    draft,     \* credentials it read, was given or will write; 0: none
    was,       \* status it read and will write; "kept": it writes none
    slipped,   \* a refresh went on without the lock, or outlived it
    beside,    \* such a request and a refresh were under way together
    faults

siteVars == <<grok, home, kind>>
accountVars == <<creds, due, status, cooldown>>
providerVars == <<live, issued>>
callVars == <<expired, tries, held, basis, got, res, owns>>
adminVars == <<admin, draft, was>>
ghostVars == <<slipped, beside>>
vars == <<siteVars, accountVars, providerVars, lock, pc, callVars, adminVars, ghostVars, faults>>

Positions == {"idle", "mutex", "lock", "read", "call", "called", "release", "settle"}
Results == {"skip", "ok", "invalid_grant", "retryable", "shared", "contained"}
Creds == 1..MaxIssued

\* Every variable has its type.
OAuthTypeOK ==
    /\ grok \in BOOLEAN
    /\ home \in [Workers -> Procs]
    /\ kind \in [Workers -> Kinds]
    /\ creds \in Creds
    /\ due \in BOOLEAN
    /\ status \in {"active", "error"}
    /\ cooldown \in BOOLEAN
    /\ live \in SUBSET Creds
    /\ issued \in Creds
    /\ lock \in BOOLEAN
    /\ pc \in [Workers -> Positions]
    /\ expired \in [Workers -> BOOLEAN]
    /\ tries \in [Workers -> 0..MaxRetries - 1]
    /\ held \in [Workers -> Creds \cup {0}]
    /\ basis \in [Workers -> Creds \cup {0}]
    /\ got \in [Workers -> Creds \cup {0}]
    /\ res \in [Workers -> Results]
    /\ owns \in [Workers -> BOOLEAN]
    /\ admin \in {"idle", "exchange", "read", "save"}
    /\ draft \in Creds \cup {0}
    /\ was \in {"active", "error", "kept"}
    /\ slipped \in BOOLEAN /\ beside \in BOOLEAN
    /\ faults \in 0..MaxFaults

Init ==
    /\ \E d \in Deployments : grok = d.grok /\ home = d.home /\ kind = d.kind
    /\ creds = 1 /\ due = FALSE /\ status = "active" /\ cooldown = FALSE
    /\ live = {1} /\ issued = 1
    /\ lock = FALSE
    /\ pc = [w \in Workers |-> "idle"]
    /\ expired = [w \in Workers |-> FALSE]
    /\ tries = [w \in Workers |-> 0]
    /\ held = [w \in Workers |-> 0]
    /\ basis = [w \in Workers |-> 0]
    /\ got = [w \in Workers |-> 0]
    /\ res = [w \in Workers |-> "skip"]
    /\ owns = [w \in Workers |-> FALSE]
    /\ admin = "idle" /\ draft = 0 /\ was = "kept"
    /\ slipped = FALSE /\ beside = FALSE
    /\ faults = 0

Fault ==
    /\ faults < MaxFaults
    /\ faults' = faults + 1

\* A call fails by itself, or because the context of the attempt has ended.
CallFails(w) == Fault \/ (expired[w] /\ UNCHANGED faults)

GoTo(w, p) == pc' = [pc EXCEPT ![w] = p]
Ends(w, p, r) == GoTo(w, p) /\ res' = [res EXCEPT ![w] = r]

\* The context of a background attempt and of a Grok request has a deadline,
\* earlier than the end of the lock (clampRefreshAttemptToLockLease).
Bounded(w) == grok \/ kind[w] = "background"

---------------------------------------------------------------------------
(* RefreshIfNeeded                                                         *)

\* A due account is listed by the background cycle, or chosen for a request.
Eligible == due /\ status = "active" /\ ~cooldown

Start(w) ==
    /\ pc[w] = "idle" /\ Eligible
    /\ GoTo(w, "mutex")
    /\ held' = [held EXCEPT ![w] = creds]
    /\ beside' = (beside \/ admin # "idle")
    /\ UNCHANGED <<siteVars, adminVars, accountVars, providerVars, lock, expired, tries, basis, got, res, owns, slipped, faults>>

\* Between localMu.Lock and localMu.Unlock.
InMutex(w) == pc[w] \in {"lock", "read", "call", "called", "release"}
MutexFree(w) == \A v \in Workers : home[v] = home[w] => ~InMutex(v)

LocalLock(w) ==
    /\ pc[w] = "mutex" /\ ~expired[w]
    /\ MutexFree(w)
    /\ GoTo(w, "lock")
    /\ UNCHANGED <<siteVars, adminVars, accountVars, providerVars, lock, callVars, ghostVars, faults>>

\* The deadline ends the wait for the mutex with a retryable error.
LocalLockTimeout(w) ==
    /\ pc[w] = "mutex" /\ expired[w]
    /\ Ends(w, "settle", "retryable")
    /\ UNCHANGED <<siteVars, adminVars, accountVars, providerVars, lock, expired, tries, held, basis, got, owns, ghostVars, faults>>

\* Mutant: the answer of SETNX is not looked at.
AcquireRefreshLock_Always(w) ==
    /\ lock' = TRUE
    /\ Ends(w, "read", "skip")
    /\ owns' = [owns EXCEPT ![w] = TRUE]

\* SETNX.  The lock names no owner.
AcquireRefreshLock(w) ==
    IF lock
    THEN Ends(w, "settle", "skip") /\ UNCHANGED <<lock, owns>>
    ELSE /\ lock' = TRUE
         /\ Ends(w, "read", "skip")
         /\ owns' = [owns EXCEPT ![w] = TRUE]

AcquireLock(w) ==
    /\ pc[w] = "lock" /\ ~expired[w]
    /\ AcquireRefreshLock(w)
    /\ UNCHANGED <<siteVars, adminVars, accountVars, providerVars, expired, tries, held, basis, got, ghostVars, faults>>

\* Redis fails: the refresh goes on without the lock.
Degrade(w) ==
    /\ pc[w] = "lock"
    /\ CallFails(w)
    /\ GoTo(w, "read")
    /\ slipped' = (slipped \/ ~expired[w])
    /\ UNCHANGED <<siteVars, adminVars, accountVars, providerVars, lock, callVars, beside>>

\* The account is read again under the lock.
ReadAccount(w) ==
    /\ pc[w] = "read" /\ ~expired[w]
    /\ IF status = "active" /\ due
       THEN GoTo(w, "call") /\ basis' = [basis EXCEPT ![w] = creds] /\ UNCHANGED <<held, res>>
       ELSE Ends(w, "release", "skip") /\ held' = [held EXCEPT ![w] = creds] /\ UNCHANGED basis
    /\ UNCHANGED <<siteVars, adminVars, accountVars, providerVars, lock, expired, tries, got, owns, ghostVars, faults>>

\* It cannot be read, or not in time: nothing is concluded about the account.
ReadFails(w) ==
    /\ pc[w] = "read"
    /\ CallFails(w)
    /\ Ends(w, "release", "contained")
    /\ UNCHANGED <<siteVars, adminVars, accountVars, providerVars, lock, expired, tries, held, basis, got, owns, ghostVars>>

\* The provider exchanges the refresh token, which works once.
Exchange(w) ==
    /\ basis[w] \in live
    /\ issued' = issued + 1
    /\ live' = (live \ {basis[w]}) \cup {issued + 1}

Refresh(w) ==
    /\ pc[w] = "call"
    /\ \/ /\ Exchange(w)
          /\ got' = [got EXCEPT ![w] = issued + 1]
          /\ Ends(w, "called", "ok")
       \/ /\ basis[w] \notin live
          /\ Ends(w, "called", "invalid_grant")
          /\ UNCHANGED <<live, issued, got>>
    /\ UNCHANGED <<siteVars, adminVars, accountVars, lock, expired, tries, held, basis, owns, ghostVars, faults>>

\* The answer is lost after the exchange, the provider is out of order, or it
\* reports a fault of the OAuth client, which all accounts share.
RefreshFails(w) ==
    /\ pc[w] = "call"
    /\ Fault
    /\ \/ Exchange(w) /\ Ends(w, "called", "retryable")
       \/ Ends(w, "called", "retryable") /\ UNCHANGED providerVars
       \/ Ends(w, "called", "shared") /\ UNCHANGED providerVars
    /\ UNCHANGED <<siteVars, adminVars, accountVars, lock, expired, tries, held, basis, got, owns, ghostVars>>

\* Credentials that come after the deadline are never persisted.
Late(w) ==
    /\ pc[w] = "called" /\ expired[w]
    /\ Ends(w, "release", "retryable")
    /\ got' = [got EXCEPT ![w] = 0]
    /\ UNCHANGED <<siteVars, adminVars, accountVars, providerVars, lock, expired, tries, held, basis, owns, ghostVars, faults>>

\* The caller gets an error together with the attempted snapshot.
Failed(w) ==
    /\ pc[w] = "called" /\ res[w] # "ok" /\ ~expired[w]
    /\ ~(res[w] = "invalid_grant" /\ creds # basis[w])
    /\ GoTo(w, "release")
    /\ held' = [held EXCEPT ![w] = basis[w]]
    /\ UNCHANGED <<siteVars, adminVars, accountVars, providerVars, lock, expired, tries, basis, got, res, owns, ghostVars, faults>>

\* tryRecoverFromRefreshRace: another worker has stored the next token.
Recover(w) ==
    /\ pc[w] = "called" /\ res[w] = "invalid_grant" /\ ~expired[w]
    /\ creds # basis[w]
    /\ Ends(w, "release", "skip")
    /\ held' = [held EXCEPT ![w] = creds]
    /\ UNCHANGED <<siteVars, adminVars, accountVars, providerVars, lock, expired, tries, basis, got, owns, ghostVars, faults>>

RecoverFails(w) ==
    /\ pc[w] = "called" /\ res[w] = "invalid_grant"
    /\ CallFails(w)
    /\ GoTo(w, "release")
    /\ held' = [held EXCEPT ![w] = basis[w]]
    /\ UNCHANGED <<siteVars, adminVars, accountVars, providerVars, lock, expired, tries, basis, got, res, owns, ghostVars>>

\* Mutant: the Grok statement does not compare the credentials.
Unchanged_Any(w, read) == TRUE

\* The WHERE clauses of the Grok statements.
Unchanged(w, read) == grok => creds = read

\* UpdateGrokOAuthCredentialsIfUnchanged or UpdateCredentials.
Store(w) ==
    IF Unchanged(w, basis[w])
    THEN creds' = got[w] /\ due' = FALSE /\ UNCHANGED <<status, cooldown>>
    ELSE UNCHANGED accountVars

Persist(w) ==
    /\ pc[w] = "called" /\ res[w] = "ok" /\ ~expired[w]
    /\ Store(w)
    /\ Ends(w, "release", IF Unchanged(w, basis[w]) THEN "ok" ELSE "skip")
    /\ held' = [held EXCEPT ![w] = creds']
    /\ got' = [got EXCEPT ![w] = 0]
    /\ UNCHANGED <<siteVars, adminVars, providerVars, lock, expired, tries, basis, owns, ghostVars, faults>>

\* The statement fails, or its answer is lost.  A Grok cycle is contained,
\* because the token may be consumed; other platforms try again.
PersistFails(w) ==
    /\ pc[w] = "called" /\ res[w] = "ok"
    /\ CallFails(w)
    /\ Store(w) \/ UNCHANGED accountVars
    /\ Ends(w, "release", IF grok THEN "contained" ELSE "retryable")
    /\ got' = [got EXCEPT ![w] = 0]
    /\ UNCHANGED <<siteVars, adminVars, providerVars, lock, expired, tries, held, basis, owns, ghostVars>>

\* DEL, whoever holds the lock by now; then the mutex is unlocked.
Release(w) ==
    /\ pc[w] = "release"
    /\ lock' = (lock /\ ~owns[w])
    /\ GoTo(w, "settle")
    /\ owns' = [owns EXCEPT ![w] = FALSE]
    /\ basis' = [basis EXCEPT ![w] = 0]
    /\ UNCHANGED <<siteVars, adminVars, accountVars, providerVars, expired, tries, held, got, res, ghostVars, faults>>

ReleaseFails(w) ==
    /\ pc[w] = "release" /\ owns[w]
    /\ Fault
    /\ GoTo(w, "settle")
    /\ owns' = [owns EXCEPT ![w] = FALSE]
    /\ basis' = [basis EXCEPT ![w] = 0]
    /\ UNCHANGED <<siteVars, adminVars, accountVars, providerVars, lock, expired, tries, held, got, res, ghostVars>>

---------------------------------------------------------------------------
(* What the caller makes of the outcome: refreshWithRetry                  *)

Idle(w) ==
    /\ Ends(w, "idle", "skip")
    /\ expired' = [expired EXCEPT ![w] = FALSE]
    /\ tries' = [tries EXCEPT ![w] = 0]
    /\ held' = [held EXCEPT ![w] = 0]
    /\ UNCHANGED <<basis, got, owns>>

\* An attempt past its deadline counts as timed out whatever it learned, except
\* for credentials that were stored and for a contained cycle.
Outcome(w) ==
    IF expired[w] /\ res[w] \in {"skip", "invalid_grant", "shared"} THEN "retryable" ELSE res[w]

Judges(w, r) == pc[w] = "settle" /\ kind[w] = "background" /\ Outcome(w) = r

\* A request, a refresh that was not needed and a contained failure leave the
\* account as it is.
Return(w) ==
    /\ pc[w] = "settle"
    /\ kind[w] = "request" \/ Outcome(w) \in {"skip", "shared", "contained"}
    /\ Idle(w)
    /\ UNCHANGED <<siteVars, adminVars, accountVars, providerVars, lock, ghostVars, faults>>

\* postRefreshActions ends a cooldown that the refreshed row carried.
Succeed(w) ==
    /\ Judges(w, "ok")
    /\ cooldown' \in {cooldown, FALSE}
    /\ Idle(w)
    /\ UNCHANGED <<siteVars, adminVars, creds, due, status, providerVars, lock, ghostVars, faults>>

\* Mutant: the Grok account is disabled whatever its credentials are by now.
SetError_Any(w) ==
    /\ Judges(w, "invalid_grant")
    /\ status' = "error"
    /\ Idle(w)
    /\ UNCHANGED <<siteVars, adminVars, creds, due, cooldown, providerVars, lock, ghostVars, faults>>

\* invalid_grant disables the account.
SetError(w) ==
    /\ Judges(w, "invalid_grant")
    /\ status' = IF Unchanged(w, held[w]) THEN "error" ELSE status
    /\ Idle(w)
    /\ UNCHANGED <<siteVars, adminVars, creds, due, cooldown, providerVars, lock, ghostVars, faults>>

\* Mutant: one attempt too many.
Retry_OneMore(w) ==
    /\ Judges(w, "retryable")
    /\ Ends(w, "mutex", "skip")
    /\ expired' = [expired EXCEPT ![w] = FALSE]
    /\ tries' = [tries EXCEPT ![w] = @ + 1]
    /\ UNCHANGED <<siteVars, adminVars, accountVars, providerVars, lock, held, basis, got, owns, ghostVars, faults>>

Retry(w) ==
    /\ Judges(w, "retryable") /\ tries[w] + 1 < MaxRetries
    /\ Ends(w, "mutex", "skip")
    /\ expired' = [expired EXCEPT ![w] = FALSE]
    /\ tries' = [tries EXCEPT ![w] = @ + 1]
    /\ UNCHANGED <<siteVars, adminVars, accountVars, providerVars, lock, held, basis, got, owns, ghostVars, faults>>

\* The retries are used up: the account rests for a while.
SetTempUnschedulable(w) ==
    /\ Judges(w, "retryable") /\ tries[w] + 1 >= MaxRetries
    /\ cooldown' = (cooldown \/ (Unchanged(w, held[w]) /\ (grok => status = "active")))
    /\ Idle(w)
    /\ UNCHANGED <<siteVars, adminVars, creds, due, status, providerVars, lock, ghostVars, faults>>

\* The judgement cannot be written.
JudgementFails(w) ==
    /\ Judges(w, "invalid_grant") \/ (Judges(w, "retryable") /\ tries[w] + 1 >= MaxRetries)
    /\ Fault
    /\ Idle(w)
    /\ UNCHANGED <<siteVars, adminVars, accountVars, providerVars, lock, ghostVars>>

---------------------------------------------------------------------------
(* The account                                                             *)

\* Credentials that may still be exchanged; the bound leaves room for each.
AtProvider == {basis[w] : w \in {v \in Workers : pc[v] = "call"}}
              \cup (IF admin = "exchange" THEN {draft} ELSE {})
Exchangeable(row) == (row \cup AtProvider) \cap live
Open == Exchangeable(IF due THEN {creds} ELSE {})

\* The access token comes near its expiry.
Due ==
    /\ ~due /\ issued + Cardinality(Exchangeable({creds})) <= MaxIssued
    /\ due' = TRUE
    /\ UNCHANGED <<siteVars, adminVars, creds, status, cooldown, providerVars, lock, pc, callVars, ghostVars, faults>>

\* Mutant: the cooldown has no end.
CooldownEnds_Never == FALSE /\ UNCHANGED vars

CooldownEnds ==
    /\ cooldown
    /\ cooldown' = FALSE
    /\ UNCHANGED <<siteVars, adminVars, creds, due, status, providerVars, lock, pc, callVars, ghostVars, faults>>

---------------------------------------------------------------------------
(* Writers outside the lock                                                *)

\* A request of an administrator begins.
Arrives(step, c) ==
    /\ admin = "idle"
    /\ Fault
    /\ admin' = step /\ draft' = c
    /\ beside' = (beside \/ \E w \in Workers : pc[w] # "idle")
    /\ UNCHANGED <<siteVars, accountVars, lock, pc, callVars, slipped>>

\* UpdateAccount reads the row for an ordinary edit; a Gemini or Antigravity
\* token provider holds the row it adds a project_id to.
Edit ==
    /\ Arrives("save", creds)
    /\ was' \in {status} \cup (IF grok THEN {} ELSE {"kept"})
    /\ UNCHANGED providerVars

\* ApplyOAuthCredentials: the account was authorized again.  The earlier grant
\* may stay valid.
ApplyOAuthCredentials ==
    /\ issued + 1 + Cardinality(Open) <= MaxIssued
    /\ issued' = issued + 1
    /\ live' = live \cup {issued + 1}
    /\ Arrives("read", issued + 1)
    /\ UNCHANGED was

\* refreshSingleAccount: the account is refreshed by hand, without the lock.
RefreshByHand ==
    /\ issued + Cardinality(Exchangeable({creds})) <= MaxIssued
    /\ Arrives("exchange", creds)
    /\ UNCHANGED <<providerVars, was>>

ExchangeByHand ==
    /\ admin = "exchange" /\ draft \in live
    /\ issued' = issued + 1
    /\ live' = (live \ {draft}) \cup {issued + 1}
    /\ admin' = "read" /\ draft' = issued + 1
    /\ UNCHANGED <<siteVars, accountVars, lock, pc, callVars, was, ghostVars, faults>>

\* UpdateAccount reads the row the new credentials go into...
ReadRow ==
    /\ admin = "read"
    /\ admin' = "save" /\ was' = status
    /\ UNCHANGED <<siteVars, accountVars, providerVars, lock, pc, callVars, draft, ghostVars, faults>>

\* ...and writes the whole of it back, whatever it has become.  Whether older
\* credentials are due is left to Due.
SaveRow ==
    /\ admin = "save"
    /\ creds' = draft
    /\ due' = (due /\ draft = creds)
    /\ status' = IF was = "kept" THEN status ELSE was
    /\ admin' = "idle" /\ draft' = 0 /\ was' = "kept"
    /\ UNCHANGED <<siteVars, cooldown, providerVars, lock, pc, callVars, ghostVars, faults>>

\* The provider refuses the token, a call fails or the process dies.
GiveUp ==
    /\ admin # "idle"
    /\ admin' = "idle" /\ draft' = 0 /\ was' = "kept"
    /\ UNCHANGED <<siteVars, accountVars, providerVars, lock, pc, callVars, ghostVars, faults>>

\* ClearAccountError: asked for by itself, or called at the end of
\* ApplyOAuthCredentials, which only logs its failure.  The error and the
\* cooldown are cleared one after the other.
ClearError ==
    /\ status = "error"
    /\ status' = "active"
    /\ cooldown' \in {cooldown, FALSE}
    /\ UNCHANGED <<siteVars, adminVars, creds, due, providerVars, lock, pc, callVars, ghostVars, faults>>

---------------------------------------------------------------------------
(* Crashes and time                                                        *)

\* A process dies; its Redis lock stays until its TTL.
Crash(p) ==
    LET Lost(f, v) == [w \in Workers |-> IF home[w] = p THEN v ELSE f[w]] IN
    /\ Fault
    /\ \E w \in Workers : home[w] = p /\ pc[w] # "idle"
    /\ pc' = Lost(pc, "idle")
    /\ expired' = Lost(expired, FALSE) /\ tries' = Lost(tries, 0)
    /\ held' = Lost(held, 0) /\ basis' = Lost(basis, 0) /\ got' = Lost(got, 0)
    /\ res' = Lost(res, "skip") /\ owns' = Lost(owns, FALSE)
    /\ UNCHANGED <<siteVars, adminVars, accountVars, providerVars, lock, ghostVars>>

\* The deadline of an attempt passes: while it waits for the mutex, or because
\* Redis, the database or the provider is slow.
Deadline(w) ==
    /\ pc[w] = "mutex" \/ InMutex(w)
    /\ Bounded(w) /\ ~expired[w]
    /\ Fault
    /\ expired' = [expired EXCEPT ![w] = TRUE]
    /\ UNCHANGED <<siteVars, adminVars, accountVars, providerVars, lock, pc, tries, held, basis, got, res, owns, ghostVars>>

\* The TTL of the lock ends: its owner is gone, its owner has no deadline, or
\* its process stalled.
LockLapses ==
    /\ lock
    /\ lock' = FALSE
    /\ UNCHANGED <<siteVars, adminVars, accountVars, providerVars, pc, callVars, beside>>
    /\ \/ (\A w \in Workers : ~owns[w]) /\ UNCHANGED <<slipped, faults>>
       \/ (\E w \in Workers : owns[w] /\ ~Bounded(w)) /\ slipped' = TRUE /\ UNCHANGED faults
       \/ (\E w \in Workers : owns[w] /\ Bounded(w)) /\ slipped' = TRUE /\ Fault

---------------------------------------------------------------------------

\* A step of RefreshIfNeeded or of its caller that nothing has to fail for.
Step(w) ==
    \/ LocalLock(w) \/ LocalLockTimeout(w) \/ AcquireLock(w) \/ ReadAccount(w)
    \/ Refresh(w) \/ Late(w) \/ Failed(w) \/ Recover(w) \/ Persist(w) \/ Release(w)
    \/ Return(w) \/ Succeed(w) \/ SetError(w) \/ Retry(w) \/ SetTempUnschedulable(w)

Next ==
    \/ \E w \in Workers :
        \/ Start(w) \/ LocalLock(w) \/ LocalLockTimeout(w) \/ AcquireLock(w) \/ Degrade(w)
        \/ ReadAccount(w) \/ ReadFails(w)
        \/ Refresh(w) \/ RefreshFails(w) \/ Late(w) \/ Failed(w) \/ Recover(w) \/ RecoverFails(w)
        \/ Persist(w) \/ PersistFails(w) \/ Release(w) \/ ReleaseFails(w)
        \/ Return(w) \/ Succeed(w) \/ SetError(w) \/ Retry(w) \/ SetTempUnschedulable(w)
        \/ JudgementFails(w) \/ Deadline(w)
    \/ Due \/ CooldownEnds
    \/ Edit \/ ApplyOAuthCredentials \/ RefreshByHand \/ ExchangeByHand
    \/ ReadRow \/ SaveRow \/ GiveUp \/ ClearError
    \/ \E p \in Procs : Crash(p)
    \/ LockLapses

Spec == Init /\ [][Next]_vars

\* The background cycle comes round to every account, goroutines go on, the
\* mutex is a channel that serves those who wait, and TTLs end.
Fairness ==
    /\ \A w \in Workers :
        SF_vars(\/ Step(w)
                \/ (Degrade(w) \/ ReadFails(w)) /\ expired[w]
                \/ Start(w) /\ kind[w] = "background")
    /\ WF_vars(CooldownEnds)
    /\ WF_vars(LockLapses /\ \A w \in Workers : ~owns[w])

FairSpec == Spec /\ Fairness

---------------------------------------------------------------------------
(* Properties                                                              *)

\* While every refresh keeps its lock, one worker at a time is between the
\* read of the account and the end of its attempt, over all processes.  A
\* refresh by hand is not a worker's: it takes no lock.
ExclusiveRefresh ==
    ~slipped =>
        \A v, w \in Workers :
            /\ pc[v] \in {"call", "called"}
            /\ pc[w] \in {"call", "called"}
            => v = w

\* The stored credentials never go back to older ones by a step of a refresh on
\* Grok, even when the lock failed or an administrator's write crossed it, and
\* by no step at all, an administrator's included, as long as neither happened.
\* SaveRow alone changes creds and admin in one step.
NeverOlder ==
    [][ /\ grok /\ UNCHANGED admin => creds' >= creds
        /\ ~(slipped \/ beside) => creds' >= creds ]_vars

\* An account that a refresh disables for invalid_grant has a dead refresh token
\* in its row at that moment: on Grok always, elsewhere as long as refreshes kept
\* their lock and no other writer crossed one.
DisablesOnlyDead ==
    [][ /\ status = "active" /\ status' = "error" /\ UNCHANGED admin
        /\ grok \/ ~(slipped \/ beside)
        => creds \notin live ]_vars

\* A due account is refreshed, or found to be dead, whatever crashed, failed
\* or left its lock behind, unless failing requests of another process hold the
\* lock each time the background cycle comes round: those never judge.
RefreshSettles ==
    due ~> \/ ~due
           \/ status = "error"
           \/ \E w \in Workers : owns[w] /\ kind[w] = "request"
=============================================================================
