------------------------------- MODULE JobQueue -------------------------------
(***************************************************************************)
(* The durable job queue of ref0 (internal/jobs): the rows of tables jobs  *)
(* and job_attempts, the leases under which workers run jobs, and the      *)
(* admission of model work per provider endpoint.                          *)
(*                                                                         *)
(* Time.  The database clock is the only clock the code reads, and it only *)
(* compares it with stored timestamps.  A stored timestamp is therefore    *)
(* kept as the number of ticks until the clock reaches it: 0 means it has  *)
(* passed (timestamp <= now), Null is SQL's NULL.  Tick runs them down, so *)
(* that time is unbounded and the state space finite.                      *)
(*                                                                         *)
(* Transactions.  An operation with a permit locks the row of its job (FOR *)
(* UPDATE), reads the clock, decides, writes and commits.  Time passes and *)
(* others run between the decision and the commit: tx[j] is the            *)
(* transaction that holds the lock on row j with the versions it has       *)
(* written and nobody else sees.  It commits or it is rolled back (an      *)
(* error, a lost connection or a crashed client).  Claim and tryModelCall  *)
(* hold the admission lock from start to commit, one at a time, and skip   *)
(* locked rows, so each is one step.                                       *)
(***************************************************************************)
EXTENDS Integers, FiniteSets

CONSTANTS
    MaxJobs,      \* bound: how many jobs are ever enqueued
    MaxAttempts,  \* the largest max_attempts of a command
    Workers,      \* worker IDs; two processes may use the same one
    NoWorker,     \* NULL of lease_owner
    Commands,     \* the commands that may be enqueued
    NoCommand,    \* the command of a row that does not exist yet
    Profiles,     \* model profiles: a concurrency key is "model-profile:<id>"
    NoProfile,    \* the empty concurrency key
    Endpoints,    \* provider endpoints
    Endpoint,     \* model_profiles.endpoint_id
    TaskLimit,    \* max_concurrent_tasks of the profile's current version
    Calls,        \* bound: model calls in flight outside the job queue
    NoEndpoint,   \* the endpoint of a call that holds no lease
    NoTx,         \* no transaction holds the row's lock
    LeaseFor,     \* ticks of a lease
    RetryDelays,  \* delays a handler's failure may ask for
    CallLease,    \* ticks of a provider call lease
    LateCommit    \* may a transaction stay open until its lease has expired?

JobIds == 1..MaxJobs

Null == -1

Active == {"PENDING", "LEASED", "RETRY_WAIT", "CANCEL_REQUESTED"}
Held == {"LEASED", "CANCEL_REQUESTED"}
Terminal == {"SUCCEEDED", "FAILED", "CANCELLED"}
Outcomes == {"SUCCEEDED", "FAILED", "RETRY", "CANCELLED", "LEASE_EXPIRED"}

Command == [op : STRING, profile : Profiles \cup {NoProfile}, limit : Nat,
            max : 1..MaxAttempts, delay : Nat \cup {Null}]

\* A row of jobs; status ABSENT stands for a row not inserted yet.
Row == [status : Active \cup Terminal \cup {"ABSENT"},
        attempts : Nat, gen : Nat, owner : Workers \cup {NoWorker},
        lease : Nat \cup {Null}, wait : Nat \cup {Null}]

\* A row of job_attempts, found by its lease generation.
Attempt == [worker : Workers \cup {NoWorker},
            outcome : Outcomes \cup {"NONE", "OPEN"}]

\* What a transaction on one job has written: the new row, the outcome of the
\* attempt of the current generation, whether the terminal callback ran, and
\* the generation of the permit it was checked against (0: a cancellation).
Transaction == [row : Row, outcome : Outcomes \cup {"OPEN", "NONE"},
                notify : BOOLEAN, permit : Nat]

ASSUME BoundsAssumption ==
    /\ MaxJobs \in Nat
    /\ MaxAttempts \in Nat \ {0}
    /\ LeaseFor \in Nat \ {0}
    /\ CallLease \in Nat \ {0}
    /\ RetryDelays \subseteq Nat \ {0}
    /\ LateCommit \in BOOLEAN
    /\ IsFiniteSet(Calls)

ASSUME NullsAssumption ==
    /\ NoWorker \notin Workers
    /\ NoProfile \notin Profiles
    /\ NoEndpoint \notin Endpoints
    /\ NoTx \notin Transaction
    /\ NoCommand \notin Commands

ASSUME CommandsAssumption == Commands \subseteq Command

ASSUME EndpointsAssumption ==
    /\ Endpoint \in [Profiles -> Endpoints]
    /\ TaskLimit \in [Profiles -> Nat]

VARIABLES
    cmd,      \* cmd[j]: the command row j was inserted with
    job,      \* job[j]: the committed version of row j
    attempt,  \* attempt[j][g]: the attempt row of generation g of job j
    tx,       \* tx[j]: the transaction that holds the lock on row j
    call,     \* call[c]: a row of provider_call_leases
    notified  \* notified[j]: terminal callbacks committed for job j

vars == <<cmd, job, attempt, tx, call, notified>>

AbsentRow == [status |-> "ABSENT", attempts |-> 0, gen |-> 0,
              owner |-> NoWorker, lease |-> Null, wait |-> Null]
NoAttempt == [worker |-> NoWorker, outcome |-> "NONE"]
NoCall == [endpoint |-> NoEndpoint, left |-> 0]

Init ==
    /\ cmd = [j \in JobIds |-> NoCommand]
    /\ job = [j \in JobIds |-> AbsentRow]
    /\ attempt = [j \in JobIds |-> [g \in 1..MaxAttempts |-> NoAttempt]]
    /\ tx = [j \in JobIds |-> NoTx]
    /\ call = [c \in Calls |-> NoCall]
    /\ notified = [j \in JobIds |-> 0]

-----------------------------------------------------------------------------
(***************************************************************************)
(* Enqueue.  The partial unique index on operation_key over the active     *)
(* statuses makes a second command adopt the active job: no new row.       *)
(***************************************************************************)
ActiveWithKey(op) ==
    {j \in JobIds : job[j].status \in Active /\ cmd[j].op = op}

\* Mutant: not_before is computed one tick too early.
PendingRow_Early(c) == [AbsentRow EXCEPT !.status = "PENDING", !.wait = c.delay - 1]

PendingRow(c) == [AbsentRow EXCEPT !.status = "PENDING", !.wait = c.delay]

\* Ids follow the order of created_at.
Enqueue(c) ==
    /\ ActiveWithKey(c.op) = {}
    /\ \E j \in JobIds :
        /\ job[j].status = "ABSENT"
        /\ \A i \in JobIds : job[i].status = "ABSENT" => j <= i
        /\ cmd' = [cmd EXCEPT ![j] = c]
        /\ job' = [job EXCEPT ![j] = PendingRow(c)]
    /\ UNCHANGED <<attempt, tx, call, notified>>

-----------------------------------------------------------------------------
(***************************************************************************)
(* Claim: reap what the lock order meets first, then lease one job.        *)
(***************************************************************************)
Live(j) == job[j].status \in Held /\ job[j].lease > 0
\* Mutant: a lease counts as expired a tick before it has run out.
Expired_Early(j) == job[j].status \in Held /\ job[j].lease <= 1

Expired(j) == job[j].status \in Held /\ job[j].lease = 0

\* Mutant: Claim does not look at expired leases of jobs being cancelled.
Due_LeasedOnly(j) ==
    \/ /\ job[j].status \in {"PENDING", "RETRY_WAIT"}
       /\ job[j].attempts < cmd[j].max
       /\ job[j].wait <= 0
    \/ job[j].status = "LEASED" /\ Expired(j)

Due(j) ==
    \/ /\ job[j].status = "PENDING"
       /\ job[j].attempts < cmd[j].max
       /\ job[j].wait <= 0
    \/ /\ job[j].status = "RETRY_WAIT"
       /\ job[j].attempts < cmd[j].max
       /\ job[j].wait = 0
    \/ Expired(j)

LiveWithProfile(p) == {j \in JobIds : Live(j) /\ cmd[j].profile = p}

OnEndpoint(e) ==
    {j \in JobIds : /\ Live(j)
                    /\ cmd[j].profile \in Profiles
                    /\ Endpoint[cmd[j].profile] = e}
CallsOn(e) == {c \in Calls : call[c].endpoint = e /\ call[c].left > 0}

Occupied(e) == Cardinality(CallsOn(e)) + Cardinality(OnEndpoint(e))

\* Mutant: the endpoint is full one task too late.
EndpointFull_Late(e) ==
    \E p \in Profiles : Endpoint[p] = e /\ Occupied(e) > TaskLimit[p]

\* occupied >= min(max_concurrent_tasks) over the profiles of the endpoint
EndpointFull(e) ==
    \E p \in Profiles : Endpoint[p] = e /\ Occupied(e) >= TaskLimit[p]

\* Mutant: the concurrency limit of the profile admits one job too many.
HasRoom_OneMore(j) ==
    LET p == cmd[j].profile
    IN  p \in Profiles => /\ Cardinality(LiveWithProfile(p)) <= cmd[j].limit
                          /\ ~EndpointFull(Endpoint[p])

HasRoom(j) ==
    LET p == cmd[j].profile
    IN  p \in Profiles => /\ Cardinality(LiveWithProfile(p)) < cmd[j].limit
                          /\ ~EndpointFull(Endpoint[p])

\* Mutant: FOR UPDATE is forgotten, a locked row is claimed as well.
Eligible_Unlocked(j) == Due(j) /\ HasRoom(j)

\* LockEligibleJob; SKIP LOCKED passes over rows some transaction holds.
Eligible(j) == tx[j] = NoTx /\ Due(j) /\ HasRoom(j)

\* Mutant: an exhausted job is leased once more when its lease expires.
MustReap_CancelOnly(j) == job[j].status = "CANCEL_REQUESTED"

\* An expired lease that cannot be taken over: a requested cancellation, or
\* no attempt left.
MustReap(j) ==
    \/ job[j].status = "CANCEL_REQUESTED"
    \/ job[j].status = "LEASED" /\ job[j].attempts >= cmd[j].max

\* cancelLocked (CancelJob) and FinishJob, as new versions of a row.
CancelledRow(r) == [r EXCEPT !.status = "CANCELLED", !.owner = NoWorker,
                             !.lease = Null, !.wait = Null]
FinishedRow(r, status, wait) ==
    [r EXCEPT !.status = status, !.owner = NoWorker, !.lease = Null,
              !.wait = wait]

ReapedRow(j) ==
    IF job[j].status = "CANCEL_REQUESTED" THEN CancelledRow(job[j])
    ELSE FinishedRow(job[j], "FAILED", Null)

LeasedRow(r, w) ==
    [r EXCEPT !.status = "LEASED", !.attempts = @ + 1, !.gen = @ + 1,
              !.owner = w, !.lease = LeaseFor, !.wait = Null]

\* FinishAttempt / ExpireAttempt: the row of the current generation.
CloseAttempt(j, outcome) ==
    [attempt[j] EXCEPT ![job[j].gen].outcome = outcome]

ReapedAttempts(j) ==
    CloseAttempt(j, IF job[j].status = "CANCEL_REQUESTED" THEN "CANCELLED"
                    ELSE "LEASE_EXPIRED")

\* ExpireAttempt of the lease taken over, then InsertJobAttempt.
ClaimedAttempts(j, w) ==
    LET old == IF job[j].status = "LEASED" THEN CloseAttempt(j, "LEASE_EXPIRED")
               ELSE attempt[j]
    IN  [old EXCEPT ![job[j].gen + 1] = [worker |-> w, outcome |-> "OPEN"]]

\* Reaping expired leases and leasing one job are one transaction.  Rows
\* reaped on the way were not live, so they change no one's eligibility.
ReapAndLease(reaped, leased, w) ==
    /\ job' = [j \in JobIds |-> IF j \in reaped THEN ReapedRow(j)
                                ELSE IF j \in leased THEN LeasedRow(job[j], w)
                                ELSE job[j]]
    /\ attempt' = [j \in JobIds |->
                    IF j \in reaped THEN ReapedAttempts(j)
                    ELSE IF j \in leased THEN ClaimedAttempts(j, w)
                    ELSE attempt[j]]
    /\ notified' = [j \in JobIds |-> IF j \in reaped THEN notified[j] + 1
                                     ELSE notified[j]]
    /\ UNCHANGED <<cmd, tx, call>>

\* A permit is granted: the first eligible job that can be leased, in order
\* of creation, after the rows before it were reaped.
ClaimJob(w, j) ==
    /\ Eligible(j) /\ ~MustReap(j)
    /\ \A i \in 1..(j - 1) : Eligible(i) => MustReap(i)
    /\ ReapAndLease({i \in 1..(j - 1) : Eligible(i)}, {j}, w)

\* No permit: everything eligible was reaped.
ClaimNothing(w) ==
    /\ \E j \in JobIds : Eligible(j)
    /\ \A j \in JobIds : Eligible(j) => MustReap(j)
    /\ ReapAndLease({j \in JobIds : Eligible(j)}, {}, w)

Claim(w) == ClaimNothing(w) \/ \E j \in JobIds : ClaimJob(w, j)

-----------------------------------------------------------------------------
(***************************************************************************)
(* Operations under a permit <<j, w, g>>.  A permit is good for ever in    *)
(* the hands of its worker, which may be slow, partitioned, or believe it  *)
(* still owns the job: any permit ever issued may be presented any time.   *)
(***************************************************************************)
Issued(j, w, g) == g \in 1..MaxAttempts /\ attempt[j][g].worker = w

\* lockPermit: wait for the row lock, then check; otherwise ErrStalePermit,
\* which changes nothing.
lockPermit(j, w, g, statuses) ==
    /\ tx[j] = NoTx
    /\ job[j].status \in statuses
    /\ job[j].owner = w
    /\ job[j].gen = g
    /\ job[j].lease > 0

\* The transaction has written these versions and still holds the row.
Hold(j, row, outcome, notify, permit) ==
    /\ tx' = [tx EXCEPT ![j] = [row |-> row, outcome |-> outcome,
                                notify |-> notify, permit |-> permit]]
    /\ UNCHANGED <<cmd, job, attempt, call, notified>>

\* finish: FinishJob, FinishAttempt, the event, and the terminal callback of
\* a job that failed.
finish(j, g, status, outcome, wait) ==
    Hold(j, FinishedRow(job[j], status, wait), outcome, status = "FAILED", g)

\* cancelLocked: close the attempt if there is one, CANCELLED, callback.
cancelLocked(j, g, finishAttempt) ==
    Hold(j, CancelledRow(job[j]),
         IF finishAttempt THEN "CANCELLED" ELSE "NONE", TRUE, g)

Heartbeat(j, w, g) ==
    /\ lockPermit(j, w, g, {"LEASED"})
    /\ Hold(j, [job[j] EXCEPT !.lease = LeaseFor], "OPEN", FALSE, g)

Succeed(j, w, g) ==
    /\ lockPermit(j, w, g, {"LEASED"})
    /\ finish(j, g, "SUCCEEDED", "SUCCEEDED", Null)

\* A result already accepted by the domain wins over a later cancellation.
CompleteAcceptedResult(j, w, g) ==
    /\ lockPermit(j, w, g, {"LEASED", "CANCEL_REQUESTED"})
    /\ finish(j, g, "SUCCEEDED", "SUCCEEDED", Null)

\* retryStatus: RETRY_WAIT while attempts are left, otherwise FAILED.
Retry(j, w, g, delay) ==
    /\ lockPermit(j, w, g, {"LEASED"})
    /\ IF job[j].attempts < cmd[j].max
       THEN finish(j, g, "RETRY_WAIT", "RETRY", delay)
       ELSE finish(j, g, "FAILED", "FAILED", Null)

Fail(j, w, g) ==
    /\ lockPermit(j, w, g, {"LEASED"})
    /\ finish(j, g, "FAILED", "FAILED", Null)

AcknowledgeCancel(j, w, g) ==
    /\ lockPermit(j, w, g, {"CANCEL_REQUESTED"})
    /\ cancelLocked(j, g, TRUE)

\* AssertPermit at the start of a handler's own transaction: the job's row is
\* locked and unchanged until the domain rows it fences are committed.
AssertPermit(j, w, g) ==
    /\ lockPermit(j, w, g, {"LEASED"})
    /\ Hold(j, job[j], "OPEN", FALSE, g)

\* Mutant: the attempt of an expired lease is forgotten.
RequestCancel_Expired(j) ==
    /\ tx[j] = NoTx
    /\ \/ /\ job[j].status \in {"PENDING", "RETRY_WAIT"} \/ Expired(j)
          /\ cancelLocked(j, 0, FALSE)
       \/ /\ job[j].status = "LEASED" /\ Live(j)
          /\ Hold(j, [job[j] EXCEPT !.status = "CANCEL_REQUESTED"], "OPEN",
                  FALSE, 0)

\* An operator or a restored knowledge base asks for cancellation.  A
\* requested or finished cancellation is left as it is, a job that succeeded
\* or failed is a conflict: neither changes anything.
RequestCancel(j) ==
    /\ tx[j] = NoTx
    /\ \/ job[j].status \in {"PENDING", "RETRY_WAIT"} /\ cancelLocked(j, 0, FALSE)
       \/ Expired(j) /\ cancelLocked(j, 0, TRUE)
       \/ /\ job[j].status = "LEASED" /\ Live(j)
          /\ Hold(j, [job[j] EXCEPT !.status = "CANCEL_REQUESTED"], "OPEN",
                  FALSE, 0)

Commit(j) ==
    /\ tx[j] # NoTx
    /\ job' = [job EXCEPT ![j] = tx[j].row]
    /\ attempt' = IF tx[j].outcome = "NONE" THEN attempt
                  ELSE [attempt EXCEPT ![j] = CloseAttempt(j, tx[j].outcome)]
    /\ notified' = [notified EXCEPT ![j] = IF tx[j].notify THEN @ + 1 ELSE @]
    /\ tx' = [tx EXCEPT ![j] = NoTx]
    /\ UNCHANGED <<cmd, call>>

Rollback(j) ==
    /\ tx[j] # NoTx
    /\ tx' = [tx EXCEPT ![j] = NoTx]
    /\ UNCHANGED <<cmd, job, attempt, call, notified>>

-----------------------------------------------------------------------------
(***************************************************************************)
(* Model calls made outside the queue (answers) share the endpoint.        *)
(***************************************************************************)
\* tryModelCall under the admission lock: expired leases are deleted first.
AcquireModelCall(c, p) ==
    /\ call[c].left = 0
    /\ ~EndpointFull(Endpoint[p])
    /\ call' = [d \in Calls |->
                 IF d = c THEN [endpoint |-> Endpoint[p], left |-> CallLease]
                 ELSE IF call[d].left = 0 THEN NoCall ELSE call[d]]
    /\ UNCHANGED <<cmd, job, attempt, tx, notified>>

\* The release function; a process that died never calls it.
ReleaseModelCall(c) ==
    /\ call[c] # NoCall
    /\ call' = [call EXCEPT ![c] = NoCall]
    /\ UNCHANGED <<cmd, job, attempt, tx, notified>>

-----------------------------------------------------------------------------
Down(t) == IF t > 0 THEN t - 1 ELSE t
Aged(r) == [r EXCEPT !.lease = Down(@), !.wait = Down(@)]

\* The database clock advances.
Tick ==
    /\ LateCommit \/ \A j \in JobIds : tx[j] # NoTx => job[j].lease # 1
    /\ job' = [j \in JobIds |-> Aged(job[j])]
    /\ tx' = [j \in JobIds |-> IF tx[j] = NoTx THEN NoTx
                               ELSE [tx[j] EXCEPT !.row = Aged(@)]]
    /\ call' = [c \in Calls |-> [call[c] EXCEPT !.left = Down(@)]]
    /\ UNCHANGED <<cmd, attempt, notified>>

-----------------------------------------------------------------------------
PermitStep(j, w, g) ==
    /\ Issued(j, w, g)
    /\ \/ Heartbeat(j, w, g)
       \/ Succeed(j, w, g)
       \/ CompleteAcceptedResult(j, w, g)
       \/ \E delay \in RetryDelays : Retry(j, w, g, delay)
       \/ Fail(j, w, g)
       \/ AcknowledgeCancel(j, w, g)
       \/ AssertPermit(j, w, g)

Next ==
    \/ \E c \in Commands : Enqueue(c)
    \/ \E w \in Workers : Claim(w)
    \/ \E j \in JobIds, w \in Workers, g \in 1..MaxAttempts : PermitStep(j, w, g)
    \/ \E j \in JobIds : RequestCancel(j) \/ Commit(j) \/ Rollback(j)
    \/ \E c \in Calls, p \in Profiles : AcquireModelCall(c, p)
    \/ \E c \in Calls : ReleaseModelCall(c)
    \/ Tick

Spec == Init /\ [][Next]_vars

-----------------------------------------------------------------------------
(***************************************************************************)
(* Properties                                                              *)
(***************************************************************************)
\* The variables keep the types of their columns.
TypeOK ==
    /\ cmd \in [JobIds -> Commands \cup {NoCommand}]
    /\ job \in [JobIds -> Row]
    /\ attempt \in [JobIds -> [1..MaxAttempts -> Attempt]]
    /\ tx \in [JobIds -> Transaction \cup {NoTx}]
    /\ call \in [Calls -> [endpoint : Endpoints \cup {NoEndpoint}, left : Nat]]
    /\ notified \in [JobIds -> Nat]

\* No sequence of operations writes a row the schema's CHECK constraints and
\* partial unique index would reject: a lease is owned and dated exactly while
\* the job is held, a retry has its date, attempts stay within max_attempts
\* and at most one job per operation key is active.
RowConstraints ==
    /\ \A j \in JobIds : job[j].status # "ABSENT" =>
        /\ job[j].status \in Held <=> job[j].owner # NoWorker
        /\ job[j].status \in Held <=> job[j].lease # Null
        /\ job[j].status = "RETRY_WAIT" => job[j].wait # Null
        /\ job[j].attempts <= cmd[j].max
    /\ \A i, j \in JobIds :
        /\ job[i].status \in Active /\ job[j].status \in Active
        /\ cmd[i].op = cmd[j].op
        => i = j

\* The attempts ledger of a job is complete and closed: generation and
\* attempt count agree, every generation handed out has its row, only the
\* current one may be open, and it is open exactly while the job is held.
\* However a lease ends (result, retry, failure, cancellation, expiry seen by
\* Claim or by RequestCancel) it closes the right row.
AttemptLedger ==
    \A j \in JobIds :
        /\ job[j].gen = job[j].attempts
        /\ \A g \in 1..MaxAttempts :
            /\ attempt[j][g].outcome # "NONE" <=> g <= job[j].gen
            /\ attempt[j][g].outcome = "OPEN" <=>
                    g = job[j].gen /\ job[j].status \in Held
        /\ job[j].status \in Held => job[j].gen > 0

\* The terminal callback, through which the domain learns that its job will
\* never run again, commits exactly once for a job that failed or was
\* cancelled and never for another one.
NotifiedOnce ==
    \A j \in JobIds :
        notified[j] = IF job[j].status \in {"FAILED", "CANCELLED"} THEN 1 ELSE 0

\* The strengthening that makes the safety properties inductive: an open
\* transaction still agrees with the committed row it started from, and what
\* it is about to commit is a legal successor of that row.
TransactionSound(j) ==
    LET r == job[j]
        n == tx[j].row
    IN  /\ r.status \in Active
        /\ n.gen = r.gen /\ n.attempts = r.attempts
        /\ tx[j].permit > 0 => r.status \in Held /\ tx[j].permit = r.gen
        /\ tx[j].outcome = "NONE" <=> r.status \notin Held
        /\ tx[j].outcome = "OPEN" <=> n.status \in Held
        /\ tx[j].notify <=> n.status \in {"FAILED", "CANCELLED"}
        /\ n.status \in Held <=> n.owner # NoWorker
        /\ n.status \in Held <=> n.lease # Null
        /\ n.status = "RETRY_WAIT" => n.wait # Null /\ n.attempts < cmd[j].max
        /\ n.status \in CASE r.status = "LEASED" -> Held \cup Terminal \cup {"RETRY_WAIT"}
                          [] r.status = "CANCEL_REQUESTED" -> {"SUCCEEDED", "CANCELLED"}
                          [] OTHER -> {"CANCELLED"}

\* Inductive invariant: rows exist exactly with their command, the schema's
\* constraints, the attempts ledger, the callbacks, and every open
\* transaction is sound.
IndInv ==
    /\ \A j \in JobIds :
        /\ job[j].status = "ABSENT" => job[j] = AbsentRow /\ tx[j] = NoTx
        /\ job[j].status # "ABSENT" => cmd[j] \in Commands
        /\ tx[j] # NoTx => TransactionSound(j)
    /\ RowConstraints
    /\ AttemptLedger
    /\ NotifiedOnce

\* Fencing: while a transaction that checked a permit is open, its job is
\* still held under that very generation, even when the lease expires before
\* the commit. What AssertPermit guards is never committed by a worker whose
\* job was taken over, cancelled or finished in the meantime.
FencedTransaction ==
    \A j \in JobIds : tx[j] # NoTx /\ tx[j].permit > 0 =>
        /\ job[j].status \in Held
        /\ job[j].gen = tx[j].permit
        /\ attempt[j][tx[j].permit].outcome = "OPEN"

\* A job is taken over only when its lease has expired, and never while a
\* transaction under the old permit is open.
NoTakeOverOfLiveLease ==
    [][\A j \in JobIds : job'[j].gen # job[j].gen => ~Live(j) /\ tx[j] = NoTx]_vars

\* Admission: model jobs and model calls on one endpoint never exceed the
\* smallest max_concurrent_tasks among the endpoint's profiles.
EndpointWithinLimit ==
    \A p \in Profiles : Occupied(Endpoint[p]) <= TaskLimit[p]

\* Admission: the live jobs of one concurrency key never exceed the largest
\* limit among them.
ProfileWithinLimit ==
    \A p \in Profiles : LiveWithProfile(p) # {} =>
        \E j \in LiveWithProfile(p) :
            Cardinality(LiveWithProfile(p)) <= cmd[j].limit

\* Admission keeps its limits: what runs on an endpoint, jobs and calls, stays
\* within the smallest limit of its profiles, and the live jobs of one profile
\* within the largest limit among them (Claim, tryModelCall).
AdmissionWithinLimits == EndpointWithinLimit /\ ProfileWithinLimit

\* The queue implements the life of a job its clients rely on: an expired
\* lease, a take-over or an unacknowledged cancellation is invisible there.
PhaseOf(status) ==
    CASE status = "ABSENT" -> "none"
      [] status \in {"PENDING", "RETRY_WAIT"} -> "queued"
      [] status = "LEASED" -> "running"
      [] status = "CANCEL_REQUESTED" -> "cancelling"
      [] status = "SUCCEEDED" -> "succeeded"
      [] status = "FAILED" -> "failed"
      [] status = "CANCELLED" -> "cancelled"

Lifecycle == INSTANCE JobLifecycle WITH
    Jobs <- JobIds, MaxRuns <- MaxAttempts,
    phase <- [j \in JobIds |-> PhaseOf(job[j].status)],
    budget <- [j \in JobIds |-> IF job[j].status = "ABSENT" THEN 0
                                ELSE cmd[j].max - job[j].attempts],
    announced <- notified

ImplementsLifecycle == Lifecycle!Spec
=============================================================================
