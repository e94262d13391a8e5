---------------------------- MODULE JobQueueProofs ----------------------------
(***************************************************************************)
(* Proofs about JobQueue for every number of jobs, workers, attempts and   *)
(* calls, every set of commands and every lease length.                    *)
(***************************************************************************)
EXTENDS JobQueue, FiniteSetTheorems, TLAPS

-----------------------------------------------------------------------------
(* Types of the row versions the operations write. *)

\* The versions of a row written by Enqueue, Claim, finish, cancelLocked and
\* by the clock are rows.
LEMMA RowVersions ==
    /\ AbsentRow \in Row
    /\ \A c \in Command : PendingRow(c) \in Row
    /\ \A r \in Row : /\ CancelledRow(r) \in Row
                      /\ Aged(r) \in Row
                      /\ [r EXCEPT !.lease = LeaseFor] \in Row
                      /\ [r EXCEPT !.status = "CANCEL_REQUESTED"] \in Row
                      /\ \A w \in Workers : LeasedRow(r, w) \in Row
                      /\ \A s \in Active \cup Terminal, d \in Nat \cup {Null} :
                            FinishedRow(r, s, d) \in Row
  <1>1. AbsentRow \in Row
    BY DEF AbsentRow, Row, Null
  <1>2. ASSUME NEW c \in Command PROVE PendingRow(c) \in Row
    <2>1. c.delay \in Nat \cup {Null}
      BY DEF Command
    <2> QED
      BY <1>1, <2>1 DEF PendingRow, Row, Active
  <1>3. ASSUME NEW r \in Row
        PROVE  /\ CancelledRow(r) \in Row
               /\ [r EXCEPT !.lease = LeaseFor] \in Row
               /\ [r EXCEPT !.status = "CANCEL_REQUESTED"] \in Row
    BY <1>3, BoundsAssumption DEF Row, CancelledRow, Active, Terminal
  <1>4. ASSUME NEW r \in Row PROVE Aged(r) \in Row
    <2>1. \A t \in Nat \cup {Null} : Down(t) \in Nat \cup {Null}
      BY DEF Down, Null
    <2> QED
      BY <1>4, <2>1 DEF Row, Aged
  <1>5. ASSUME NEW r \in Row, NEW w \in Workers PROVE LeasedRow(r, w) \in Row
    <2>1. r.attempts + 1 \in Nat /\ r.gen + 1 \in Nat
      BY <1>5 DEF Row
    <2> QED
      BY <1>5, <2>1, BoundsAssumption DEF Row, LeasedRow, Active
  <1>6. ASSUME NEW r \in Row, NEW s \in Active \cup Terminal,
               NEW d \in Nat \cup {Null}
        PROVE  FinishedRow(r, s, d) \in Row
    BY <1>6 DEF Row, FinishedRow
  <1> QED
    BY <1>1, <1>2, <1>3, <1>4, <1>5, <1>6

\* Closing the attempt of the current generation keeps the ledger's type.
LEMMA CloseAttemptType ==
    ASSUME TypeOK, NEW j \in JobIds, NEW o \in Outcomes \cup {"OPEN"}
    PROVE  CloseAttempt(j, o) \in [1..MaxAttempts -> Attempt]
  <1> DEFINE a == attempt[j]
             g == job[j].gen
  <1>1. a \in [1..MaxAttempts -> Attempt]
    BY DEF TypeOK
  <1>2. \A x \in 1..MaxAttempts : [a[x] EXCEPT !.outcome = o] \in Attempt
    BY <1>1 DEF Attempt
  <1>3. CloseAttempt(j, o) = [a EXCEPT ![g] = [a[g] EXCEPT !.outcome = o]]
    BY DEF CloseAttempt
  <1> HIDE DEF a, g
  <1> QED
    BY <1>1, <1>2, <1>3

\* It closes that attempt and no other.
LEMMA CloseAttemptOutcome ==
    ASSUME TypeOK, NEW j \in JobIds, NEW o \in Outcomes \cup {"OPEN", "NONE"}
    PROVE  \A g \in 1..MaxAttempts : CloseAttempt(j, o)[g].outcome =
                IF g = job[j].gen THEN o ELSE attempt[j][g].outcome
  <1> DEFINE a == attempt[j]
             h == job[j].gen
  <1>1. a \in [1..MaxAttempts -> Attempt]
    BY DEF TypeOK
  <1>2. CloseAttempt(j, o) = [a EXCEPT ![h] = [a[h] EXCEPT !.outcome = o]]
    BY DEF CloseAttempt
  <1>3. \A x \in 1..MaxAttempts : [a[x] EXCEPT !.outcome = o].outcome = o
    BY <1>1 DEF Attempt
  <1> SUFFICES \A g \in 1..MaxAttempts : CloseAttempt(j, o)[g].outcome =
                IF g = h THEN o ELSE a[g].outcome
    OBVIOUS
  <1> HIDE DEF a, h
  <1> QED
    BY <1>1, <1>2, <1>3

\* A transaction that holds a row keeps the types.
LEMMA HoldType ==
    ASSUME TypeOK, NEW j \in JobIds, NEW row \in Row,
           NEW outcome \in Outcomes \cup {"OPEN", "NONE"},
           NEW notify \in BOOLEAN, NEW permit \in Nat,
           Hold(j, row, outcome, notify, permit)
    PROVE  TypeOK'
  BY DEF TypeOK, Hold, Transaction

\* Ending an attempt (finish, store.go) leaves a well-typed row behind.
LEMMA FinishType ==
    ASSUME TypeOK, NEW j \in JobIds, NEW g \in Nat,
           NEW status \in Active \cup Terminal, NEW outcome \in Outcomes,
           NEW wait \in Nat \cup {Null}, finish(j, g, status, outcome, wait)
    PROVE  TypeOK'
  <1>1. job[j] \in Row
    BY DEF TypeOK
  <1>2. FinishedRow(job[j], status, wait) \in Row
    BY <1>1, RowVersions
  <1> DEFINE notify == status = "FAILED"
  <1>3. notify \in BOOLEAN
    OBVIOUS
  <1>4. Hold(j, FinishedRow(job[j], status, wait), outcome, notify, g)
    BY DEF finish
  <1> HIDE DEF notify
  <1> QED
    BY <1>2, <1>3, <1>4, HoldType

\* Cancelling a locked job (cancelLocked, store.go) keeps the types.
LEMMA CancelType ==
    ASSUME TypeOK, NEW j \in JobIds, NEW g \in Nat, NEW f \in BOOLEAN,
           cancelLocked(j, g, f)
    PROVE  TypeOK'
  <1>1. CancelledRow(job[j]) \in Row
    BY RowVersions DEF TypeOK
  <1> DEFINE outcome == IF f THEN "CANCELLED" ELSE "NONE"
  <1>2. outcome \in Outcomes \cup {"OPEN", "NONE"}
    BY DEF Outcomes
  <1>3. Hold(j, CancelledRow(job[j]), outcome, TRUE, g)
    BY DEF cancelLocked
  <1> HIDE DEF outcome
  <1> QED
    BY <1>1, <1>2, <1>3, HoldType

\* Claim's transaction keeps the types.
LEMMA ReapAndLeaseType ==
    ASSUME TypeOK, NEW w \in Workers, NEW reaped, NEW leased,
           ReapAndLease(reaped, leased, w)
    PROVE  TypeOK'
  <1>1. \A j \in JobIds : ReapedRow(j) \in Row /\ LeasedRow(job[j], w) \in Row
    BY RowVersions DEF TypeOK, ReapedRow, Active, Terminal, Null
  <1>2. \A j \in JobIds : ReapedAttempts(j) \in [1..MaxAttempts -> Attempt]
    BY CloseAttemptType DEF ReapedAttempts, Outcomes
  <1>3. \A j \in JobIds : ClaimedAttempts(j, w) \in [1..MaxAttempts -> Attempt]
    <2> SUFFICES ASSUME NEW j \in JobIds
                 PROVE  ClaimedAttempts(j, w) \in [1..MaxAttempts -> Attempt]
      OBVIOUS
    <2> DEFINE old == IF job[j].status = "LEASED"
                      THEN CloseAttempt(j, "LEASE_EXPIRED") ELSE attempt[j]
    <2>1. old \in [1..MaxAttempts -> Attempt]
      BY CloseAttemptType DEF TypeOK, Outcomes
    <2>2. [worker |-> w, outcome |-> "OPEN"] \in Attempt
      BY DEF Attempt
    <2>3. ClaimedAttempts(j, w) =
            [old EXCEPT ![job[j].gen + 1] = [worker |-> w, outcome |-> "OPEN"]]
      BY DEF ClaimedAttempts
    <2> HIDE DEF old
    <2> QED
      BY <2>1, <2>2, <2>3
  <1>4. job' \in [JobIds -> Row]
    BY <1>1 DEF ReapAndLease, TypeOK
  <1>5. attempt' \in [JobIds -> [1..MaxAttempts -> Attempt]]
    BY <1>2, <1>3 DEF ReapAndLease, TypeOK
  <1>6. notified' \in [JobIds -> Nat]
    BY DEF ReapAndLease, TypeOK
  <1> QED
    BY <1>4, <1>5, <1>6 DEF ReapAndLease, TypeOK

\* The empty queue is well typed.
LEMMA InitType == Init => TypeOK
  <1>1. NoAttempt \in Attempt
    BY DEF NoAttempt, Attempt
  <1>2. NoCall \in [endpoint : Endpoints \cup {NoEndpoint}, left : Nat]
    BY DEF NoCall
  <1> QED
    BY <1>1, <1>2, RowVersions DEF Init, TypeOK

\* Every step keeps the types.
LEMMA StepType == TypeOK /\ [Next]_vars => TypeOK'
  <1> SUFFICES ASSUME TypeOK, [Next]_vars PROVE TypeOK'
    OBVIOUS
  <1>1. ASSUME NEW c \in Commands, Enqueue(c) PROVE TypeOK'
    <2>1. PendingRow(c) \in Row
      BY RowVersions, CommandsAssumption
    <2> QED
      BY <1>1, <2>1 DEF Enqueue, TypeOK
  <1>2. ASSUME NEW w \in Workers, Claim(w) PROVE TypeOK'
    BY <1>2, ReapAndLeaseType DEF Claim, ClaimNothing, ClaimJob
  <1>3. ASSUME NEW j \in JobIds, NEW w \in Workers, NEW g \in 1..MaxAttempts,
               PermitStep(j, w, g)
        PROVE  TypeOK'
    <2>1. g \in Nat /\ job[j] \in Row
      BY DEF TypeOK
    <2>2. CASE Heartbeat(j, w, g)
      <3>1. [job[j] EXCEPT !.lease = LeaseFor] \in Row
        BY <2>1, RowVersions
      <3> QED
        BY <2>1, <2>2, <3>1, HoldType DEF Heartbeat
    <2>3. CASE Succeed(j, w, g) \/ CompleteAcceptedResult(j, w, g) \/ Fail(j, w, g)
      BY <2>1, <2>3, FinishType
      DEF Succeed, CompleteAcceptedResult, Fail, Terminal, Outcomes
    <2>4. ASSUME NEW delay \in RetryDelays, Retry(j, w, g, delay) PROVE TypeOK'
      <3>1. delay \in Nat
        BY BoundsAssumption
      <3> QED
        BY <2>1, <2>4, <3>1, FinishType DEF Retry, Active, Terminal, Outcomes
    <2>5. CASE AcknowledgeCancel(j, w, g)
      BY <2>1, <2>5, CancelType DEF AcknowledgeCancel
    <2>6. CASE AssertPermit(j, w, g)
      BY <2>1, <2>6, HoldType DEF AssertPermit
    <2> QED
      BY <1>3, <2>2, <2>3, <2>4, <2>5, <2>6 DEF PermitStep
  <1>4. ASSUME NEW j \in JobIds, RequestCancel(j) PROVE TypeOK'
    <2>1. [job[j] EXCEPT !.status = "CANCEL_REQUESTED"] \in Row
      BY RowVersions DEF TypeOK
    <2>2. job[j].status = "LEASED" /\ Live(j) /\
          Hold(j, [job[j] EXCEPT !.status = "CANCEL_REQUESTED"], "OPEN", FALSE, 0)
          => TypeOK'
      BY <2>1, HoldType
    <2>3. \A f \in BOOLEAN : cancelLocked(j, 0, f) => TypeOK'
      BY CancelType
    <2> QED
      BY <1>4, <2>2, <2>3 DEF RequestCancel
  <1>5. ASSUME NEW j \in JobIds, Commit(j) PROVE TypeOK'
    <2>1. tx[j] \in Transaction
      BY <1>5 DEF Commit, TypeOK
    <2>2. tx[j].row \in Row /\ tx[j].outcome \in Outcomes \cup {"OPEN", "NONE"}
      BY <2>1 DEF Transaction
    <2>3. attempt' \in [JobIds -> [1..MaxAttempts -> Attempt]]
      BY <1>5, <2>2, CloseAttemptType DEF Commit, TypeOK
    <2> QED
      BY <1>5, <2>2, <2>3 DEF Commit, TypeOK
  <1>6. ASSUME NEW j \in JobIds, Rollback(j) PROVE TypeOK'
    BY <1>6 DEF Rollback, TypeOK
  <1>7. ASSUME NEW c \in Calls, NEW p \in Profiles, AcquireModelCall(c, p)
        PROVE  TypeOK'
    BY <1>7, BoundsAssumption, EndpointsAssumption
    DEF AcquireModelCall, NoCall, TypeOK
  <1>8. ASSUME NEW c \in Calls, ReleaseModelCall(c) PROVE TypeOK'
    BY <1>8 DEF ReleaseModelCall, NoCall, TypeOK
  <1>9. CASE Tick
    <2>1. job' \in [JobIds -> Row]
      BY <1>9, RowVersions DEF Tick, TypeOK
    <2>2. \A j \in JobIds : tx[j] # NoTx => [tx[j] EXCEPT !.row = Aged(@)] \in Transaction
      BY RowVersions DEF TypeOK, Transaction
    <2>3. tx' \in [JobIds -> Transaction \cup {NoTx}]
      BY <1>9, <2>2 DEF Tick, TypeOK
    <2>4. call' \in [Calls -> [endpoint : Endpoints \cup {NoEndpoint}, left : Nat]]
      <3>1. \A c \in Calls : Down(call[c].left) \in Nat
        BY DEF TypeOK, Down
      <3> QED
        BY <1>9, <3>1 DEF Tick, TypeOK
    <2> QED
      BY <1>9, <2>1, <2>3, <2>4 DEF Tick, TypeOK
  <1>10. CASE UNCHANGED vars
    BY <1>10 DEF vars, TypeOK
  <1> QED
    BY <1>1, <1>2, <1>3, <1>4, <1>5, <1>6, <1>7, <1>8, <1>9, <1>10 DEF Next

\* The columns keep their types in every execution of the queue.
THEOREM TypeCorrect == Spec => []TypeOK
  BY InitType, StepType, PTL DEF Spec

-----------------------------------------------------------------------------
(* The inductive invariant, job by job. *)

\* The conjuncts of IndInv that speak of one job.
JobInv(j) ==
    /\ job[j].status = "ABSENT" => job[j] = AbsentRow /\ tx[j] = NoTx
    /\ job[j].status # "ABSENT" => cmd[j] \in Commands
    /\ tx[j] # NoTx => TransactionSound(j)
    /\ job[j].status # "ABSENT" =>
        /\ job[j].status \in Held <=> job[j].owner # NoWorker
        /\ job[j].status \in Held <=> job[j].lease # Null
        /\ job[j].status = "RETRY_WAIT" => job[j].wait # Null
        /\ job[j].attempts <= cmd[j].max
    /\ job[j].gen = job[j].attempts
    /\ \A g \in 1..MaxAttempts :
        /\ attempt[j][g].outcome # "NONE" <=> g <= job[j].gen
        /\ attempt[j][g].outcome = "OPEN" <=>
                g = job[j].gen /\ job[j].status \in Held
    /\ job[j].status \in Held => job[j].gen > 0
    /\ notified[j] = IF job[j].status \in {"FAILED", "CANCELLED"} THEN 1 ELSE 0

\* The one conjunct that relates jobs: the partial unique index.
UniqueKeys ==
    \A i, j \in JobIds :
        /\ job[i].status \in Active /\ job[j].status \in Active
        /\ cmd[i].op = cmd[j].op
        => i = j

\* The invariant splits into one part per job and the uniqueness of operation
\* keys, which is how the steps below use it.
LEMMA IndInvParts ==
    /\ IndInv <=> UniqueKeys /\ \A j \in JobIds : JobInv(j)
    /\ IndInv' <=> UniqueKeys' /\ \A j \in JobIds : JobInv(j)'
  BY DEF IndInv, UniqueKeys, JobInv, RowConstraints, AttemptLedger, NotifiedOnce

\* A job whose rows a step leaves alone keeps its invariant.
LEMMA JobFrame ==
    ASSUME NEW j \in JobIds, JobInv(j), cmd'[j] = cmd[j], job'[j] = job[j],
           attempt'[j] = attempt[j], tx'[j] = tx[j], notified'[j] = notified[j]
    PROVE  JobInv(j)'
  BY DEF JobInv, TransactionSound

\* No new active job, no new conflict on an operation key.
LEMMA KeysFrame ==
    ASSUME UniqueKeys,
           \A j \in JobIds : job'[j].status \in Active =>
                job[j].status \in Active /\ cmd'[j] = cmd[j]
    PROVE  UniqueKeys'
  BY DEF UniqueKeys

\* A step that only opens a sound transaction keeps the invariant.
LEMMA HoldInv ==
    ASSUME TypeOK, IndInv, NEW j \in JobIds, NEW row, NEW outcome, NEW notify,
           NEW permit, Hold(j, row, outcome, notify, permit),
           TransactionSound(j)'
    PROVE  IndInv'
  <1>1. UniqueKeys /\ \A i \in JobIds : JobInv(i)
    BY IndInvParts
  <1>2. UniqueKeys'
    BY <1>1, KeysFrame DEF Hold
  <1>3. ASSUME NEW i \in JobIds, i # j PROVE JobInv(i)'
    BY <1>1, <1>3, JobFrame DEF Hold, TypeOK
  <1>4. JobInv(j)'
    BY <1>1 DEF Hold, JobInv, TransactionSound, Active
  <1> QED
    BY <1>2, <1>3, <1>4, IndInvParts

\* finish writes a legal successor of a row held under the permit.
LEMMA FinishInv ==
    ASSUME TypeOK, IndInv, NEW j \in JobIds, NEW g \in 1..MaxAttempts, NEW w \in Workers,
           NEW statuses \in SUBSET Held, lockPermit(j, w, g, statuses),
           NEW status \in {"SUCCEEDED", "FAILED", "RETRY_WAIT"},
           NEW outcome \in Outcomes, NEW wait \in Nat \cup {Null},
           job[j].status = "CANCEL_REQUESTED" => status = "SUCCEEDED",
           status = "RETRY_WAIT" => wait # Null /\ job[j].attempts < cmd[j].max,
           finish(j, g, status, outcome, wait)
    PROVE  IndInv'
  <1> DEFINE notify == status = "FAILED"
  <1>1. job[j] \in Row /\ job'[j] = job[j] /\ cmd' = cmd
    BY DEF finish, Hold, TypeOK
  <1>2. tx'[j] = [row |-> FinishedRow(job[j], status, wait), outcome |-> outcome,
                  notify |-> notify, permit |-> g]
    BY DEF finish, Hold, TypeOK
  <1>n. notify \in BOOLEAN /\ (notify <=> status = "FAILED")
    OBVIOUS
  <1> HIDE DEF notify
  <1>3. job[j].status \in Held /\ job[j].gen = g
    BY DEF lockPermit
  <1>4. outcome # "OPEN" /\ outcome # "NONE"
    BY DEF Outcomes
  <1>5. /\ tx'[j].row = FinishedRow(job[j], status, wait)
        /\ tx'[j].outcome = outcome
        /\ tx'[j].notify = notify
        /\ tx'[j].permit = g
    BY <1>2
  <1>6. /\ tx'[j].row.status = status /\ tx'[j].row.wait = wait
        /\ tx'[j].row.gen = job[j].gen /\ tx'[j].row.attempts = job[j].attempts
        /\ tx'[j].row.owner = NoWorker /\ tx'[j].row.lease = Null
    BY <1>1, <1>5 DEF FinishedRow, Row
  <1>7. TransactionSound(j)'
    BY <1>1, <1>3, <1>4, <1>5, <1>6, <1>n
    DEF TransactionSound, Held, Active, Terminal
  <1> QED
    BY <1>7, HoldInv DEF finish

\* cancelLocked does so too, with the attempt closed exactly if the job is held.
LEMMA CancelInv ==
    ASSUME TypeOK, IndInv, NEW j \in JobIds, NEW g \in Nat, NEW f \in BOOLEAN,
           job[j].status \in Active,
           f <=> job[j].status \in Held,
           g > 0 => job[j].status \in Held /\ job[j].gen = g,
           cancelLocked(j, g, f)
    PROVE  IndInv'
  <1> DEFINE outcome == IF f THEN "CANCELLED" ELSE "NONE"
  <1>1. job[j] \in Row /\ job'[j] = job[j] /\ cmd' = cmd
    BY DEF cancelLocked, Hold, TypeOK
  <1>2. tx'[j] = [row |-> CancelledRow(job[j]), outcome |-> outcome,
                  notify |-> TRUE, permit |-> g]
    BY DEF cancelLocked, Hold, TypeOK
  <1>3. /\ tx'[j].row = CancelledRow(job[j]) /\ tx'[j].outcome = outcome
        /\ tx'[j].notify = TRUE /\ tx'[j].permit = g
    BY <1>2
  <1>4. /\ tx'[j].row.status = "CANCELLED"
        /\ tx'[j].row.gen = job[j].gen /\ tx'[j].row.attempts = job[j].attempts
        /\ tx'[j].row.owner = NoWorker /\ tx'[j].row.lease = Null
    BY <1>1, <1>3 DEF CancelledRow, Row
  <1>5. TransactionSound(j)'
    BY <1>1, <1>3, <1>4 DEF TransactionSound, Held, Active, Terminal
  <1> QED
    BY <1>5, HoldInv DEF cancelLocked

\* Renewing, fencing and asking for cancellation keep the job held.
LEMMA KeepInv ==
    ASSUME TypeOK, IndInv, NEW j \in JobIds, NEW g \in Nat, NEW row \in Row,
           job[j].status = "LEASED",
           g > 0 => job[j].gen = g,
           row.status \in Held, row.lease # Null, row.owner = job[j].owner,
           row.gen = job[j].gen, row.attempts = job[j].attempts,
           Hold(j, row, "OPEN", FALSE, g)
    PROVE  IndInv'
  <1>1. job[j] \in Row /\ job'[j] = job[j] /\ cmd' = cmd
    BY DEF Hold, TypeOK
  <1>2. tx'[j] = [row |-> row, outcome |-> "OPEN", notify |-> FALSE, permit |-> g]
    BY DEF Hold, TypeOK
  <1>3. /\ tx'[j].row = row /\ tx'[j].outcome = "OPEN"
        /\ tx'[j].notify = FALSE /\ tx'[j].permit = g
    BY <1>2
  <1>4. row.owner # NoWorker
    BY IndInvParts DEF JobInv, Held
  <1>5. TransactionSound(j)'
    BY <1>1, <1>3, <1>4 DEF TransactionSound, Held, Active, Terminal
  <1> QED
    BY <1>5, HoldInv

\* Committing a sound transaction keeps the invariant.
LEMMA CommitInv ==
    ASSUME TypeOK, IndInv, NEW j \in JobIds, Commit(j)
    PROVE  IndInv'
  <1> DEFINE n == tx[j].row
  <1>1. UniqueKeys /\ \A i \in JobIds : JobInv(i)
    BY IndInvParts
  <1>2. TransactionSound(j) /\ cmd[j] \in Commands /\ tx[j] \in Transaction
    BY <1>1 DEF Commit, JobInv, TransactionSound, Active, TypeOK
  <1>3. job'[j] = n /\ tx'[j] = NoTx /\ cmd' = cmd /\ n \in Row
    BY <1>2 DEF Commit, TypeOK, Transaction
  <1>4. \A i \in JobIds : i # j =>
            /\ job'[i] = job[i] /\ tx'[i] = tx[i]
            /\ attempt'[i] = attempt[i] /\ notified'[i] = notified[i]
    BY DEF Commit, TypeOK
  <1>5. n.status # "ABSENT" /\ n.status # "PENDING"
    BY <1>2 DEF TransactionSound, Held, Terminal, Active
  <1>6. \A g \in 1..MaxAttempts :
            /\ attempt'[j][g].outcome # "NONE" <=> g <= n.gen
            /\ attempt'[j][g].outcome = "OPEN" <=> g = n.gen /\ n.status \in Held
    <2>1. CASE job[j].status \in Held
      <3>1. attempt'[j] = CloseAttempt(j, tx[j].outcome) /\ tx[j].outcome # "NONE"
        BY <1>2, <2>1 DEF Commit, TransactionSound, TypeOK
      <3>2. \A g \in 1..MaxAttempts : attempt'[j][g].outcome =
                IF g = job[j].gen THEN tx[j].outcome ELSE attempt[j][g].outcome
        BY <3>1, <1>2, CloseAttemptOutcome DEF Transaction
      <3> QED
        BY <1>1, <1>2, <2>1, <3>1, <3>2 DEF JobInv, TransactionSound
    <2>2. CASE job[j].status \notin Held
      <3>1. attempt'[j] = attempt[j] /\ n.status \notin Held
        BY <1>2, <2>2 DEF Commit, TransactionSound
      <3> QED
        BY <1>1, <1>2, <2>2, <3>1 DEF JobInv, TransactionSound
    <2> QED
      BY <2>1, <2>2
  <1>7. notified'[j] = IF n.status \in {"FAILED", "CANCELLED"} THEN 1 ELSE 0
    <2>1. notified[j] = 0
      BY <1>1, <1>2 DEF JobInv, TransactionSound, Active
    <2>2. notified'[j] = IF tx[j].notify THEN 1 ELSE 0
      BY <2>1 DEF Commit, TypeOK
    <2> QED
      BY <1>2, <2>2 DEF TransactionSound
  <1>8. n.status \in Held => job[j].status \in Held
    BY <1>2 DEF TransactionSound, Held, Active, Terminal
  <1>9. n.attempts <= cmd[j].max
    BY <1>1, <1>2 DEF JobInv, TransactionSound, Active
  <1>10. n.gen = n.attempts /\ (n.status \in Held => n.gen > 0)
    BY <1>1, <1>2, <1>8 DEF JobInv, TransactionSound
  <1>11. /\ n.status \in Held <=> n.owner # NoWorker
         /\ n.status \in Held <=> n.lease # Null
         /\ n.status = "RETRY_WAIT" => n.wait # Null
    BY <1>2 DEF TransactionSound
  <1>12. JobInv(j)'
    BY <1>2, <1>3, <1>5, <1>6, <1>7, <1>9, <1>10, <1>11 DEF JobInv
  <1>13. ASSUME NEW i \in JobIds, i # j PROVE JobInv(i)'
    BY <1>1, <1>3, <1>4, <1>13, JobFrame
  <1>14. job[j].status \in Active
    BY <1>2 DEF TransactionSound
  <1>15. UniqueKeys'
    BY <1>1, <1>3, <1>4, <1>14, KeysFrame
  <1> QED
    BY <1>12, <1>13, <1>15, IndInvParts

\* Rolling a transaction back keeps the invariant.
LEMMA RollbackInv ==
    ASSUME TypeOK, IndInv, NEW j \in JobIds, Rollback(j)
    PROVE  IndInv'
  <1>1. UniqueKeys /\ \A i \in JobIds : JobInv(i)
    BY IndInvParts
  <1>2. UniqueKeys'
    BY <1>1, KeysFrame DEF Rollback
  <1>3. ASSUME NEW i \in JobIds, i # j PROVE JobInv(i)'
    BY <1>1, <1>3, JobFrame DEF Rollback, TypeOK
  <1>4. JobInv(j)'
    BY <1>1 DEF Rollback, JobInv, TypeOK
  <1> QED
    BY <1>2, <1>3, <1>4, IndInvParts

\* A new job starts with an empty ledger and a key no active job has.
LEMMA EnqueueInv ==
    ASSUME TypeOK, IndInv, NEW c \in Commands, Enqueue(c)
    PROVE  IndInv'
  <1>1. UniqueKeys /\ \A i \in JobIds : JobInv(i)
    BY IndInvParts
  <1>2. PICK j \in JobIds : /\ job[j].status = "ABSENT"
                            /\ cmd' = [cmd EXCEPT ![j] = c]
                            /\ job' = [job EXCEPT ![j] = PendingRow(c)]
    BY DEF Enqueue
  <1>3. c \in Command /\ c.max \in Nat /\ c.max > 0
    BY CommandsAssumption, BoundsAssumption DEF Command
  <1>4. job[j] = AbsentRow /\ tx[j] = NoTx
    BY <1>1, <1>2 DEF JobInv
  <1>5. /\ job'[j].status = "PENDING" /\ job'[j].attempts = 0 /\ job'[j].gen = 0
        /\ job'[j].owner = NoWorker /\ job'[j].lease = Null
        /\ cmd'[j] = c
    BY <1>2 DEF PendingRow, AbsentRow, TypeOK
  <1>6. \A g \in 1..MaxAttempts : attempt[j][g].outcome = "NONE"
    <2>1. job[j].gen = 0
      BY <1>4 DEF AbsentRow
    <2> QED
      BY <1>1, <2>1 DEF JobInv
  <1>7. notified[j] = 0
    BY <1>1, <1>2 DEF JobInv
  <1>8. JobInv(j)'
    BY <1>3, <1>4, <1>5, <1>6, <1>7 DEF JobInv, Enqueue, Held
  <1>9. ASSUME NEW i \in JobIds, i # j PROVE JobInv(i)'
    BY <1>1, <1>2, <1>9, JobFrame DEF Enqueue, TypeOK
  <1>10. UniqueKeys'
    BY <1>1, <1>2, <1>5 DEF UniqueKeys, Enqueue, ActiveWithKey, TypeOK
  <1> QED
    BY <1>8, <1>9, <1>10, IndInvParts

\* Time passing changes no status and no NULL.
LEMMA TickInv ==
    ASSUME TypeOK, IndInv, Tick
    PROVE  IndInv'
  <1>1. UniqueKeys /\ \A i \in JobIds : JobInv(i)
    BY IndInvParts
  <1>2. \A t \in Nat \cup {Null} : Down(t) = Null <=> t = Null
    BY DEF Down, Null
  <1>3. \A r \in Row : /\ Aged(r).status = r.status /\ Aged(r).gen = r.gen
                       /\ Aged(r).attempts = r.attempts /\ Aged(r).owner = r.owner
                       /\ Aged(r).lease = Null <=> r.lease = Null
                       /\ Aged(r).wait = Null <=> r.wait = Null
    BY <1>2 DEF Aged, Row
  <1>4. \A j \in JobIds : job'[j] = Aged(job[j]) /\ job[j] \in Row
    BY DEF Tick, TypeOK
  <1>5. cmd' = cmd /\ attempt' = attempt /\ notified' = notified
    BY DEF Tick
  <1>6. UniqueKeys'
    BY <1>1, <1>3, <1>4, <1>5, KeysFrame
  <1>7. ASSUME NEW j \in JobIds PROVE JobInv(j)'
    <2>1. Aged(AbsentRow) = AbsentRow
      <3>1. Down(Null) = Null
        BY DEF Down, Null
      <3>2. AbsentRow.lease = Null /\ AbsentRow.wait = Null
        BY DEF AbsentRow
      <3>3. Aged(AbsentRow) = [AbsentRow EXCEPT !.lease = Null, !.wait = Null]
        BY <3>1, <3>2 DEF Aged
      <3> QED
        BY <3>3 DEF AbsentRow
    <2>2. job'[j].status = "ABSENT" => job'[j] = AbsentRow /\ tx'[j] = NoTx
      BY <1>1, <1>3, <1>4, <2>1 DEF JobInv, Tick
    <2>3. ASSUME tx'[j] # NoTx PROVE TransactionSound(j)'
      <3>1. tx[j] # NoTx /\ tx[j] \in Transaction /\ TransactionSound(j)
        BY <1>1, <2>3 DEF Tick, TypeOK, JobInv
      <3>2. tx'[j] = [tx[j] EXCEPT !.row = Aged(tx[j].row)] /\ tx[j].row \in Row
        BY <3>1 DEF Tick, Transaction
      <3>3. /\ tx'[j].row = Aged(tx[j].row) /\ tx'[j].outcome = tx[j].outcome
            /\ tx'[j].notify = tx[j].notify /\ tx'[j].permit = tx[j].permit
        BY <3>1, <3>2 DEF Transaction
      <3>4. /\ tx'[j].row.status = tx[j].row.status
            /\ tx'[j].row.gen = tx[j].row.gen
            /\ tx'[j].row.attempts = tx[j].row.attempts
            /\ tx'[j].row.owner = tx[j].row.owner
            /\ tx'[j].row.lease = Null <=> tx[j].row.lease = Null
            /\ tx'[j].row.wait = Null <=> tx[j].row.wait = Null
        BY <1>3, <3>2, <3>3
      <3>5. job'[j].status = job[j].status /\ job'[j].gen = job[j].gen
            /\ job'[j].attempts = job[j].attempts
        BY <1>3, <1>4
      <3> HIDE DEF JobInv
      <3> QED
        BY <1>5, <3>1, <3>3, <3>4, <3>5 DEF TransactionSound
    <2> QED
      BY <1>1, <1>3, <1>4, <1>5, <2>2, <2>3 DEF JobInv
  <1> QED
    BY <1>6, <1>7, IndInvParts

\* What Claim selects: rows to reap and at most one row to lease.
LEMMA ClaimSelects ==
    ASSUME NEW w \in Workers, Claim(w)
    PROVE  \E reaped, leased \in SUBSET JobIds :
             /\ ReapAndLease(reaped, leased, w)
             /\ \A j \in reaped : Eligible(j) /\ MustReap(j)
             /\ \A j \in leased : Eligible(j) /\ ~MustReap(j)
             /\ \A i, j \in leased : i = j
  <1> DEFINE Selected(reaped, leased) ==
               /\ ReapAndLease(reaped, leased, w)
               /\ \A j \in reaped : Eligible(j) /\ MustReap(j)
               /\ \A j \in leased : Eligible(j) /\ ~MustReap(j)
               /\ \A i, j \in leased : i = j
  <1>1. CASE ClaimNothing(w)
    <2> DEFINE all == {j \in JobIds : Eligible(j)}
    <2>1. all \in SUBSET JobIds /\ {} \in SUBSET JobIds /\ Selected(all, {})
      BY <1>1 DEF ClaimNothing
    <2> HIDE DEF all, Selected
    <2>2. \E reaped, leased \in SUBSET JobIds : Selected(reaped, leased)
      BY <2>1
    <2> QED
      BY <2>2 DEF Selected
  <1>2. ASSUME NEW k \in JobIds, ClaimJob(w, k)
        PROVE  \E reaped, leased \in SUBSET JobIds : Selected(reaped, leased)
    <2> DEFINE before == {i \in 1..(k - 1) : Eligible(i)}
    <2>1. \A i \in 1..(k - 1) : i \in JobIds
      BY BoundsAssumption DEF JobIds
    <2>2. before \in SUBSET JobIds /\ {k} \in SUBSET JobIds /\ Selected(before, {k})
      BY <1>2, <2>1 DEF ClaimJob
    <2> HIDE DEF before, Selected
    <2> QED
      BY <2>2
  <1> QED
    BY <1>1, <1>2 DEF Claim

\* What reaping and leasing need to know of the rows Claim selects.
LEMMA ClaimInv ==
    ASSUME TypeOK, IndInv, NEW w \in Workers,
           NEW reaped \in SUBSET JobIds, NEW leased \in SUBSET JobIds,
           \A j \in reaped : Eligible(j) /\ MustReap(j),
           \A j \in leased : Eligible(j) /\ ~MustReap(j),
           ReapAndLease(reaped, leased, w)
    PROVE  IndInv'
  <1>1. UniqueKeys /\ \A i \in JobIds : JobInv(i)
    BY IndInvParts
  <1>2. cmd' = cmd /\ tx' = tx
    BY DEF ReapAndLease
  <1>3. \A j \in reaped \cup leased : tx[j] = NoTx /\ job[j].status \in Active
    BY DEF Eligible, Due, Expired, Active, Held
  <1>4. ASSUME NEW j \in reaped PROVE JobInv(j)' /\ job'[j].status \notin Active
    <2>1. job[j].status \in Held /\ tx[j] = NoTx
      BY <1>4 DEF Eligible, MustReap, Held
    <2>2. /\ job'[j] = ReapedRow(j) /\ attempt'[j] = ReapedAttempts(j)
          /\ notified'[j] = notified[j] + 1 /\ job[j] \in Row
      BY <1>4 DEF ReapAndLease, TypeOK
    <2>3. /\ job'[j].status \in {"FAILED", "CANCELLED"}
          /\ job'[j].owner = NoWorker /\ job'[j].lease = Null
          /\ job'[j].gen = job[j].gen /\ job'[j].attempts = job[j].attempts
      BY <2>2 DEF ReapedRow, CancelledRow, FinishedRow, Row
    <2>4. \A g \in 1..MaxAttempts :
             \/ g = job[j].gen /\ attempt'[j][g].outcome \in {"CANCELLED", "LEASE_EXPIRED"}
             \/ g # job[j].gen /\ attempt'[j][g].outcome = attempt[j][g].outcome
      BY <2>2, CloseAttemptOutcome DEF ReapedAttempts, Outcomes
    <2>5. notified'[j] = 1
      BY <1>1, <2>1, <2>2 DEF JobInv, Held
    <2>6. job'[j].status \notin Held /\ job'[j].status \notin Active
      BY <2>3 DEF Held, Active
    <2> QED
      BY <1>1, <1>2, <2>1, <2>3, <2>4, <2>5, <2>6 DEF JobInv, Held
  <1>5. ASSUME NEW j \in leased, j \notin reaped PROVE JobInv(j)'
    <2>1. tx[j] = NoTx /\ job[j].status \in {"PENDING", "RETRY_WAIT", "LEASED"}
      BY <1>5 DEF Eligible, Due, MustReap, Expired, Held
    <2>2. /\ cmd[j] \in Commands /\ cmd[j].max \in 1..MaxAttempts
          /\ job[j].attempts < cmd[j].max /\ job[j].attempts \in Nat
          /\ job[j].gen = job[j].attempts
      BY <1>1, <1>5, <2>1, CommandsAssumption
      DEF Eligible, Due, MustReap, Expired, Held, JobInv, TypeOK, Row, Command
    <2>3. /\ job'[j] = LeasedRow(job[j], w) /\ attempt'[j] = ClaimedAttempts(j, w)
          /\ notified'[j] = notified[j] /\ job[j] \in Row
      BY <1>5 DEF ReapAndLease, TypeOK
    <2>4. /\ job'[j].status = "LEASED" /\ job'[j].owner = w
          /\ job'[j].lease = LeaseFor /\ job'[j].gen = job[j].gen + 1
          /\ job'[j].attempts = job[j].attempts + 1
      BY <2>3 DEF LeasedRow, Row
    <2>5. w # NoWorker /\ LeaseFor # Null
      BY NullsAssumption, BoundsAssumption DEF Null
    <2>6. \A g \in 1..MaxAttempts :
             /\ attempt'[j][g].outcome # "NONE" <=> g <= job[j].gen + 1
             /\ attempt'[j][g].outcome = "OPEN" <=> g = job[j].gen + 1
      <3> DEFINE old == IF job[j].status = "LEASED"
                        THEN CloseAttempt(j, "LEASE_EXPIRED") ELSE attempt[j]
                 opened == [worker |-> w, outcome |-> "OPEN"]
                 h == job[j].gen + 1
      <3>1. old \in [1..MaxAttempts -> Attempt]
        BY CloseAttemptType DEF TypeOK, Outcomes
      <3>2. \A g \in 1..MaxAttempts :
               /\ old[g].outcome # "NONE" <=> g <= job[j].gen
               /\ old[g].outcome # "OPEN"
        <4>1. CASE job[j].status = "LEASED"
          <5>1. \A g \in 1..MaxAttempts : old[g].outcome =
                   IF g = job[j].gen THEN "LEASE_EXPIRED" ELSE attempt[j][g].outcome
            BY <4>1, CloseAttemptOutcome DEF Outcomes
          <5> HIDE DEF old
          <5> QED
            BY <1>1, <2>2, <4>1, <5>1 DEF JobInv
        <4>2. CASE job[j].status # "LEASED"
          BY <1>1, <2>1, <4>2 DEF JobInv, Held
        <4> QED
          BY <4>1, <4>2
      <3>3. attempt'[j] = [old EXCEPT ![h] = opened]
        BY <2>3 DEF ClaimedAttempts
      <3>4. opened.outcome = "OPEN"
        OBVIOUS
      <3>5. h \in 1..MaxAttempts
        BY <2>2, BoundsAssumption
      <3>6. \A g \in 1..MaxAttempts :
               attempt'[j][g] = IF g = h THEN opened ELSE old[g]
        <4> HIDE DEF old, opened, h
        <4> QED
          BY <3>1, <3>3
      <3> HIDE DEF old, opened
      <3> QED
        BY <2>2, <3>2, <3>4, <3>5, <3>6
    <2>7. notified'[j] = 0
      BY <1>1, <2>1, <2>3 DEF JobInv
    <2> QED
      BY <1>2, <2>1, <2>2, <2>4, <2>5, <2>6, <2>7 DEF JobInv, Held
  <1>6. ASSUME NEW j \in JobIds, j \notin reaped, j \notin leased PROVE JobInv(j)'
    <2>1. job'[j] = job[j] /\ attempt'[j] = attempt[j] /\ notified'[j] = notified[j]
      BY <1>6 DEF ReapAndLease
    <2> QED
      BY <1>1, <1>2, <2>1, JobFrame
  <1>7. \A j \in JobIds : j \notin reaped /\ j \notin leased => job'[j] = job[j]
    BY DEF ReapAndLease
  <1>8. UniqueKeys'
    BY <1>1, <1>2, <1>3, <1>4, <1>7, KeysFrame
  <1> QED
    BY <1>4, <1>5, <1>6, <1>8, IndInvParts

\* The empty queue satisfies the invariant.
LEMMA InitInv == Init => IndInv
  <1> SUFFICES ASSUME Init PROVE UniqueKeys /\ \A j \in JobIds : JobInv(j)
    BY IndInvParts
  <1>1. \A j \in JobIds : /\ job[j] = AbsentRow /\ tx[j] = NoTx /\ notified[j] = 0
                          /\ \A g \in 1..MaxAttempts : attempt[j][g] = NoAttempt
    BY DEF Init
  <1>2. AbsentRow.status = "ABSENT" /\ AbsentRow.gen = 0 /\ AbsentRow.attempts = 0
        /\ NoAttempt.outcome = "NONE"
    BY DEF AbsentRow, NoAttempt
  <1> QED
    BY <1>1, <1>2 DEF UniqueKeys, JobInv, Active, Held

\* Every step keeps the invariant.
LEMMA StepInv == TypeOK /\ IndInv /\ [Next]_vars => IndInv'
  <1> SUFFICES ASSUME TypeOK, IndInv, [Next]_vars PROVE IndInv'
    OBVIOUS
  <1>1. ASSUME NEW c \in Commands, Enqueue(c) PROVE IndInv'
    BY <1>1, EnqueueInv
  <1>2. ASSUME NEW w \in Workers, Claim(w) PROVE IndInv'
    BY <1>2, ClaimSelects, ClaimInv
  <1>3. ASSUME NEW j \in JobIds, NEW w \in Workers, NEW g \in 1..MaxAttempts,
               PermitStep(j, w, g)
        PROVE  IndInv'
    <2>1. g \in Nat /\ g > 0 /\ job[j] \in Row
      BY DEF TypeOK
    <2>2. CASE Heartbeat(j, w, g)
      <3> DEFINE row == [job[j] EXCEPT !.lease = LeaseFor]
      <3>1. job[j].status = "LEASED" /\ job[j].gen = g
        BY <2>2 DEF Heartbeat, lockPermit
      <3>2. row \in Row
        BY <2>1, RowVersions
      <3>3. /\ row.status = job[j].status /\ row.lease = LeaseFor
            /\ row.owner = job[j].owner /\ row.gen = job[j].gen
            /\ row.attempts = job[j].attempts
        BY <2>1 DEF Row
      <3>4. Hold(j, row, "OPEN", FALSE, g)
        BY <2>2 DEF Heartbeat
      <3>5. LeaseFor # Null
        BY BoundsAssumption DEF Null
      <3> HIDE DEF row
      <3> QED
        BY <2>1, <3>1, <3>2, <3>3, <3>4, <3>5, KeepInv DEF Held
    <2>3. CASE AssertPermit(j, w, g)
      <3>1. job[j].status = "LEASED" /\ job[j].gen = g /\ job[j].lease # Null
        BY <2>3 DEF AssertPermit, lockPermit, Null
      <3>2. Hold(j, job[j], "OPEN", FALSE, g)
        BY <2>3 DEF AssertPermit
      <3> QED
        BY <2>1, <3>1, <3>2, KeepInv DEF Held
    <2>4. CASE Succeed(j, w, g) \/ Fail(j, w, g)
      <3>1. lockPermit(j, w, g, {"LEASED"}) /\ job[j].status = "LEASED"
        BY <2>4 DEF Succeed, Fail, lockPermit
      <3>2. {"LEASED"} \in SUBSET Held /\ Null \in Nat \cup {Null}
        BY DEF Held
      <3> QED
        BY <2>4, <3>1, <3>2, FinishInv DEF Succeed, Fail, Outcomes
    <2>5. CASE CompleteAcceptedResult(j, w, g)
      <3>1. {"LEASED", "CANCEL_REQUESTED"} \in SUBSET Held /\ Null \in Nat \cup {Null}
        BY DEF Held
      <3> QED
        BY <2>5, <3>1, FinishInv DEF CompleteAcceptedResult, Outcomes
    <2>6. ASSUME NEW delay \in RetryDelays, Retry(j, w, g, delay) PROVE IndInv'
      <3>1. delay \in Nat \cup {Null} /\ delay # Null /\ Null \in Nat \cup {Null}
        BY BoundsAssumption DEF Null
      <3>2. lockPermit(j, w, g, {"LEASED"}) /\ job[j].status = "LEASED"
        BY <2>6 DEF Retry, lockPermit
      <3>3. {"LEASED"} \in SUBSET Held /\ {"RETRY", "FAILED"} \subseteq Outcomes
        BY DEF Held, Outcomes
      <3>4. CASE job[j].attempts < cmd[j].max
        <4>1. finish(j, g, "RETRY_WAIT", "RETRY", delay)
          BY <2>6, <3>4 DEF Retry
        <4> QED
          BY <3>1, <3>2, <3>3, <3>4, <4>1, FinishInv
      <3>5. CASE ~(job[j].attempts < cmd[j].max)
        <4>1. finish(j, g, "FAILED", "FAILED", Null)
          BY <2>6, <3>5 DEF Retry
        <4> QED
          BY <3>1, <3>2, <3>3, <4>1, FinishInv
      <3> QED
        BY <3>4, <3>5
    <2>7. CASE AcknowledgeCancel(j, w, g)
      <3>1. job[j].status = "CANCEL_REQUESTED" /\ job[j].gen = g
        BY <2>7 DEF AcknowledgeCancel, lockPermit
      <3> QED
        BY <2>1, <2>7, <3>1, CancelInv DEF AcknowledgeCancel, Held, Active
    <2> QED
      BY <1>3, <2>2, <2>3, <2>4, <2>5, <2>6, <2>7 DEF PermitStep
  <1>4. ASSUME NEW j \in JobIds, RequestCancel(j) PROVE IndInv'
    <2>0. 0 \in Nat /\ ~(0 > 0)
      OBVIOUS
    <2>1. CASE job[j].status \in {"PENDING", "RETRY_WAIT"} /\ cancelLocked(j, 0, FALSE)
      <3>1. job[j].status \in Active /\ ~(job[j].status \in Held)
        BY <2>1 DEF Held, Active
      <3> QED
        BY <2>0, <2>1, <3>1, CancelInv
    <2>2. CASE Expired(j) /\ cancelLocked(j, 0, TRUE)
      <3>1. job[j].status \in Active /\ job[j].status \in Held
        BY <2>2 DEF Expired, Held, Active
      <3> QED
        BY <2>0, <2>2, <3>1, CancelInv
    <2>3. CASE /\ job[j].status = "LEASED" /\ Live(j)
               /\ Hold(j, [job[j] EXCEPT !.status = "CANCEL_REQUESTED"], "OPEN",
                       FALSE, 0)
      <3> DEFINE row == [job[j] EXCEPT !.status = "CANCEL_REQUESTED"]
      <3>1. row \in Row /\ job[j] \in Row
        BY RowVersions DEF TypeOK
      <3>2. /\ row.status = "CANCEL_REQUESTED" /\ row.lease = job[j].lease
            /\ row.owner = job[j].owner /\ row.gen = job[j].gen
            /\ row.attempts = job[j].attempts
        BY <3>1 DEF Row
      <3>3. job[j].lease # Null
        BY <2>3 DEF Live, Null
      <3>4. Hold(j, row, "OPEN", FALSE, 0)
        BY <2>3
      <3> HIDE DEF row
      <3> QED
        BY <2>0, <2>3, <3>1, <3>2, <3>3, <3>4, KeepInv DEF Held
    <2> QED
      BY <1>4, <2>1, <2>2, <2>3 DEF RequestCancel
  <1>5. ASSUME NEW j \in JobIds, Commit(j) \/ Rollback(j) PROVE IndInv'
    BY <1>5, CommitInv, RollbackInv
  <1>6. CASE UNCHANGED <<cmd, job, attempt, tx, notified>>
    BY <1>6 DEF IndInv, RowConstraints, AttemptLedger, NotifiedOnce,
                TransactionSound
  <1>7. CASE Tick
    BY <1>7, TickInv
  <1> QED
    BY <1>1, <1>2, <1>3, <1>4, <1>5, <1>6, <1>7
    DEF Next, AcquireModelCall, ReleaseModelCall, vars

\* For every number of jobs, workers and attempts: the schema's constraints,
\* the attempts ledger, exactly one terminal callback per failed or cancelled
\* job and the soundness of every open transaction hold in every execution.
THEOREM QueueInvariant == Spec => []IndInv
  BY InitType, StepType, InitInv, StepInv, PTL DEF Spec

\* The invariant fences transactions.
LEMMA InvFences == TypeOK /\ IndInv => FencedTransaction
  <1> SUFFICES ASSUME TypeOK, IndInv, NEW j \in JobIds, tx[j] # NoTx,
                      tx[j].permit > 0
               PROVE  /\ job[j].status \in Held
                      /\ job[j].gen = tx[j].permit
                      /\ attempt[j][tx[j].permit].outcome = "OPEN"
    BY DEF FencedTransaction
  <1>1. JobInv(j) /\ TransactionSound(j)
    BY IndInvParts DEF JobInv
  <1>2. job[j].status \in Held /\ job[j].gen = tx[j].permit
    BY <1>1 DEF TransactionSound
  <1>3. job[j].gen \in 1..MaxAttempts
    <2>1. cmd[j] \in Commands /\ job[j].attempts <= cmd[j].max
      BY <1>1, <1>2 DEF JobInv, Held
    <2>2. cmd[j].max \in 1..MaxAttempts
      BY <2>1, CommandsAssumption DEF Command
    <2>3. job[j].gen \in Nat /\ job[j].gen > 0 /\ job[j].gen = job[j].attempts
      BY <1>1, <1>2 DEF JobInv, TypeOK, Row
    <2> QED
      BY <2>1, <2>2, <2>3, BoundsAssumption
  <1> QED
    BY <1>1, <1>2, <1>3 DEF JobInv

\* Fencing: no transaction under a permit is ever open on a job that was
\* taken over, cancelled or finished since the permit was checked.
THEOREM Fencing == Spec => []FencedTransaction
  BY InvFences, TypeCorrect, QueueInvariant, PTL

-----------------------------------------------------------------------------
(* The queue implements the life of a job. *)

\* The life of one job, in the terms of the abstract specification: its phase,
\* the runs left to it and the callbacks it had, before and after a step.
Moves(j, phase, phase2, left, left2) ==
    /\ PhaseOf(job[j].status) = phase /\ PhaseOf(job[j].status)' = phase2
    /\ (IF job[j].status = "ABSENT" THEN 0 ELSE cmd[j].max - job[j].attempts) = left
    /\ (IF job[j].status = "ABSENT" THEN 0 ELSE cmd[j].max - job[j].attempts)' = left2

\* A job's part of the refinement mapping is its move.
LEMMA MoveIsStep ==
    ASSUME NEW j \in JobIds, NEW phase, NEW phase2, NEW left \in Int, NEW left2 \in Int,
           Moves(j, phase, phase2, left, left2),
           \/ /\ phase2 = phase /\ left2 = left /\ notified'[j] = notified[j]
           \/ /\ phase = "none" /\ phase2 = "queued" /\ left2 \in 1..MaxAttempts
              /\ notified'[j] = notified[j]
           \/ /\ phase \in {"queued", "running"} /\ phase2 = "running"
              /\ left > 0 /\ left2 = left - 1 /\ notified'[j] = notified[j]
           \/ /\ phase = "running" /\ phase2 = "queued"
              /\ left > 0 /\ left2 = left /\ notified'[j] = notified[j]
           \/ /\ phase = "running" /\ phase2 = "cancelling"
              /\ left2 = left /\ notified'[j] = notified[j]
           \/ /\ phase \in {"running", "cancelling"} /\ phase2 = "succeeded"
              /\ left2 = left /\ notified'[j] = notified[j]
           \/ /\ phase = "running" /\ phase2 = "failed"
              /\ left2 = left /\ notified'[j] = notified[j] + 1
           \/ /\ phase \in {"queued", "running", "cancelling"} /\ phase2 = "cancelled"
              /\ left2 = left /\ notified'[j] = notified[j] + 1
    PROVE  Lifecycle!Step(j)
  BY DEF Moves, Lifecycle!Step, Lifecycle!Submit, Lifecycle!StartRun, Lifecycle!Requeue,
         Lifecycle!AskToCancel, Lifecycle!Succeed, Lifecycle!Fail, Lifecycle!Cancel,
         Lifecycle!Stay, Lifecycle!Quietly
\* The phases of the statuses.
LEMMA Phases ==
    /\ PhaseOf("ABSENT") = "none"
    /\ PhaseOf("PENDING") = "queued" /\ PhaseOf("RETRY_WAIT") = "queued"
    /\ PhaseOf("LEASED") = "running" /\ PhaseOf("CANCEL_REQUESTED") = "cancelling"
    /\ PhaseOf("SUCCEEDED") = "succeeded" /\ PhaseOf("FAILED") = "failed"
    /\ PhaseOf("CANCELLED") = "cancelled"
  BY DEF PhaseOf

\* The runs left to a job are a number, never negative.
LEMMA RunsLeft ==
    ASSUME TypeOK, NEW j \in JobIds, JobInv(j), job[j].status # "ABSENT"
    PROVE  /\ cmd[j].max \in 1..MaxAttempts /\ job[j].attempts \in Nat
           /\ cmd[j].max - job[j].attempts \in Nat
  <1>1. cmd[j] \in Commands /\ job[j].attempts <= cmd[j].max
    BY DEF JobInv
  <1>2. cmd[j].max \in 1..MaxAttempts
    BY <1>1, CommandsAssumption DEF Command
  <1>3. job[j].attempts \in Nat
    BY DEF TypeOK, Row
  <1> QED
    BY <1>1, <1>2, <1>3, BoundsAssumption

\* A job that a step leaves alone, or only ages, stays where it is.
LEMMA StayStep ==
    ASSUME TypeOK, NEW j \in JobIds, JobInv(j), cmd'[j] = cmd[j],
           job'[j].status = job[j].status, job'[j].attempts = job[j].attempts,
           notified'[j] = notified[j]
    PROVE  Lifecycle!Step(j)
  <1> DEFINE phase == PhaseOf(job[j].status)
             left == IF job[j].status = "ABSENT" THEN 0 ELSE cmd[j].max - job[j].attempts
  <1>1. left \in Int
    BY RunsLeft
  <1>2. Moves(j, phase, phase, left, left)
    BY DEF Moves
  <1> HIDE DEF phase, left
  <1> QED
    BY <1>1, <1>2, MoveIsStep

\* Enqueue submits one job.
LEMMA EnqueueStep ==
    ASSUME TypeOK, IndInv, NEW c \in Commands, Enqueue(c)
    PROVE  \A j \in JobIds : Lifecycle!Step(j)
  <1>1. \A i \in JobIds : JobInv(i)
    BY IndInvParts
  <1>2. PICK j \in JobIds : /\ job[j].status = "ABSENT"
                            /\ cmd' = [cmd EXCEPT ![j] = c]
                            /\ job' = [job EXCEPT ![j] = PendingRow(c)]
    BY DEF Enqueue
  <1>3. Lifecycle!Step(j)
    <2>1. c.max \in 1..MaxAttempts
      BY CommandsAssumption DEF Command
    <2>2. /\ job'[j].status = "PENDING" /\ job'[j].attempts = 0 /\ cmd'[j] = c
          /\ notified'[j] = notified[j]
      BY <1>2 DEF Enqueue, PendingRow, AbsentRow, TypeOK
    <2>3. Moves(j, "none", "queued", 0, c.max)
      BY <1>2, <2>1, <2>2, Phases DEF Moves
    <2> QED
      BY <2>1, <2>2, <2>3, MoveIsStep
  <1>4. ASSUME NEW i \in JobIds, i # j PROVE Lifecycle!Step(i)
    <2>1. cmd'[i] = cmd[i] /\ job'[i] = job[i] /\ notified'[i] = notified[i]
      BY <1>2, <1>4 DEF Enqueue, TypeOK
    <2> QED
      BY <1>1, <2>1, StayStep
  <1> QED
    BY <1>3, <1>4

\* Claim fails or cancels the jobs it reaps and starts a run of the one it
\* leases.
LEMMA ClaimStep ==
    ASSUME TypeOK, IndInv, NEW w \in Workers,
           NEW reaped \in SUBSET JobIds, NEW leased \in SUBSET JobIds,
           \A j \in reaped : Eligible(j) /\ MustReap(j),
           \A j \in leased : Eligible(j) /\ ~MustReap(j),
           ReapAndLease(reaped, leased, w)
    PROVE  \A j \in JobIds : Lifecycle!Step(j)
  <1>1. \A i \in JobIds : JobInv(i)
    BY IndInvParts
  <1>2. cmd' = cmd /\ \A j \in JobIds : job[j] \in Row
    BY DEF ReapAndLease, TypeOK
  <1>3. ASSUME NEW j \in reaped PROVE Lifecycle!Step(j)
    <2>1. job[j].status \in Held
      BY <1>3 DEF MustReap, Held
    <2> DEFINE left == cmd[j].max - job[j].attempts
    <2>2. left \in Int
      BY <1>1, <2>1, RunsLeft DEF Held
    <2>3. job'[j] = ReapedRow(j) /\ notified'[j] = notified[j] + 1
      BY <1>3 DEF ReapAndLease
    <2>4. job'[j].attempts = job[j].attempts
      BY <1>2, <2>3 DEF ReapedRow, CancelledRow, FinishedRow, Row
    <2>5. CASE job[j].status = "CANCEL_REQUESTED"
      <3>1. job'[j].status = "CANCELLED"
        BY <1>2, <2>3, <2>5 DEF ReapedRow, CancelledRow, Row
      <3>2. Moves(j, "cancelling", "cancelled", left, left)
        BY <1>2, <2>4, <2>5, <3>1, Phases DEF Moves
      <3> HIDE DEF left
      <3> QED
        BY <2>2, <2>3, <3>2, MoveIsStep
    <2>6. CASE job[j].status = "LEASED"
      <3>1. job'[j].status = "FAILED"
        BY <1>2, <2>3, <2>6 DEF ReapedRow, FinishedRow, Row
      <3>2. Moves(j, "running", "failed", left, left)
        BY <1>2, <2>4, <2>6, <3>1, Phases DEF Moves
      <3> HIDE DEF left
      <3> QED
        BY <2>2, <2>3, <3>2, MoveIsStep
    <2> QED
      BY <2>1, <2>5, <2>6 DEF Held
  <1>4. ASSUME NEW j \in leased, j \notin reaped PROVE Lifecycle!Step(j)
    <2>1. job[j].status \in {"PENDING", "RETRY_WAIT", "LEASED"}
      BY <1>4 DEF Eligible, Due, MustReap, Expired, Held
    <2> DEFINE left == cmd[j].max - job[j].attempts
    <2>2. /\ left \in Int /\ left > 0 /\ left - 1 \in Int
          /\ left - 1 = cmd[j].max - (job[j].attempts + 1)
      <3>1. cmd[j].max \in 1..MaxAttempts /\ job[j].attempts \in Nat
        BY <1>1, <1>4, <2>1, RunsLeft
      <3>2. job[j].attempts < cmd[j].max
        BY <1>4, <2>1, <3>1 DEF Eligible, Due, MustReap, Expired, Held
      <3> QED
        BY <3>1, <3>2
    <2>3. /\ job'[j].status = "LEASED" /\ job'[j].attempts = job[j].attempts + 1
          /\ notified'[j] = notified[j]
      BY <1>2, <1>4 DEF ReapAndLease, LeasedRow, Row
    <2>4. Moves(j, PhaseOf(job[j].status), "running", left, left - 1)
      BY <1>2, <2>1, <2>2, <2>3, Phases DEF Moves
    <2>5. PhaseOf(job[j].status) \in {"queued", "running"}
      BY <2>1, Phases
    <2> HIDE DEF left
    <2> QED
      BY <2>2, <2>3, <2>4, <2>5, MoveIsStep
  <1>5. ASSUME NEW j \in JobIds, j \notin reaped, j \notin leased PROVE Lifecycle!Step(j)
    <2>1. job'[j] = job[j] /\ notified'[j] = notified[j]
      BY <1>5 DEF ReapAndLease
    <2> QED
      BY <1>1, <1>2, <2>1, StayStep
  <1> QED
    BY <1>3, <1>4, <1>5

\* A commit moves its job by one abstract step, or renews a lease and leaves
\* it in its phase.
LEMMA CommitStep ==
    ASSUME TypeOK, IndInv, NEW j \in JobIds, Commit(j)
    PROVE  \A i \in JobIds : Lifecycle!Step(i)
  <1> DEFINE n == tx[j].row
             left == cmd[j].max - job[j].attempts
  <1>1. \A i \in JobIds : JobInv(i)
    BY IndInvParts
  <1>2. TransactionSound(j) /\ tx[j] \in Transaction /\ job[j].status \in Active
    BY <1>1 DEF Commit, JobInv, TransactionSound, TypeOK
  <1>3. job'[j] = n /\ cmd' = cmd /\ n.attempts = job[j].attempts
    BY <1>2 DEF Commit, TypeOK, TransactionSound
  <1>4. left \in Int
    BY <1>1, <1>2, RunsLeft DEF Active
  <1>5. notified'[j] = IF n.status \in {"FAILED", "CANCELLED"} THEN notified[j] + 1 ELSE notified[j]
    BY <1>2 DEF Commit, TypeOK, TransactionSound
  <1>6. \/ /\ job[j].status \in {"PENDING", "RETRY_WAIT"} /\ n.status = "CANCELLED"
        \/ /\ job[j].status = "LEASED"
           /\ n.status \in {"LEASED", "CANCEL_REQUESTED", "SUCCEEDED", "FAILED", "CANCELLED", "RETRY_WAIT"}
        \/ /\ job[j].status = "CANCEL_REQUESTED" /\ n.status \in {"SUCCEEDED", "CANCELLED"}
    BY <1>2 DEF TransactionSound, Active, Held, Terminal
  <1>7. n.status = "RETRY_WAIT" => left > 0
    BY <1>1, <1>2, RunsLeft DEF TransactionSound, Active
  <1>8. Moves(j, PhaseOf(job[j].status), PhaseOf(n.status), left, left)
    BY <1>3, <1>6 DEF Moves
  <1>9. Lifecycle!Step(j)
    <2> HIDE DEF left, n
    <2> QED
      BY <1>4, <1>5, <1>6, <1>7, <1>8, Phases, MoveIsStep
  <1>10. ASSUME NEW i \in JobIds, i # j PROVE Lifecycle!Step(i)
    <2>1. job'[i] = job[i] /\ notified'[i] = notified[i]
      BY <1>10 DEF Commit, TypeOK
    <2> QED
      BY <1>1, <1>3, <2>1, StayStep
  <1> QED
    BY <1>9, <1>10

\* Every step of the queue is a step of the abstract specification, or none.
LEMMA StepImplements ==
    ASSUME TypeOK, TypeOK', IndInv, [Next]_vars
    PROVE  \A j \in JobIds : Lifecycle!Step(j)
  <1>1. \A j \in JobIds : JobInv(j)
    BY IndInvParts
  <1>2. ASSUME NEW c \in Commands, Enqueue(c) PROVE \A j \in JobIds : Lifecycle!Step(j)
    BY <1>2, EnqueueStep
  <1>3. ASSUME NEW w \in Workers, Claim(w) PROVE \A j \in JobIds : Lifecycle!Step(j)
    BY <1>3, ClaimSelects, ClaimStep
  <1>4. ASSUME NEW j \in JobIds, Commit(j) PROVE \A i \in JobIds : Lifecycle!Step(i)
    BY <1>4, CommitStep
  <1>5. CASE Tick
    <2>1. \A j \in JobIds : /\ job'[j].status = job[j].status
                            /\ job'[j].attempts = job[j].attempts
      <3>1. \A r \in Row : Aged(r).status = r.status /\ Aged(r).attempts = r.attempts
        BY DEF Aged, Row
      <3>2. \A j \in JobIds : job'[j] = Aged(job[j]) /\ job[j] \in Row
        BY <1>5 DEF Tick, TypeOK
      <3> QED
        BY <3>1, <3>2
    <2> QED
      BY <1>1, <1>5, <2>1, StayStep DEF Tick
  <1>6. CASE UNCHANGED <<cmd, job, notified>>
    BY <1>1, <1>6, StayStep
  <1>7. ASSUME NEW j \in JobIds, NEW w \in Workers, NEW g \in 1..MaxAttempts, PermitStep(j, w, g)
        PROVE  UNCHANGED <<cmd, job, notified>>
    BY <1>7 DEF PermitStep, Heartbeat, Succeed, CompleteAcceptedResult, Retry, Fail,
                AcknowledgeCancel, AssertPermit, finish, cancelLocked, Hold
  <1>8. ASSUME NEW j \in JobIds, RequestCancel(j) \/ Rollback(j)
        PROVE  UNCHANGED <<cmd, job, notified>>
    BY <1>8 DEF RequestCancel, Rollback, cancelLocked, Hold
  <1> QED
    BY <1>2, <1>3, <1>4, <1>5, <1>6, <1>7, <1>8
    DEF Next, AcquireModelCall, ReleaseModelCall, vars

\* The queue implements the life of a job that its clients rely on: leases,
\* take-overs, late commits and unacknowledged cancellations never start a
\* run beyond the budget, settle a job twice or settle it unannounced (Claim,
\* finish, cancelLocked, retryStatus).
THEOREM Implementation == Spec => ImplementsLifecycle
  <1>1. Init => Lifecycle!Init
    <2> SUFFICES ASSUME Init PROVE Lifecycle!Init
      OBVIOUS
    <2>1. \A j \in JobIds : job[j].status = "ABSENT"
      BY DEF Init, AbsentRow
    <2> QED
      BY <2>1, Phases DEF Init, Lifecycle!Init
  <1>2. TypeOK /\ IndInv /\ [Next]_vars => [Lifecycle!Next]_(Lifecycle!vars)
    <2> SUFFICES ASSUME TypeOK, IndInv, [Next]_vars PROVE Lifecycle!Next
      OBVIOUS
    <2>1. TypeOK'
      BY StepType
    <2>2. \A j \in JobIds : Lifecycle!Step(j)
      BY <2>1, StepImplements
    <2>3. notified' = [j \in JobIds |-> notified'[j]]
      BY <2>1 DEF TypeOK
    <2> QED
      BY <2>2, <2>3 DEF Lifecycle!Next
  <1> QED
    BY <1>1, <1>2, InitType, StepType, QueueInvariant, TypeCorrect, PTL
    DEF Spec, ImplementsLifecycle, Lifecycle!Spec
-----------------------------------------------------------------------------
(* Admission. *)

\* A job is taken over only after its lease has expired and never while a
\* transaction under the old permit is open, so a slow worker that still
\* writes is not overtaken (LockEligibleJob, SKIP LOCKED).
THEOREM TakeOver == Spec => NoTakeOverOfLiveLease
  <1> DEFINE Calm(j) == job'[j].gen # job[j].gen => ~Live(j) /\ tx[j] = NoTx
  <1>1. ASSUME TypeOK, IndInv, [Next]_vars, NEW j \in JobIds PROVE Calm(j)
    <2>1. \A i \in JobIds : JobInv(i) /\ job[i] \in Row
      BY <1>1, IndInvParts DEF TypeOK
    <2>2. ASSUME NEW c \in Commands, Enqueue(c) PROVE Calm(j)
      <3>1. PICK i \in JobIds : job[i].status = "ABSENT" /\ job' = [job EXCEPT ![i] = PendingRow(c)]
        BY <2>2 DEF Enqueue
      <3>2. job[i].gen = 0 /\ PendingRow(c).gen = 0
        BY <2>1, <3>1 DEF JobInv, AbsentRow, PendingRow
      <3> QED
        BY <1>1, <3>1, <3>2 DEF TypeOK
    <2>3. ASSUME NEW w \in Workers, NEW reaped, NEW leased, ReapAndLease(reaped, leased, w),
                 \A i \in leased : Eligible(i)
          PROVE  Calm(j)
      <3>1. j \in reaped => job'[j].gen = job[j].gen
        BY <2>1, <2>3 DEF ReapAndLease, ReapedRow, CancelledRow, FinishedRow, Row
      <3>2. j \notin reaped /\ j \notin leased => job'[j] = job[j]
        BY <2>3 DEF ReapAndLease
      <3>3. j \in leased => ~Live(j) /\ tx[j] = NoTx
        BY <2>1, <2>3 DEF Eligible, Due, Live, Expired, Held, Row
      <3> QED
        BY <3>1, <3>2, <3>3
    <2>4. ASSUME NEW w \in Workers, Claim(w) PROVE Calm(j)
      BY <2>3, <2>4, ClaimSelects
    <2>5. ASSUME NEW i \in JobIds, Commit(i) PROVE Calm(j)
      <3>1. tx[i].row.gen = job[i].gen
        BY <2>1, <2>5 DEF Commit, JobInv, TransactionSound
      <3> QED
        BY <1>1, <2>5, <3>1 DEF Commit, TypeOK
    <2>6. CASE Tick
      <3>1. job'[j] = Aged(job[j])
        BY <2>6 DEF Tick
      <3> QED
        BY <2>1, <3>1 DEF Aged, Row
    <2>7. CASE job' = job
      BY <2>7
    <2>8. ASSUME NEW i \in JobIds, NEW w \in Workers, NEW g \in 1..MaxAttempts, PermitStep(i, w, g)
          PROVE  job' = job
      BY <2>8 DEF PermitStep, Heartbeat, Succeed, CompleteAcceptedResult, Retry, Fail,
                  AcknowledgeCancel, AssertPermit, finish, cancelLocked, Hold
    <2>9. ASSUME NEW i \in JobIds, RequestCancel(i) \/ Rollback(i) PROVE job' = job
      BY <2>9 DEF RequestCancel, Rollback, cancelLocked, Hold
    <2> QED
      BY <1>1, <2>2, <2>4, <2>5, <2>6, <2>7, <2>8, <2>9
      DEF Next, AcquireModelCall, ReleaseModelCall, vars
  <1>2. TypeOK /\ IndInv /\ [Next]_vars =>
          [\A j \in JobIds : job'[j].gen # job[j].gen => ~Live(j) /\ tx[j] = NoTx]_vars
    BY <1>1
  <1> QED
    BY <1>2, TypeCorrect, QueueInvariant, PTL DEF Spec, NoTakeOverOfLiveLease
\* Commits are in time: a transaction that will leave its job held commits
\* while the lease is live.
Prompt(j) == tx[j] # NoTx /\ tx[j].row.status \in Held => Live(j)

\* The live jobs of a profile whose limits are at most k are at most k, for
\* every k: what makes the limit of a profile survive the end of the job with
\* the largest limit.
Sharing(p) ==
    \A k \in 0..MaxJobs : Cardinality({j \in LiveWithProfile(p) : cmd[j].limit <= k}) <= k

AdmissionInv ==
    /\ \A j \in JobIds : Prompt(j)
    /\ \A p \in Profiles : Sharing(p)
    /\ EndpointWithinLimit

\* The sets that admission counts are finite.
LEMMA AdmissionFinite ==
    /\ IsFiniteSet(JobIds) /\ Cardinality(JobIds) = MaxJobs
    /\ \A S \in SUBSET JobIds : IsFiniteSet(S) /\ Cardinality(S) \in 0..MaxJobs
    /\ \A S \in SUBSET Calls : IsFiniteSet(S) /\ Cardinality(S) \in Nat
  <1>1. IsFiniteSet(JobIds) /\ Cardinality(JobIds) = MaxJobs
    BY FS_Interval, BoundsAssumption DEF JobIds
  <1>2. \A S \in SUBSET JobIds : IsFiniteSet(S) /\ Cardinality(S) \in 0..MaxJobs
    BY <1>1, FS_Subset, FS_CardinalityType, BoundsAssumption
  <1>3. \A S \in SUBSET Calls : IsFiniteSet(S) /\ Cardinality(S) \in Nat
    BY FS_Subset, FS_CardinalityType, BoundsAssumption
  <1> QED
    BY <1>1, <1>2, <1>3

\* A set that gains at most one member gains at most one.
LEMMA GrowsByOne ==
    ASSUME NEW S, IsFiniteSet(S), NEW x, NEW T \in SUBSET (S \cup {x})
    PROVE  Cardinality(T) <= Cardinality(S) + 1
  <1>0. Cardinality(S) \in Nat
    BY FS_CardinalityType
  <1>1. IsFiniteSet(S \cup {x}) /\ Cardinality(S \cup {x}) <= Cardinality(S) + 1
    BY <1>0, FS_AddElement
  <1>2. Cardinality(T) <= Cardinality(S \cup {x})
    BY <1>1, FS_Subset
  <1>3. Cardinality(S) \in Nat /\ Cardinality(S \cup {x}) \in Nat /\ Cardinality(T) \in Nat
    BY <1>1, FS_CardinalityType, FS_Subset
  <1> QED
    BY <1>1, <1>2, <1>3

\* A step after which fewer jobs and calls are live keeps the limits.
LEMMA AdmissionFrame ==
    ASSUME AdmissionInv,
           \A j \in JobIds : Live(j)' => Live(j) /\ cmd'[j] = cmd[j],
           \A c \in Calls : call'[c].left > 0 => call[c].left > 0 /\ call'[c].endpoint = call[c].endpoint
    PROVE  (\A p \in Profiles : Sharing(p)') /\ EndpointWithinLimit'
  <1>1. ASSUME NEW p \in Profiles PROVE Sharing(p)'
    <2> SUFFICES ASSUME NEW k \in 0..MaxJobs
                 PROVE  Cardinality({j \in LiveWithProfile(p)' : cmd'[j].limit <= k}) <= k
      BY DEF Sharing
    <2> DEFINE S == {j \in LiveWithProfile(p) : cmd[j].limit <= k}
               T == {j \in LiveWithProfile(p)' : cmd'[j].limit <= k}
    <2>1. S \in SUBSET JobIds /\ T \in SUBSET S
      BY DEF LiveWithProfile
    <2>2. Cardinality(S) <= k
      BY DEF AdmissionInv, Sharing
    <2> HIDE DEF S, T
    <2>3. Cardinality(T) <= k
      BY <2>1, <2>2, FS_Subset, AdmissionFinite
    <2> QED
      BY <2>3 DEF T
  <1>2. ASSUME NEW p \in Profiles PROVE Occupied(Endpoint[p])' <= TaskLimit[p]
    <2> DEFINE e == Endpoint[p]
               S == OnEndpoint(e)
               T == OnEndpoint(e)'
               A == CallsOn(e)
               B == CallsOn(e)'
    <2>1. S \in SUBSET JobIds /\ T \in SUBSET S
      BY DEF OnEndpoint
    <2>2. A \in SUBSET Calls /\ B \in SUBSET A
      BY DEF CallsOn
    <2>3. Cardinality(A) + Cardinality(S) <= TaskLimit[p]
      BY DEF AdmissionInv, EndpointWithinLimit, Occupied
    <2>4. Occupied(e)' = Cardinality(B) + Cardinality(T)
      BY DEF Occupied
    <2> HIDE DEF A, B, S, T
    <2>5. Cardinality(T) <= Cardinality(S) /\ Cardinality(B) <= Cardinality(A)
      BY <2>1, <2>2, FS_Subset, AdmissionFinite
    <2>6. /\ Cardinality(T) \in Nat /\ Cardinality(S) \in Nat
          /\ Cardinality(B) \in Nat /\ Cardinality(A) \in Nat /\ TaskLimit[p] \in Nat
      BY <2>1, <2>2, AdmissionFinite, BoundsAssumption, EndpointsAssumption
    <2> QED
      BY <2>3, <2>4, <2>5, <2>6
  <1> QED
    BY <1>1, <1>2 DEF EndpointWithinLimit

\* Claim leases a job only while its profile and its endpoint have room.
LEMMA LeaseWithinLimits ==
    ASSUME TypeOK, AdmissionInv, NEW j \in JobIds, HasRoom(j), cmd' = cmd, call' = call, cmd[j] \in Commands,
           \A i \in JobIds : Live(i)' => Live(i) \/ i = j
    PROVE  (\A p \in Profiles : Sharing(p)') /\ EndpointWithinLimit'
  <1>1. cmd[j].limit \in Nat
    BY CommandsAssumption DEF Command
  <1>2. ASSUME NEW p \in Profiles PROVE Sharing(p)'
    <2> SUFFICES ASSUME NEW k \in 0..MaxJobs
                 PROVE  Cardinality({i \in LiveWithProfile(p)' : cmd[i].limit <= k}) <= k
      BY DEF Sharing
    <2> DEFINE L == LiveWithProfile(p)
               S == {i \in L : cmd[i].limit <= k}
               T == {i \in LiveWithProfile(p)' : cmd[i].limit <= k}
    <2>1. L \in SUBSET JobIds /\ S \in SUBSET L /\ T \in SUBSET JobIds
      BY DEF LiveWithProfile
    <2>2. Cardinality(S) <= k
      BY DEF AdmissionInv, Sharing
    <2>3. CASE cmd[j].profile = p /\ cmd[j].limit <= k
      <3>1. Cardinality(L) < cmd[j].limit
        BY <2>3 DEF HasRoom
      <3>2. T \in SUBSET (L \cup {j})
        BY DEF LiveWithProfile
      <3> HIDE DEF L, S, T
      <3>3. Cardinality(T) <= Cardinality(L) + 1
        BY <2>1, <3>2, GrowsByOne, AdmissionFinite
      <3>4. Cardinality(L) \in Nat /\ Cardinality(T) \in Nat
        BY <2>1, AdmissionFinite, BoundsAssumption
      <3>5. Cardinality(T) <= k
        BY <1>1, <2>3, <3>1, <3>3, <3>4
      <3> QED
        BY <3>5 DEF T
    <2>4. CASE ~(cmd[j].profile = p /\ cmd[j].limit <= k)
      <3>1. T \in SUBSET S
        BY <2>4 DEF LiveWithProfile
      <3> HIDE DEF L, S, T
      <3>2. Cardinality(T) <= Cardinality(S)
        BY <2>1, <3>1, FS_Subset, AdmissionFinite
      <3>3. Cardinality(S) \in Nat /\ Cardinality(T) \in Nat
        BY <2>1, AdmissionFinite, BoundsAssumption
      <3>4. Cardinality(T) <= k
        BY <2>2, <3>2, <3>3
      <3> QED
        BY <3>4 DEF T
    <2> QED
      BY <2>3, <2>4
  <1>3. ASSUME NEW p \in Profiles PROVE Occupied(Endpoint[p])' <= TaskLimit[p]
    <2> DEFINE e == Endpoint[p]
               S == OnEndpoint(e)
               T == OnEndpoint(e)'
               A == CallsOn(e)
    <2>1. S \in SUBSET JobIds /\ T \in SUBSET (S \cup {j}) /\ T \in SUBSET JobIds /\ A \in SUBSET Calls
      BY DEF OnEndpoint, CallsOn
    <2>2. Cardinality(A) + Cardinality(S) <= TaskLimit[p] /\ Occupied(e) = Cardinality(A) + Cardinality(S)
      BY DEF AdmissionInv, EndpointWithinLimit, Occupied
    <2>3. Occupied(e)' = Cardinality(A) + Cardinality(T)
      BY DEF Occupied, CallsOn
    <2>4. \/ T \in SUBSET S
          \/ cmd[j].profile \in Profiles /\ Endpoint[cmd[j].profile] = e
      BY DEF OnEndpoint
    <2>5. cmd[j].profile \in Profiles /\ Endpoint[cmd[j].profile] = e => ~(Occupied(e) >= TaskLimit[p])
      BY DEF HasRoom, EndpointFull
    <2> HIDE DEF A, S, T, e
    <2>6. Cardinality(T) <= Cardinality(S) + 1 /\ (T \in SUBSET S => Cardinality(T) <= Cardinality(S))
      BY <2>1, GrowsByOne, FS_Subset, AdmissionFinite
    <2>7. /\ Cardinality(T) \in Nat /\ Cardinality(S) \in Nat
          /\ Cardinality(A) \in Nat /\ TaskLimit[p] \in Nat
      BY <2>1, AdmissionFinite, BoundsAssumption, EndpointsAssumption
    <2>8. Occupied(e)' <= TaskLimit[p]
      BY <2>2, <2>3, <2>4, <2>5, <2>6, <2>7
    <2> QED
      BY <2>8 DEF e
  <1> QED
    BY <1>2, <1>3 DEF EndpointWithinLimit
\* tryModelCall takes a lease on an endpoint only while it has room.
LEMMA CallWithinLimits ==
    ASSUME TypeOK, AdmissionInv, NEW c \in Calls, NEW p \in Profiles, AcquireModelCall(c, p)
    PROVE  (\A q \in Profiles : Sharing(q)') /\ EndpointWithinLimit'
  <1>1. \A q \in Profiles : LiveWithProfile(q)' = LiveWithProfile(q)
    BY DEF AcquireModelCall, LiveWithProfile, Live
  <1>2. \A q \in Profiles : Sharing(q)'
    BY <1>1 DEF AdmissionInv, Sharing, AcquireModelCall
  <1>3. ASSUME NEW q \in Profiles PROVE Occupied(Endpoint[q])' <= TaskLimit[q]
    <2> DEFINE e == Endpoint[q]
               S == OnEndpoint(e)
               A == CallsOn(e)
               B == CallsOn(e)'
    <2>1. S \in SUBSET JobIds /\ A \in SUBSET Calls /\ B \in SUBSET Calls
      BY DEF OnEndpoint, CallsOn
    <2>2. \A d \in Calls : d # c /\ call'[d].left > 0 => call'[d] = call[d]
      BY DEF AcquireModelCall, NoCall
    <2>3. B \in SUBSET (A \cup {c}) /\ (Endpoint[p] # e => B \in SUBSET A)
      BY <2>2 DEF CallsOn, AcquireModelCall
    <2>4. Cardinality(A) + Cardinality(S) <= TaskLimit[q] /\ Occupied(e) = Cardinality(A) + Cardinality(S)
      BY DEF AdmissionInv, EndpointWithinLimit, Occupied
    <2>5. Occupied(e)' = Cardinality(B) + Cardinality(S)
      BY DEF Occupied, OnEndpoint, Live, AcquireModelCall
    <2>6. Endpoint[p] = e => ~(Occupied(e) >= TaskLimit[q])
      BY DEF AcquireModelCall, EndpointFull
    <2> HIDE DEF A, B, S, e
    <2>7. Cardinality(B) <= Cardinality(A) + 1 /\ (B \in SUBSET A => Cardinality(B) <= Cardinality(A))
      BY <2>1, <2>3, GrowsByOne, FS_Subset, AdmissionFinite
    <2>8. /\ Cardinality(A) \in Nat /\ Cardinality(B) \in Nat
          /\ Cardinality(S) \in Nat /\ TaskLimit[q] \in Nat
      BY <2>1, AdmissionFinite, BoundsAssumption, EndpointsAssumption
    <2>9. Occupied(e)' <= TaskLimit[q]
      BY <2>3, <2>4, <2>5, <2>6, <2>7, <2>8
    <2> QED
      BY <2>9 DEF e
  <1> QED
    BY <1>2, <1>3 DEF EndpointWithinLimit

\* Nothing is live at first.
LEMMA AdmissionInit == Init => AdmissionInv
  <1> SUFFICES ASSUME Init PROVE AdmissionInv
    OBVIOUS
  <1>1. \A j \in JobIds : ~Live(j) /\ tx[j] = NoTx
    BY DEF Init, AbsentRow, Live, Held
  <1>2. \A c \in Calls : ~(call[c].left > 0)
    BY DEF Init, NoCall
  <1>3. Cardinality({}) = 0
    BY FS_EmptySet
  <1>4. ASSUME NEW p \in Profiles PROVE Sharing(p)
    <2>1. \A k : {j \in LiveWithProfile(p) : cmd[j].limit <= k} = {}
      BY <1>1 DEF LiveWithProfile
    <2> QED
      BY <1>3, <2>1 DEF Sharing
  <1>5. ASSUME NEW p \in Profiles PROVE Occupied(Endpoint[p]) <= TaskLimit[p]
    <2>1. CallsOn(Endpoint[p]) = {} /\ OnEndpoint(Endpoint[p]) = {}
      BY <1>1, <1>2 DEF CallsOn, OnEndpoint
    <2>2. TaskLimit[p] \in Nat
      BY EndpointsAssumption
    <2> QED
      BY <1>3, <2>1, <2>2 DEF Occupied
  <1> QED
    BY <1>1, <1>4, <1>5 DEF AdmissionInv, Prompt, EndpointWithinLimit

\* Every step keeps the limits, if no transaction outlives its lease.
LEMMA AdmissionStep ==
    ASSUME LateCommit = FALSE, TypeOK, IndInv, AdmissionInv, [Next]_vars
    PROVE  AdmissionInv'
  <1>1. \A j \in JobIds : JobInv(j) /\ job[j] \in Row /\ Prompt(j)
    BY IndInvParts DEF TypeOK, AdmissionInv
  <1> DEFINE Fewer == /\ \A j \in JobIds : Live(j)' => Live(j) /\ cmd'[j] = cmd[j]
                      /\ \A c \in Calls : call'[c].left > 0 =>
                           call[c].left > 0 /\ call'[c].endpoint = call[c].endpoint
             Timely == \A j \in JobIds : Prompt(j)'
  <1>2. Fewer /\ Timely => AdmissionInv'
    BY AdmissionFrame DEF AdmissionInv
  <1>3. ASSUME NEW c \in Commands, Enqueue(c) PROVE Fewer /\ Timely
    <2>1. PICK i \in JobIds : /\ job[i].status = "ABSENT" /\ cmd' = [cmd EXCEPT ![i] = c]
                              /\ job' = [job EXCEPT ![i] = PendingRow(c)]
      BY <1>3 DEF Enqueue
    <2>2. job'[i].status = "PENDING" /\ tx[i] = NoTx
      BY <1>1, <2>1 DEF PendingRow, AbsentRow, JobInv, TypeOK
    <2>3. \A j \in JobIds : j # i => job'[j] = job[j] /\ cmd'[j] = cmd[j]
      BY <2>1 DEF TypeOK
    <2>4. Fewer
      BY <1>3, <2>2, <2>3 DEF Live, Held, Enqueue
    <2>5. Timely
      BY <1>1, <1>3, <2>2, <2>3 DEF Prompt, Live, Enqueue
    <2> QED
      BY <2>4, <2>5
  <1>4. ASSUME NEW w \in Workers, Claim(w) PROVE AdmissionInv'
    <2>1. PICK reaped, leased \in SUBSET JobIds :
             /\ ReapAndLease(reaped, leased, w)
             /\ \A j \in reaped : Eligible(j) /\ MustReap(j)
             /\ \A j \in leased : Eligible(j) /\ ~MustReap(j)
             /\ \A i, j \in leased : i = j
      BY <1>4, ClaimSelects
    <2>2. tx' = tx /\ cmd' = cmd /\ call' = call
      BY <2>1 DEF ReapAndLease
    <2>3. \A j \in JobIds : j \notin reaped /\ j \notin leased => job'[j] = job[j]
      BY <2>1 DEF ReapAndLease
    <2>4. \A j \in reaped : job'[j].status \in {"FAILED", "CANCELLED"}
      BY <1>1, <2>1 DEF ReapAndLease, ReapedRow, CancelledRow, FinishedRow, Row
    <2>5. \A j \in reaped \cup leased : tx[j] = NoTx
      BY <2>1 DEF Eligible
    <2>6. Timely
      BY <1>1, <2>2, <2>3, <2>5 DEF Prompt, Live
    <2>7. \A j \in JobIds : Live(j)' => Live(j) \/ j \in leased
      BY <2>3, <2>4 DEF Live, Held
    <2>8. CASE leased = {}
      <3>1. Fewer
        BY <2>2, <2>7, <2>8
      <3> QED
        BY <1>2, <2>6, <3>1
    <2>9. ASSUME NEW k \in leased PROVE AdmissionInv'
      <3>1. \A j \in JobIds : Live(j)' => Live(j) \/ j = k
        BY <2>1, <2>7, <2>9
      <3>2. HasRoom(k) /\ cmd[k] \in Commands
        BY <1>1, <2>1, <2>9 DEF Eligible, Due, Expired, Held, JobInv
      <3>3. (\A p \in Profiles : Sharing(p)') /\ EndpointWithinLimit'
        BY <2>2, <2>9, <3>1, <3>2, LeaseWithinLimits
      <3> QED
        BY <2>6, <3>3 DEF AdmissionInv
    <2> QED
      BY <2>8, <2>9
  <1>5. ASSUME NEW j \in JobIds, NEW row, NEW outcome, NEW notify, NEW permit,
               Hold(j, row, outcome, notify, permit), row.status \in Held => Live(j)
        PROVE  Fewer /\ Timely
    <2>1. Fewer
      BY <1>5 DEF Hold, Live
    <2>2. ASSUME NEW i \in JobIds PROVE Prompt(i)'
      <3>1. i # j => tx'[i] = tx[i]
        BY <1>5 DEF Hold, TypeOK
      <3>2. i = j => tx'[i].row = row
        BY <1>5 DEF Hold, TypeOK
      <3> QED
        BY <1>1, <1>5, <3>1, <3>2 DEF Prompt, Live, Hold
    <2> QED
      BY <2>1, <2>2
  <1>6. \A j \in JobIds : /\ CancelledRow(job[j]).status \notin Held
                          /\ \A s \in {"SUCCEEDED", "FAILED", "RETRY_WAIT"} : \A t :
                               FinishedRow(job[j], s, t).status \notin Held
    BY <1>1 DEF CancelledRow, FinishedRow, Row, Held
  <1>7. ASSUME NEW j \in JobIds, NEW w \in Workers, NEW g \in 1..MaxAttempts, PermitStep(j, w, g)
        PROVE  Fewer /\ Timely
    <2>1. \A statuses \in SUBSET Held : lockPermit(j, w, g, statuses) => Live(j)
      BY DEF lockPermit, Live
    <2>2. CASE Heartbeat(j, w, g) \/ AssertPermit(j, w, g)
      <3>1. Live(j)
        BY <2>1, <2>2 DEF Heartbeat, AssertPermit, Held
      <3> QED
        BY <1>5, <2>2, <3>1 DEF Heartbeat, AssertPermit
    <2>3. ASSUME NEW s \in {"SUCCEEDED", "FAILED", "RETRY_WAIT"}, NEW o, NEW t, finish(j, g, s, o, t)
          PROVE  Fewer /\ Timely
      <3> DEFINE notify == s = "FAILED"
      <3>1. Hold(j, FinishedRow(job[j], s, t), o, notify, g)
        BY <2>3 DEF finish
      <3> HIDE DEF notify
      <3> QED
        BY <1>5, <1>6, <3>1
    <2>4. CASE AcknowledgeCancel(j, w, g)
      BY <1>5, <1>6, <2>4 DEF AcknowledgeCancel, cancelLocked
    <2> QED
      BY <1>7, <2>2, <2>3, <2>4 DEF PermitStep, Succeed, CompleteAcceptedResult, Retry, Fail
  <1>8. ASSUME NEW j \in JobIds, RequestCancel(j) PROVE Fewer /\ Timely
    BY <1>5, <1>6, <1>8 DEF RequestCancel, cancelLocked
  <1>9. ASSUME NEW j \in JobIds, Commit(j) PROVE Fewer /\ Timely
    <2>1. /\ job'[j] = tx[j].row /\ tx'[j] = NoTx /\ cmd' = cmd /\ call' = call
          /\ \A i \in JobIds : i # j => job'[i] = job[i] /\ tx'[i] = tx[i]
      BY <1>9 DEF Commit, TypeOK
    <2>2. Live(j)' => Live(j)
      BY <1>1, <1>9, <2>1 DEF Commit, Prompt, Live
    <2>3. Fewer
      BY <2>1, <2>2 DEF Live
    <2>4. Timely
      BY <1>1, <2>1 DEF Prompt, Live
    <2> QED
      BY <2>3, <2>4
  <1>10. ASSUME NEW j \in JobIds, Rollback(j) PROVE Fewer /\ Timely
    <2>1. /\ tx'[j] = NoTx /\ job' = job /\ cmd' = cmd /\ call' = call
          /\ \A i \in JobIds : i # j => tx'[i] = tx[i]
      BY <1>10 DEF Rollback, TypeOK
    <2> QED
      BY <1>1, <2>1 DEF Prompt, Live
  <1>11. ASSUME NEW c \in Calls, NEW p \in Profiles, AcquireModelCall(c, p) PROVE AdmissionInv'
    <2>1. Timely
      BY <1>1, <1>11 DEF AcquireModelCall, Prompt, Live
    <2> QED
      BY <1>11, <2>1, CallWithinLimits DEF AdmissionInv
  <1>12. ASSUME NEW c \in Calls, ReleaseModelCall(c) PROVE Fewer /\ Timely
    BY <1>1, <1>12 DEF ReleaseModelCall, NoCall, Prompt, Live, TypeOK
  <1>13. CASE Tick
    <2>1. \A j \in JobIds : /\ job'[j].status = job[j].status /\ job'[j].lease = Down(job[j].lease)
                            /\ job[j].lease \in Int
      <3>1. \A r \in Row : Aged(r).status = r.status /\ Aged(r).lease = Down(r.lease) /\ r.lease \in Int
        BY DEF Aged, Row, Null
      <3>2. \A j \in JobIds : job'[j] = Aged(job[j])
        BY <1>13 DEF Tick
      <3> QED
        BY <1>1, <3>1, <3>2
    <2>2. \A c \in Calls : /\ call'[c].left = Down(call[c].left) /\ call[c].left \in Nat
                           /\ call'[c].endpoint = call[c].endpoint
      BY <1>13 DEF Tick, TypeOK
    <2>3. Fewer
      BY <1>13, <2>1, <2>2 DEF Tick, Live, Down
    <2>4. ASSUME NEW j \in JobIds, tx'[j] # NoTx, tx'[j].row.status \in Held PROVE Live(j)'
      <3>1. tx[j] # NoTx /\ tx[j] \in Transaction /\ tx'[j] = [tx[j] EXCEPT !.row = Aged(tx[j].row)]
        BY <1>13, <2>4 DEF Tick, TypeOK
      <3>2. tx'[j].row.status = tx[j].row.status
        BY <3>1 DEF Transaction, Aged, Row
      <3>3. Live(j) /\ job[j].lease # 1
        BY <1>1, <1>13, <2>4, <3>1, <3>2 DEF Prompt, Tick
      <3> QED
        BY <2>1, <3>3 DEF Live, Down
    <2>5. Timely
      BY <2>4 DEF Prompt
    <2> QED
      BY <1>2, <2>3, <2>5
  <1>14. CASE UNCHANGED vars
    <2>1. Fewer /\ Timely
      BY <1>1, <1>14 DEF vars, Prompt, Live
    <2> QED
      BY <1>2, <2>1
  <1> QED
    BY <1>2, <1>3, <1>4, <1>7, <1>8, <1>9, <1>10, <1>11, <1>12, <1>13, <1>14 DEF Next

\* Admission keeps its limits for every number of jobs, calls, profiles and
\* endpoints, provided that no transaction is committed after its lease has
\* expired (Claim, tryModelCall).
THEOREM Admission ==
    ASSUME LateCommit = FALSE
    PROVE  Spec => []AdmissionWithinLimits
  <1>1. TypeOK /\ IndInv /\ AdmissionInv /\ [Next]_vars => AdmissionInv'
    BY AdmissionStep
  <1>2. TypeOK /\ IndInv /\ AdmissionInv => AdmissionWithinLimits
    <2> SUFFICES ASSUME TypeOK, IndInv, AdmissionInv, NEW p \in Profiles, LiveWithProfile(p) # {}
                 PROVE  \E j \in LiveWithProfile(p) : Cardinality(LiveWithProfile(p)) <= cmd[j].limit
      BY DEF AdmissionWithinLimits, AdmissionInv, ProfileWithinLimit
    <2> DEFINE L == LiveWithProfile(p)
               n == Cardinality(L)
    <2>1. L \in SUBSET JobIds /\ \A j \in L : cmd[j].limit \in Nat
      <3>1. \A j \in L : j \in JobIds /\ job[j].status # "ABSENT"
        BY DEF LiveWithProfile, Live, Held
      <3>2. \A j \in L : cmd[j] \in Commands
        BY <3>1, IndInvParts DEF JobInv
      <3> QED
        BY <3>1, <3>2, CommandsAssumption DEF Command
    <2>2. n \in 0..MaxJobs /\ n # 0
      BY <2>1, AdmissionFinite, FS_EmptySet
    <2> SUFFICES ASSUME \A j \in L : ~(n <= cmd[j].limit) PROVE FALSE
      OBVIOUS
    <2> DEFINE S == {j \in L : cmd[j].limit <= n - 1}
    <2> HIDE DEF n, L
    <2>3. S = L
      BY <2>1, <2>2
    <2>4. n - 1 \in 0..MaxJobs
      BY <2>2, BoundsAssumption
    <2>5. Cardinality(S) <= n - 1
      BY <2>4 DEF AdmissionInv, Sharing, L
    <2>6. n = Cardinality(L) /\ n \in Nat
      BY <2>2, BoundsAssumption DEF n
    <2> HIDE DEF S
    <2> QED
      BY <2>3, <2>5, <2>6
  <1> QED
    BY <1>1, <1>2, AdmissionInit, TypeCorrect, QueueInvariant, PTL DEF Spec
=============================================================================
