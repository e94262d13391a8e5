-------------------------- MODULE WorkerRunnerProofs --------------------------
(***************************************************************************)
(* Proofs about module WorkerRunner: for any number of processes, jobs and *)
(* attempts, and whatever the worker IDs are, the queue keeps its          *)
(* invariant under the runner, a permit is in the hands of one process,    *)
(* only the goroutine at work runs a handler, and a job is reported        *)
(* successful only if a handler committed its result under the permit of   *)
(* the last attempt.                                                       *)
(***************************************************************************)
EXTENDS WorkerRunner, JobQueueProofs

Places == {"idle", "claimed", "executing", "draining", "accepting", "calling", "adopting"}
Whos == {"handler", "beat", "main", "operator", "nobody"}

(***************************************************************************)
(* The inductive invariant.  A permit was issued to its holder's worker ID *)
(* and is not newer than its job; a transaction of the main goroutine is   *)
(* the one its process waits for; what a handler returned as accepted was  *)
(* accepted; and a transaction about to report success rests on it.        *)
(***************************************************************************)
LocalTypes ==
    /\ at \in [Processes -> Places]
    /\ permit \in [Processes -> Permits \cup {NoPermit}]
    /\ beat \in [Processes -> {"none", "ticking", "failed"}]
    /\ handler \in [Processes -> [Permits -> Results \cup {"none", "running", "stopped"}]]
    /\ accepted \subseteq Permits
    /\ by \in [JobIds -> [process : Processes \cup {NoProcess}, who : Whos]]
    /\ crashes \in 0..MaxCrashes

PermitsIssued ==
    /\ \A p \in Processes : at[p] # "idle" => permit[p] # NoPermit
    /\ \A p \in Processes : permit[p] # NoPermit =>
         /\ GenOf(p) <= job[JobOf(p)].gen
         /\ attempt[JobOf(p)][GenOf(p)].worker = WorkerOf[p]
    /\ \A p, r \in Processes : p # r /\ permit[p] # NoPermit => permit[p] # permit[r]

Openers ==
    /\ \A j \in JobIds : tx[j] = NoTx => by[j] = Nobody
    /\ \A j \in JobIds : by[j].who \in {"handler", "beat", "main"} => by[j].process \in Processes
    /\ \A j \in JobIds : by[j].who = "handler" => tx[j].permit \in 1..MaxAttempts
    /\ \A j \in JobIds : by[j].who = "main" => at[by[j].process] = "calling" /\ JobOf(by[j].process) = j

HandlersAtWork ==
    \A p \in Processes, q \in Permits :
      /\ handler[p][q] = "running" => at[p] = "executing" /\ permit[p] = q
      /\ handler[p][q] = "ok" => q \in accepted

SuccessesRest ==
    \A j \in JobIds :
      /\ job[j].status = "SUCCEEDED" => <<j, job[j].gen>> \in accepted
      /\ tx[j] # NoTx /\ tx[j].row.status = "SUCCEEDED" => <<j, tx[j].row.gen>> \in accepted

RunnerInv ==
    TypeOK /\ IndInv /\ LocalTypes /\ PermitsIssued /\ Openers /\ HandlersAtWork /\ SuccessesRest

-----------------------------------------------------------------------------
(***************************************************************************)
(* What a step of the queue does to permits and successes.                 *)
(***************************************************************************)
\* Generations grow, the rows of issued permits keep their worker, and a
\* success comes from a transaction.
Settles(j) ==
    /\ job[j].gen <= job'[j].gen
    /\ \A g \in 1..MaxAttempts : g <= job[j].gen => attempt'[j][g].worker = attempt[j][g].worker
    /\ job'[j].status = "SUCCEEDED" =>
         \/ job[j].status = "SUCCEEDED" /\ job'[j].gen = job[j].gen
         \/ tx[j] # NoTx /\ tx[j].row.status = "SUCCEEDED" /\ job'[j].gen = tx[j].row.gen

\* No transaction is opened that is about to report success.
Quiet(j) ==
    tx'[j] # NoTx /\ tx'[j].row.status = "SUCCEEDED" =>
        tx[j] # NoTx /\ tx[j].row.status = "SUCCEEDED" /\ tx'[j].row.gen = tx[j].row.gen

LEMMA StaysSettled ==
    ASSUME TypeOK, NEW j \in JobIds, job'[j].gen = job[j].gen,
           job'[j].status = job[j].status \/ job'[j].status # "SUCCEEDED",
           attempt'[j] = attempt[j]
    PROVE  Settles(j)
  BY DEF Settles, TypeOK, Row

LEMMA CloseAttemptWorker ==
    ASSUME TypeOK, NEW j \in JobIds, NEW o
    PROVE  \A g \in 1..MaxAttempts : CloseAttempt(j, o)[g].worker = attempt[j][g].worker
  <1> DEFINE a == attempt[j]
             h == job[j].gen
  <1>1. a \in [1..MaxAttempts -> Attempt]
    BY DEF TypeOK
  <1>2. CloseAttempt(j, o) = [a EXCEPT ![h] = [a[h] EXCEPT !.outcome = o]]
    BY DEF CloseAttempt
  <1>3. \A g \in 1..MaxAttempts : [a[g] EXCEPT !.outcome = o].worker = a[g].worker
    BY <1>1 DEF Attempt
  <1> HIDE DEF a, h
  <1>4. \A g \in 1..MaxAttempts : CloseAttempt(j, o)[g] = IF g = h THEN [a[h] EXCEPT !.outcome = o] ELSE a[g]
    BY <1>1, <1>2
  <1>5. \A g \in 1..MaxAttempts : CloseAttempt(j, o)[g].worker = a[g].worker
    BY <1>3, <1>4
  <1> QED
    BY <1>5 DEF a

LEMMA EnqueueMove ==
    ASSUME TypeOK, IndInv, NEW c \in Commands, Enqueue(c)
    PROVE  \A j \in JobIds : Settles(j) /\ Quiet(j)
  <1>1. PICK i \in JobIds : job[i].status = "ABSENT" /\ job' = [job EXCEPT ![i] = PendingRow(c)]
    BY DEF Enqueue
  <1>2. UNCHANGED <<attempt, tx>>
    BY DEF Enqueue
  <1>3. PendingRow(c).gen = 0 /\ PendingRow(c).status = "PENDING" /\ AbsentRow.gen = 0
    BY DEF PendingRow, AbsentRow
  <1>4. job[i].gen = 0
    BY <1>1, <1>3 DEF IndInv
  <1>5. job'[i] = PendingRow(c) /\ \A j \in JobIds \ {i} : job'[j] = job[j]
    BY <1>1 DEF TypeOK
  <1>6. \A j \in JobIds : Settles(j)
    <2> TAKE j \in JobIds
    <2>1. job'[j].gen = job[j].gen /\ (job'[j].status = job[j].status \/ job'[j].status # "SUCCEEDED")
      BY <1>3, <1>4, <1>5
    <2> QED
      BY <1>2, <2>1, StaysSettled
  <1> QED
    BY <1>2, <1>6 DEF Quiet

LEMMA ClaimMove ==
    ASSUME TypeOK, IndInv, NEW w \in Workers, Claim(w)
    PROVE  \A j \in JobIds : Settles(j) /\ Quiet(j)
  <1>1. PICK reaped, leased \in SUBSET JobIds :
          /\ ReapAndLease(reaped, leased, w)
          /\ \A j \in reaped : Eligible(j) /\ MustReap(j)
          /\ \A j \in leased : Eligible(j) /\ ~MustReap(j)
    BY ClaimSelects
  <1>2. UNCHANGED tx
    BY <1>1 DEF ReapAndLease
  <1> SUFFICES ASSUME NEW j \in JobIds PROVE Settles(j)
    BY <1>2 DEF Quiet
  <1>3. job[j] \in Row /\ job[j].gen \in Nat
    BY DEF TypeOK, Row
  <1>4. CASE j \in reaped
    <2>1. job'[j] = ReapedRow(j) /\ attempt'[j] = ReapedAttempts(j)
      BY <1>1, <1>4 DEF ReapAndLease
    <2>2. ReapedRow(j).gen = job[j].gen /\ ReapedRow(j).status # "SUCCEEDED"
      BY <1>3 DEF ReapedRow, CancelledRow, FinishedRow, Row
    <2>3. \A g \in 1..MaxAttempts : ReapedAttempts(j)[g].worker = attempt[j][g].worker
      BY CloseAttemptWorker DEF ReapedAttempts
    <2> QED
      BY <1>3, <2>1, <2>2, <2>3 DEF Settles
  <1>5. CASE j \in leased /\ j \notin reaped
    <2> DEFINE old == IF job[j].status = "LEASED" THEN CloseAttempt(j, "LEASE_EXPIRED") ELSE attempt[j]
    <2>1. job'[j] = LeasedRow(job[j], w) /\ attempt'[j] = ClaimedAttempts(j, w)
      BY <1>1, <1>5 DEF ReapAndLease
    <2>2. LeasedRow(job[j], w).gen = job[j].gen + 1 /\ LeasedRow(job[j], w).status = "LEASED"
      BY <1>3 DEF LeasedRow, Row
    <2>3. \A g \in 1..MaxAttempts : old[g].worker = attempt[j][g].worker
      BY CloseAttemptWorker
    <2>4. old \in [1..MaxAttempts -> Attempt]
      BY CloseAttemptType DEF Outcomes, TypeOK
    <2>5. ClaimedAttempts(j, w) = [old EXCEPT ![job[j].gen + 1] = [worker |-> w, outcome |-> "OPEN"]]
      BY DEF ClaimedAttempts
    <2> HIDE DEF old
    <2>6. \A g \in 1..MaxAttempts : g <= job[j].gen => ClaimedAttempts(j, w)[g].worker = attempt[j][g].worker
      BY <1>3, <2>3, <2>4, <2>5
    <2> QED
      BY <1>3, <2>1, <2>2, <2>6 DEF Settles
  <1>6. CASE j \notin leased /\ j \notin reaped
    <2>1. job'[j] = job[j] /\ attempt'[j] = attempt[j]
      BY <1>1, <1>6 DEF ReapAndLease
    <2> QED
      BY <2>1, StaysSettled
  <1> QED
    BY <1>4, <1>5, <1>6

\* A transaction is opened on row j that is going to write this version.
Opens(j, row, g) ==
    /\ job' = job /\ \A i \in JobIds : Settles(i)
    /\ tx'[j] # NoTx /\ tx'[j].row = row /\ tx'[j].permit = g
    /\ \A i \in JobIds \ {j} : tx'[i] = tx[i]

LEMMA HoldMove ==
    ASSUME TypeOK, NEW j \in JobIds, NEW row \in Row, NEW outcome \in Outcomes \cup {"OPEN", "NONE"},
           NEW notify \in BOOLEAN, NEW g \in Nat, Hold(j, row, outcome, notify, g)
    PROVE  Opens(j, row, g)
  <1>1. UNCHANGED <<job, attempt>>
    BY DEF Hold
  <1>2. \A i \in JobIds : Settles(i)
    BY <1>1, StaysSettled
  <1>3. tx' = [tx EXCEPT ![j] = [row |-> row, outcome |-> outcome, notify |-> notify, permit |-> g]]
    BY DEF Hold
  <1>4. \A i \in JobIds \ {j} : tx'[i] = tx[i]
    BY <1>3 DEF TypeOK
  <1>5. tx'[j] # NoTx /\ tx'[j].row = row /\ tx'[j].permit = g
    <2> DEFINE t == [row |-> row, outcome |-> outcome, notify |-> notify, permit |-> g]
    <2>1. t \in Transaction /\ t.row = row /\ t.permit = g
      BY DEF Transaction
    <2>2. tx'[j] = t
      BY <1>3 DEF TypeOK
    <2> QED
      BY <2>1, <2>2, NullsAssumption
  <1> QED
    BY <1>1, <1>2, <1>4, <1>5 DEF Opens

LEMMA CommitMove ==
    ASSUME TypeOK, IndInv, NEW j \in JobIds, Commit(j)
    PROVE  /\ \A i \in JobIds : Settles(i) /\ Quiet(i)
           /\ tx'[j] = NoTx /\ \A i \in JobIds \ {j} : tx'[i] = tx[i]
  <1>1. tx[j] # NoTx /\ TransactionSound(j) /\ tx[j] \in Transaction
    BY DEF Commit, IndInv, TypeOK
  <1>2. /\ job'[j] = tx[j].row /\ tx'[j] = NoTx
        /\ \A i \in JobIds \ {j} : job'[i] = job[i] /\ tx'[i] = tx[i] /\ attempt'[i] = attempt[i]
    BY DEF Commit, TypeOK
  <1>3. \A g \in 1..MaxAttempts : attempt'[j][g].worker = attempt[j][g].worker
    <2>1. attempt'[j] = attempt[j] \/ attempt'[j] = CloseAttempt(j, tx[j].outcome)
      BY DEF Commit, TypeOK
    <2> QED
      BY <2>1, CloseAttemptWorker
  <1>4. tx[j].row.gen = job[j].gen /\ job[j].gen \in Nat
    BY <1>1 DEF TransactionSound, TypeOK, Row
  <1>5. Settles(j)
    BY <1>1, <1>2, <1>3, <1>4 DEF Settles
  <1>6. \A i \in JobIds \ {j} : Settles(i)
    BY <1>2, StaysSettled
  <1> QED
    BY <1>2, <1>5, <1>6 DEF Quiet

\* Transactions are rolled back, of one goroutine or of a process that died.
LEMMA RollbackMove ==
    ASSUME TypeOK, UNCHANGED <<cmd, job, attempt, call, notified>>, \A j \in JobIds : tx'[j] \in {NoTx, tx[j]}
    PROVE  \A j \in JobIds : Settles(j) /\ Quiet(j)
  <1>1. \A j \in JobIds : Settles(j)
    BY StaysSettled
  <1> QED
    BY <1>1 DEF Quiet

LEMMA TickMove ==
    ASSUME TypeOK, Tick
    PROVE  \A j \in JobIds : /\ Settles(j) /\ Quiet(j) /\ (tx'[j] = NoTx => tx[j] = NoTx)
                              /\ tx'[j].permit = tx[j].permit
  <1> SUFFICES ASSUME NEW j \in JobIds
               PROVE  /\ Settles(j) /\ Quiet(j) /\ (tx'[j] = NoTx => tx[j] = NoTx)
                      /\ tx'[j].permit = tx[j].permit
    OBVIOUS
  <1>1. \A r \in Row : Aged(r).status = r.status /\ Aged(r).gen = r.gen
    BY DEF Aged, Row
  <1>2. job'[j] = Aged(job[j]) /\ attempt' = attempt /\ job[j] \in Row
    BY DEF Tick, TypeOK
  <1>3. Settles(j)
    BY <1>1, <1>2, StaysSettled
  <1>4. CASE tx[j] = NoTx
    <2>1. tx'[j] = NoTx
      BY <1>4 DEF Tick
    <2> QED
      BY <1>3, <1>4, <2>1 DEF Quiet
  <1>5. CASE tx[j] # NoTx
    <2>1. tx'[j] = [tx[j] EXCEPT !.row = Aged(@)] /\ tx[j] \in Transaction
      BY <1>5 DEF Tick, TypeOK
    <2>2. tx'[j].row = Aged(tx[j].row) /\ tx[j].row \in Row /\ tx'[j].permit = tx[j].permit
      BY <2>1 DEF Transaction
    <2>3. tx'[j] \in Transaction
      BY <2>1, <2>2, RowVersions DEF Transaction
    <2> QED
      BY <1>1, <1>3, <1>5, <2>2, <2>3, NullsAssumption DEF Quiet
  <1> QED
    BY <1>4, <1>5

\* A transaction under a permit keeps the generation, and reports success only
\* when it completes an accepted result.
LEMMA HeldBy ==
    ASSUME TypeOK, NEW j \in JobIds, NEW w \in Workers, NEW g \in 1..MaxAttempts,
           \/ Heartbeat(j, w, g) \/ AssertPermit(j, w, g)
           \/ CompleteAcceptedResult(j, w, g) /\ <<j, g>> \in accepted
           \/ Fail(j, w, g) \/ (\E delay \in RetryDelays : Retry(j, w, g, delay)) \/ AcknowledgeCancel(j, w, g)
    PROVE  /\ tx[j] = NoTx /\ job[j].gen = g
           /\ \E row \in Row, outcome \in Outcomes \cup {"OPEN", "NONE"}, notify \in BOOLEAN :
                /\ Hold(j, row, outcome, notify, g) /\ row.gen = g
                /\ row.status = "SUCCEEDED" => <<j, g>> \in accepted
  <1> DEFINE Goal == \E row \in Row, outcome \in Outcomes \cup {"OPEN", "NONE"}, notify \in BOOLEAN :
                       /\ Hold(j, row, outcome, notify, g) /\ row.gen = g
                       /\ row.status = "SUCCEEDED" => <<j, g>> \in accepted
  <1>1. tx[j] = NoTx /\ job[j].gen = g /\ job[j] \in Row
    BY DEF Heartbeat, AssertPermit, CompleteAcceptedResult, Fail, Retry, AcknowledgeCancel, lockPermit, TypeOK
  <1>2. CASE Heartbeat(j, w, g)
    <2> DEFINE row == [job[j] EXCEPT !.lease = LeaseFor]
    <2>1. row \in Row /\ row.gen = g /\ row.status = job[j].status
      BY <1>1, RowVersions DEF Row
    <2>2. Hold(j, row, "OPEN", FALSE, g) /\ job[j].status = "LEASED"
      BY <1>2 DEF Heartbeat, lockPermit
    <2> HIDE DEF row
    <2>3. Goal
      BY <2>1, <2>2
    <2> QED
      BY <1>1, <2>3
  <1>3. CASE AssertPermit(j, w, g)
    <2>1. Hold(j, job[j], "OPEN", FALSE, g) /\ job[j].status = "LEASED"
      BY <1>3 DEF AssertPermit, lockPermit
    <2>2. Goal
      BY <1>1, <2>1
    <2> QED
      BY <1>1, <2>2
  <1>4. ASSUME NEW status \in {"SUCCEEDED", "FAILED", "RETRY_WAIT"}, NEW outcome \in Outcomes,
               NEW wait \in Nat \cup {Null}, finish(j, g, status, outcome, wait),
               status = "SUCCEEDED" => <<j, g>> \in accepted
        PROVE  Goal
    <2> DEFINE row == FinishedRow(job[j], status, wait)
    <2>1. row \in Row
      BY <1>1, RowVersions DEF Active, Terminal
    <2>2. row.gen = g /\ row.status = status
      BY <1>1 DEF FinishedRow, Row
    <2>3. Hold(j, row, outcome, status = "FAILED", g) /\ (status = "FAILED") \in BOOLEAN
      BY <1>4 DEF finish
    <2> HIDE DEF row
    <2> QED
      BY <1>4, <2>1, <2>2, <2>3
  <1> HIDE DEF Goal
  <1>5. {"SUCCEEDED", "FAILED", "RETRY"} \subseteq Outcomes /\ Null \in Nat \cup {Null}
        /\ \A d \in RetryDelays : d \in Nat \cup {Null}
    BY BoundsAssumption DEF Outcomes
  <1>6. CASE CompleteAcceptedResult(j, w, g) /\ <<j, g>> \in accepted
    <2>1. Goal
      BY <1>4, <1>5, <1>6 DEF CompleteAcceptedResult
    <2> QED
      BY <1>1, <2>1 DEF Goal
  <1>7. CASE Fail(j, w, g)
    <2>1. Goal
      BY <1>4, <1>5, <1>7 DEF Fail
    <2> QED
      BY <1>1, <2>1 DEF Goal
  <1>8. ASSUME NEW delay \in RetryDelays, Retry(j, w, g, delay) PROVE Goal
    BY <1>4, <1>5, <1>8 DEF Retry
  <1>9. CASE AcknowledgeCancel(j, w, g)
    <2> DEFINE row == CancelledRow(job[j])
    <2>1. row \in Row
      BY <1>1, RowVersions
    <2>2. row.gen = g /\ row.status = "CANCELLED"
      BY <1>1 DEF CancelledRow, Row
    <2>3. Hold(j, row, "CANCELLED", TRUE, g) /\ "CANCELLED" \in Outcomes
      BY <1>9 DEF AcknowledgeCancel, cancelLocked, Outcomes
    <2> HIDE DEF row
    <2>4. Goal
      BY <2>1, <2>2, <2>3 DEF Goal
    <2> QED
      BY <1>1, <2>4 DEF Goal
  <1> QED
    BY <1>1, <1>2, <1>3, <1>6, <1>7, <1>8, <1>9 DEF Goal

\* A cancellation reports no success.
LEMMA HeldByCancel ==
    ASSUME TypeOK, NEW j \in JobIds, RequestCancel(j)
    PROVE  /\ tx[j] = NoTx
           /\ \E row \in Row, outcome \in Outcomes \cup {"OPEN", "NONE"}, notify \in BOOLEAN :
                Hold(j, row, outcome, notify, 0) /\ row.status # "SUCCEEDED"
  <1> DEFINE Goal == \E row \in Row, outcome \in Outcomes \cup {"OPEN", "NONE"}, notify \in BOOLEAN :
                       Hold(j, row, outcome, notify, 0) /\ row.status # "SUCCEEDED"
  <1>1. tx[j] = NoTx /\ job[j] \in Row
    BY DEF RequestCancel, TypeOK
  <1>2. ASSUME NEW f \in BOOLEAN, cancelLocked(j, 0, f) PROVE Goal
    <2> DEFINE row == CancelledRow(job[j])
               outcome == IF f THEN "CANCELLED" ELSE "NONE"
    <2>1. row \in Row
      BY <1>1, RowVersions
    <2>2. row.status = "CANCELLED" /\ outcome \in Outcomes \cup {"OPEN", "NONE"}
      BY <1>1 DEF CancelledRow, Row, Outcomes
    <2>3. Hold(j, row, outcome, TRUE, 0)
      BY <1>2 DEF cancelLocked
    <2> HIDE DEF row, outcome
    <2> QED
      BY <2>1, <2>2, <2>3
  <1>3. CASE Hold(j, [job[j] EXCEPT !.status = "CANCEL_REQUESTED"], "OPEN", FALSE, 0)
    <2> DEFINE row == [job[j] EXCEPT !.status = "CANCEL_REQUESTED"]
    <2>1. row \in Row /\ row.status = "CANCEL_REQUESTED"
      BY <1>1, RowVersions DEF Row
    <2>2. Hold(j, row, "OPEN", FALSE, 0)
      BY <1>3
    <2> HIDE DEF row
    <2>3. Goal
      BY <2>1, <2>2
    <2> QED
      BY <1>1, <2>3
  <1> HIDE DEF Goal
  <1>4. Goal
    BY <1>2, <1>3 DEF RequestCancel, Goal
  <1> QED
    BY <1>1, <1>4 DEF Goal

-----------------------------------------------------------------------------
(***************************************************************************)
(* What a step of the runner leaves alone.                                 *)
(***************************************************************************)
\* The permit of a process that is not idle is one the queue issued to it.
LEMMA PermitOf ==
    ASSUME RunnerInv, NEW p \in Processes, permit[p] # NoPermit
    PROVE  /\ JobOf(p) \in JobIds /\ GenOf(p) \in 1..MaxAttempts /\ WorkerOf[p] \in Workers
           /\ permit[p] = <<JobOf(p), GenOf(p)>> /\ permit[p] \in Permits
           /\ Issued(JobOf(p), WorkerOf[p], GenOf(p))
  <1>1. permit[p] \in Permits
    BY DEF RunnerInv, LocalTypes
  <1>2. JobOf(p) \in JobIds /\ GenOf(p) \in 1..MaxAttempts /\ permit[p] = <<JobOf(p), GenOf(p)>>
    BY <1>1 DEF JobOf, GenOf, Permits
  <1>3. WorkerOf[p] \in Workers
    BY ProcessesAssumption
  <1>4. Issued(JobOf(p), WorkerOf[p], GenOf(p))
    BY <1>2 DEF RunnerInv, PermitsIssued, Issued
  <1> QED
    BY <1>1, <1>2, <1>3, <1>4

\* Permits are kept or given up.
LEMMA PermitsFrame ==
    ASSUME RunnerInv, \A j \in JobIds : Settles(j), \A j \in JobIds : job'[j].gen \in Nat,
           \A p \in Processes : permit'[p] \in {permit[p], NoPermit},
           \A p \in Processes : at'[p] # "idle" => permit'[p] # NoPermit
    PROVE  PermitsIssued'
  <1>1. ASSUME NEW p \in Processes, permit'[p] # NoPermit
        PROVE  /\ permit'[p][2] <= job'[permit'[p][1]].gen
               /\ attempt'[permit'[p][1]][permit'[p][2]].worker = WorkerOf[p]
    <2> DEFINE j == permit[p][1]
               g == permit[p][2]
    <2>1. permit'[p] = permit[p] /\ permit[p] # NoPermit
      BY <1>1
    <2>2. j \in JobIds /\ g \in 1..MaxAttempts
      BY <2>1, PermitOf DEF JobOf, GenOf
    <2>3. g <= job[j].gen /\ attempt[j][g].worker = WorkerOf[p]
      BY <2>1 DEF RunnerInv, PermitsIssued, JobOf, GenOf
    <2>4. job[j].gen \in Nat /\ job'[j].gen \in Nat
      BY <2>2 DEF RunnerInv, TypeOK, Row
    <2> HIDE DEF j, g
    <2>5. g <= job'[j].gen /\ attempt'[j][g].worker = WorkerOf[p]
      BY <2>2, <2>3, <2>4 DEF Settles
    <2> QED
      BY <2>1, <2>5 DEF j, g
  <1>2. \A p, r \in Processes : p # r /\ permit'[p] # NoPermit => permit'[p] # permit'[r]
    BY DEF RunnerInv, PermitsIssued
  <1> QED
    BY <1>1, <1>2 DEF PermitsIssued, JobOf, GenOf

LEMMA SuccessFrame ==
    ASSUME RunnerInv, \A j \in JobIds : Settles(j) /\ Quiet(j), accepted \subseteq accepted'
    PROVE  SuccessesRest'
  <1> SUFFICES ASSUME NEW j \in JobIds
               PROVE  /\ job'[j].status = "SUCCEEDED" => <<j, job'[j].gen>> \in accepted'
                      /\ tx'[j] # NoTx /\ tx'[j].row.status = "SUCCEEDED" => <<j, tx'[j].row.gen>> \in accepted'
    BY DEF SuccessesRest
  <1>1. /\ job[j].status = "SUCCEEDED" => <<j, job[j].gen>> \in accepted
        /\ tx[j] # NoTx /\ tx[j].row.status = "SUCCEEDED" => <<j, tx[j].row.gen>> \in accepted
    BY DEF RunnerInv, SuccessesRest
  <1> QED
    BY <1>1 DEF Settles, Quiet

\* Every step of the queue keeps its invariant.
LEMMA QueueKeeps ==
    ASSUME RunnerInv, [Next]_vars
    PROVE  TypeOK' /\ IndInv' /\ \A j \in JobIds : job'[j].gen \in Nat
  <1>1. TypeOK' /\ IndInv'
    BY StepType, StepInv DEF RunnerInv
  <1> QED
    BY <1>1 DEF TypeOK, Row

\* A step of one process that does not touch the queue.
LEMMA LocalStep ==
    ASSUME RunnerInv, NEW p \in Processes, UNCHANGED queue, UNCHANGED <<accepted, by>>, LocalTypes',
           \A r \in Processes \ {p} : at'[r] = at[r] /\ permit'[r] = permit[r] /\ handler'[r] = handler[r],
           permit'[p] \in {permit[p], NoPermit}, at'[p] # "idle" => permit'[p] # NoPermit,
           at[p] # "calling" \/ (at'[p] = at[p] /\ permit'[p] = permit[p]),
           \A q \in Permits : /\ handler'[p][q] = "running" => at'[p] = "executing" /\ permit'[p] = q
                              /\ handler'[p][q] = "ok" => q \in accepted
    PROVE  RunnerInv'
  <1>1. UNCHANGED <<cmd, job, attempt, tx, call, notified>>
    BY DEF queue
  <1>2. TypeOK' /\ IndInv' /\ \A j \in JobIds : job'[j].gen \in Nat
    BY <1>1, QueueKeeps DEF vars
  <1>3. \A j \in JobIds : Settles(j) /\ Quiet(j)
    BY <1>1, StaysSettled DEF Quiet, RunnerInv
  <1>4. PermitsIssued'
    BY <1>2, <1>3, PermitsFrame DEF RunnerInv, PermitsIssued
  <1>5. SuccessesRest'
    BY <1>3, SuccessFrame
  <1>6. Openers'
    BY <1>1 DEF RunnerInv, Openers, JobOf
  <1>7. HandlersAtWork'
    BY DEF RunnerInv, HandlersAtWork
  <1> QED
    BY <1>2, <1>4, <1>5, <1>6, <1>7 DEF RunnerInv

\* A goroutine of a process, or an operator, opens a transaction.
LEMMA OpenStep ==
    ASSUME RunnerInv, [Next]_vars, NEW p \in Processes \cup {NoProcess}, NEW who \in Whos,
           who \in {"handler", "beat", "main"} => p \in Processes,
           NEW j \in JobIds, tx[j] = NoTx,
           NEW row \in Row, NEW g \in Nat, Opens(j, row, g), who = "handler" => g \in 1..MaxAttempts,
           row.status = "SUCCEEDED" => <<j, row.gen>> \in accepted,
           by' = [by EXCEPT ![j] = Opener(p, who)], UNCHANGED <<permit, beat, handler, accepted, crashes>>,
           \/ at' = at /\ who # "main"
           \/ /\ p \in Processes /\ at[p] \in {"accepting", "adopting"} /\ JobOf(p) = j
              /\ at' = [at EXCEPT ![p] = "calling"]
    PROVE  RunnerInv'
  <1>1. TypeOK' /\ IndInv' /\ \A i \in JobIds : job'[i].gen \in Nat
    BY QueueKeeps
  <1>2. /\ \A i \in JobIds : Settles(i)
        /\ \A i \in JobIds \ {j} : tx'[i] = tx[i]
        /\ tx'[j] # NoTx /\ tx'[j].row = row
    BY DEF Opens
  <1>3. LocalTypes
    BY DEF RunnerInv
  <1>4. \A r \in Processes : at'[r] = at[r] \/ (at[r] \in {"accepting", "adopting"} /\ at'[r] = "calling")
    BY <1>3 DEF LocalTypes
  <1>5. LocalTypes'
    BY <1>3 DEF LocalTypes, Opener, Places
  <1>6. PermitsIssued'
    <2>1. \A r \in Processes : at'[r] # "idle" => permit'[r] # NoPermit
      BY <1>4 DEF RunnerInv, PermitsIssued
    <2> QED
      BY <1>1, <1>2, <2>1, PermitsFrame
  <1>7. Openers'
    <2>1. \A i \in JobIds \ {j} : by'[i] = by[i]
      BY <1>3 DEF LocalTypes
    <2>2. by'[j].process = p /\ by'[j].who = who
      BY <1>3 DEF LocalTypes, Opener
    <2>3. Openers
      BY DEF RunnerInv
    <2>4. \A i \in JobIds : by'[i].who \in {"handler", "beat", "main"} => by'[i].process \in Processes
      BY <2>1, <2>2, <2>3 DEF Openers
    <2>5. ASSUME NEW i \in JobIds, by'[i].who = "main"
          PROVE  at'[by'[i].process] = "calling" /\ permit'[by'[i].process][1] = i
      <3>1. CASE i = j
        BY <1>3, <2>2, <2>5, <3>1 DEF LocalTypes, JobOf
      <3>2. CASE i # j
        BY <1>4, <2>1, <2>3, <2>5, <3>2 DEF Openers, JobOf
      <3> QED
        BY <3>1, <3>2
    <2>6. \A i \in JobIds : tx'[i] = NoTx => by'[i] = Nobody
      BY <1>2, <2>1, <2>3 DEF Openers
    <2>7. \A i \in JobIds : by'[i].who = "handler" => tx'[i].permit \in 1..MaxAttempts
      BY <1>2, <2>1, <2>2, <2>3 DEF Openers, Opens
    <2> QED
      BY <2>4, <2>5, <2>6, <2>7 DEF Openers, JobOf, Nobody, Opener
  <1>8. HandlersAtWork'
    BY <1>4 DEF RunnerInv, HandlersAtWork
  <1>9. SuccessesRest'
    <2>1. SuccessesRest /\ accepted' = accepted
      BY DEF RunnerInv
    <2>2. job' = job
      BY DEF Opens
    <2> QED
      BY <1>2, <2>1, <2>2 DEF SuccessesRest
  <1> QED
    BY <1>1, <1>5, <1>6, <1>7, <1>8, <1>9 DEF RunnerInv

\* The same under the permit of the process: success is reported only for
\* what was accepted.
LEMMA PermitHoldStep ==
    ASSUME RunnerInv, NEW p \in Processes, NEW who \in {"handler", "beat", "main"},
           NEW j \in JobIds, NEW w \in Workers, NEW g \in 1..MaxAttempts, permit[p] = <<j, g>>, w = WorkerOf[p],
           \/ Heartbeat(j, w, g) \/ AssertPermit(j, w, g)
           \/ CompleteAcceptedResult(j, w, g) /\ <<j, g>> \in accepted
           \/ Fail(j, w, g) \/ (\E delay \in RetryDelays : Retry(j, w, g, delay)) \/ AcknowledgeCancel(j, w, g),
           by' = [by EXCEPT ![j] = Opener(p, who)], UNCHANGED <<permit, beat, handler, accepted, crashes>>,
           \/ at' = at /\ who # "main"
           \/ at[p] \in {"accepting", "adopting"} /\ at' = [at EXCEPT ![p] = "calling"]
    PROVE  RunnerInv'
  <1>1. JobOf(p) = j /\ GenOf(p) = g /\ g \in Nat /\ who \in Whos /\ TypeOK
    BY DEF JobOf, GenOf, Whos, RunnerInv
  <1>2. permit[p] # NoPermit
    BY DEF NoPermit, JobIds
  <1>3. Issued(j, w, g)
    BY <1>1, <1>2 DEF RunnerInv, PermitsIssued, Issued
  <1>4. [Next]_vars
    BY <1>3 DEF Next, PermitStep
  <1>5. tx[j] = NoTx
    BY <1>1, HeldBy
  <1>6. PICK row \in Row, outcome \in Outcomes \cup {"OPEN", "NONE"}, notify \in BOOLEAN :
             /\ Hold(j, row, outcome, notify, g) /\ row.gen = g
             /\ row.status = "SUCCEEDED" => <<j, g>> \in accepted
    BY <1>1, HeldBy
  <1>7. \/ at' = at /\ who # "main"
        \/ /\ p \in Processes /\ at[p] \in {"accepting", "adopting"} /\ JobOf(p) = j
           /\ at' = [at EXCEPT ![p] = "calling"]
    BY <1>1
  <1>8. row.status = "SUCCEEDED" => <<j, row.gen>> \in accepted
    BY <1>6
  <1>9. Opens(j, row, g)
    BY <1>1, <1>6, HoldMove
  <1>10. p \in Processes \cup {NoProcess} /\ (who \in {"handler", "beat", "main"} => p \in Processes)
    OBVIOUS
  <1> QED
    BY <1>1, <1>4, <1>5, <1>7, <1>8, <1>9, <1>10, OpenStep

\* One handler goroutine changes.
LEMMA HandlerChange ==
    ASSUME LocalTypes, NEW p \in Processes, NEW q \in Permits,
           NEW v \in Results \cup {"none", "running", "stopped"}, handler' = [handler EXCEPT ![p][q] = v]
    PROVE  /\ handler' \in [Processes -> [Permits -> Results \cup {"none", "running", "stopped"}]]
           /\ handler'[p][q] = v /\ \A s \in Permits \ {q} : handler'[p][s] = handler[p][s]
           /\ \A r \in Processes \ {p} : handler'[r] = handler[r]
  BY DEF LocalTypes

\* The steps of the main goroutine that do not touch the queue.
LEMMA MainLocal ==
    ASSUME RunnerInv, NEW p \in Processes,
           \/ Start(p) \/ StartStale(p) \/ StartError(p) \/ LoseHeartbeat(p) \/ TakeResult(p) \/ Drained(p)
           \/ AcceptStale(p) \/ AdoptStale(p)
    PROVE  RunnerInv'
  <1>1. LocalTypes /\ HandlersAtWork /\ PermitsIssued
    BY DEF RunnerInv
  <1>2. permit[p] \in Permits /\ permit[p] # NoPermit /\ at[p] \notin {"idle", "calling"}
    <2>1. at[p] \notin {"idle", "calling"}
      BY DEF Start, StartStale, StartError, LoseHeartbeat, TakeResult, Drained, AcceptStale, AdoptStale
    <2> QED
      BY <1>1, <2>1 DEF PermitsIssued, LocalTypes
  <1>3. UNCHANGED queue /\ UNCHANGED <<accepted, by, crashes>>
    BY DEF Start, StartStale, StartError, LoseHeartbeat, TakeResult, Drained, AcceptStale, AdoptStale
  <1>4. NoPermit \notin Permits
    BY DEF NoPermit, Permits, JobIds
  <1>5. CASE Start(p)
    <2>1. permit' = permit /\ \A r \in Processes \ {p} : at'[r] = at[r]
      BY <1>1, <1>5 DEF Start, Goto, LocalTypes
    <2>2. CASE cmd[JobOf(p)].op \in Unknown
      <3>1. at' = [at EXCEPT ![p] = "accepting"] /\ beat' = beat
            /\ handler' = [handler EXCEPT ![p][permit[p]] = "retryable"]
        BY <1>5, <2>2 DEF Start, Goto
      <3>2. LocalTypes'
        BY <1>1, <1>2, <1>3, <2>1, <3>1, HandlerChange DEF LocalTypes, Places, Results
      <3>3. /\ handler'[p][permit[p]] = "retryable" /\ at[p] = "claimed" /\ at'[p] = "accepting"
            /\ \A s \in Permits \ {permit[p]} : handler'[p][s] = handler[p][s]
            /\ \A r \in Processes \ {p} : handler'[r] = handler[r]
        BY <1>1, <1>2, <1>5, <3>1, HandlerChange DEF Start, Results, LocalTypes
      <3> QED
        BY <1>1, <1>2, <1>3, <2>1, <3>2, <3>3, LocalStep DEF HandlersAtWork
    <2>3. CASE cmd[JobOf(p)].op \notin Unknown
      <3>1. at' = [at EXCEPT ![p] = "executing"] /\ beat' = [beat EXCEPT ![p] = "ticking"]
            /\ handler' = [handler EXCEPT ![p][permit[p]] = "running"]
        BY <1>5, <2>3 DEF Start, Goto
      <3>2. LocalTypes'
        BY <1>1, <1>2, <1>3, <2>1, <3>1, HandlerChange DEF LocalTypes, Places, Results
      <3>3. /\ handler'[p][permit[p]] = "running" /\ at[p] = "claimed" /\ at'[p] = "executing"
            /\ \A s \in Permits \ {permit[p]} : handler'[p][s] = handler[p][s]
            /\ \A r \in Processes \ {p} : handler'[r] = handler[r]
        BY <1>1, <1>2, <1>5, <3>1, HandlerChange DEF Start, Results, LocalTypes
      <3> QED
        BY <1>1, <1>2, <1>3, <2>1, <3>2, <3>3, LocalStep DEF HandlersAtWork
    <2> QED
      BY <2>2, <2>3
  <1>6. ASSUME NEW where \in {"draining", "accepting", "adopting"}, Goto(p, where), UNCHANGED <<permit, handler>>,
               beat' = beat \/ beat' = [beat EXCEPT ![p] = "none"],
               at[p] # "executing" \/ handler[p][permit[p]] \in Results
        PROVE  RunnerInv'
    <2>1. LocalTypes'
      BY <1>1, <1>3, <1>6 DEF LocalTypes, Places, Goto
    <2>2. at'[p] = where /\ \A r \in Processes \ {p} : at'[r] = at[r]
      BY <1>1, <1>6 DEF LocalTypes, Goto
    <2>3. \A q \in Permits : /\ handler[p][q] # "running"
                             /\ handler[p][q] = "ok" => q \in accepted
      BY <1>1, <1>6 DEF HandlersAtWork, Results
    <2> QED
      BY <1>1, <1>2, <1>3, <1>6, <2>1, <2>2, <2>3, LocalStep
  <1>7. CASE StartStale(p) \/ TakeResult(p) \/ Drained(p) \/ AcceptStale(p)
    BY <1>6, <1>7 DEF StartStale, TakeResult, Drained, AcceptStale
  <1>8. CASE StartError(p) \/ AdoptStale(p)
    <2>1. Idle(p) /\ UNCHANGED handler /\ at[p] # "executing"
      BY <1>8 DEF StartError, AdoptStale
    <2>2. LocalTypes'
      BY <1>1, <1>3, <2>1 DEF LocalTypes, Places, Idle
    <2>3. /\ at'[p] = "idle" /\ permit'[p] = NoPermit
          /\ \A r \in Processes \ {p} : at'[r] = at[r] /\ permit'[r] = permit[r]
      BY <1>1, <2>1 DEF LocalTypes, Idle
    <2>4. \A q \in Permits : handler[p][q] # "running" /\ (handler[p][q] = "ok" => q \in accepted)
      BY <1>1, <2>1 DEF HandlersAtWork
    <2> QED
      BY <1>1, <1>2, <1>3, <2>1, <2>2, <2>3, <2>4, LocalStep
  <1>9. CASE LoseHeartbeat(p)
    <2> DEFINE v == IF handler[p][permit[p]] = "running" THEN "stopped" ELSE "none"
    <2>1. /\ UNCHANGED <<permit, beat>> /\ at' = [at EXCEPT ![p] = "adopting"] /\ at[p] = "executing"
          /\ handler' = [handler EXCEPT ![p][permit[p]] = v]
      BY <1>1, <1>2, <1>9 DEF LoseHeartbeat, Goto, LocalTypes
    <2>2. v \in {"stopped", "none"}
      OBVIOUS
    <2> HIDE DEF v
    <2>3. LocalTypes'
      BY <1>1, <1>2, <1>3, <2>1, <2>2, HandlerChange DEF LocalTypes, Places
    <2>4. /\ handler'[p][permit[p]] = v
          /\ \A s \in Permits \ {permit[p]} : handler'[p][s] = handler[p][s]
          /\ \A r \in Processes \ {p} : handler'[r] = handler[r]
      BY <1>1, <1>2, <2>1, <2>2, HandlerChange
    <2>5. at'[p] = "adopting" /\ \A r \in Processes \ {p} : at'[r] = at[r]
      BY <1>1, <2>1 DEF LocalTypes
    <2> QED
      BY <1>1, <1>2, <1>3, <2>1, <2>2, <2>3, <2>4, <2>5, LocalStep DEF HandlersAtWork
  <1> QED
    BY <1>5, <1>7, <1>8, <1>9

\* The steps of the handler and heartbeat goroutines that do not touch the queue.
LEMMA GoroutineLocal ==
    ASSUME RunnerInv, NEW p \in Processes, NEW q \in Permits,
           \/ HandlerReturn(p, q) \/ StoppedReturn(p, q)
           \/ (HandlerStale(p) /\ q = permit[p]) \/ BeatStale(p)
    PROVE  RunnerInv'
  <1>1. LocalTypes /\ HandlersAtWork /\ PermitsIssued
    BY DEF RunnerInv
  <1>2. UNCHANGED queue /\ UNCHANGED <<at, permit, accepted, by, crashes>>
    BY DEF HandlerReturn, StoppedReturn, HandlerStale, BeatStale
  <1>3. CASE BeatStale(p)
    <2>1. LocalTypes' /\ UNCHANGED handler
      BY <1>1, <1>2, <1>3 DEF LocalTypes, BeatStale
    <2> QED
      BY <1>1, <1>2, <2>1, LocalStep DEF PermitsIssued, HandlersAtWork
  <1>4. ASSUME NEW v \in Results \cup {"none"}, v = "ok" => q \in accepted,
               handler' = [handler EXCEPT ![p][q] = v], UNCHANGED beat
        PROVE  RunnerInv'
    <2>1. /\ handler' \in [Processes -> [Permits -> Results \cup {"none", "running", "stopped"}]]
          /\ handler'[p][q] = v /\ \A s \in Permits \ {q} : handler'[p][s] = handler[p][s]
          /\ \A r \in Processes \ {p} : handler'[r] = handler[r]
      BY <1>1, <1>4, HandlerChange
    <2>2. LocalTypes'
      BY <1>1, <1>2, <1>4, <2>1 DEF LocalTypes
    <2>3. v # "running"
      BY <1>4 DEF Results
    <2> QED
      BY <1>1, <1>2, <1>4, <2>1, <2>2, <2>3, LocalStep DEF PermitsIssued, HandlersAtWork
  <1>5. CASE HandlerReturn(p, q)
    BY <1>4, <1>5 DEF HandlerReturn
  <1>6. CASE StoppedReturn(p, q)
    BY <1>4, <1>6 DEF StoppedReturn
  <1>7. CASE HandlerStale(p) /\ q = permit[p]
    BY <1>4, <1>7 DEF HandlerStale, Results
  <1> QED
    BY <1>3, <1>5, <1>6, <1>7

\* A step of the queue that no process takes part in.
LEMMA QueueStep ==
    ASSUME RunnerInv, [Next]_vars, UNCHANGED local,
           \A j \in JobIds : /\ Settles(j) /\ Quiet(j) /\ (tx'[j] = NoTx => tx[j] = NoTx)
                             /\ tx'[j].permit = tx[j].permit
    PROVE  RunnerInv'
  <1>1. TypeOK' /\ IndInv' /\ \A j \in JobIds : job'[j].gen \in Nat
    BY QueueKeeps
  <1>2. UNCHANGED <<at, permit, beat, handler, accepted, by, crashes>>
    BY DEF local
  <1>3. LocalTypes' /\ HandlersAtWork'
    BY <1>2 DEF RunnerInv, LocalTypes, HandlersAtWork
  <1>4. PermitsIssued'
    BY <1>1, <1>2, PermitsFrame DEF RunnerInv, PermitsIssued
  <1>5. SuccessesRest'
    BY <1>2, SuccessFrame
  <1>6. Openers'
    BY <1>2 DEF RunnerInv, Openers, JobOf
  <1> QED
    BY <1>1, <1>3, <1>4, <1>5, <1>6 DEF RunnerInv

\* The permit that Claim issues is the first with its generation.
LEMMA PollStep ==
    ASSUME RunnerInv, NEW p \in Processes, Poll(p)
    PROVE  RunnerInv'
  <1> DEFINE w == WorkerOf[p]
  <1>1. PICK j \in JobIds :
          /\ ClaimJob(WorkerOf[p], j)
          /\ \/ at' = [at EXCEPT ![p] = "claimed"] /\ permit' = [permit EXCEPT ![p] = <<j, job[j].gen + 1>>]
             \/ UNCHANGED <<at, permit>>
    BY DEF Poll, Goto
  <1>2. w \in Workers
    BY ProcessesAssumption
  <1>3. ClaimJob(w, j)
    BY <1>1
  <1>4. UNCHANGED <<beat, handler, accepted, by, crashes>> /\ at[p] = "idle"
    BY DEF Poll
  <1> HIDE DEF w
  <1>5. Claim(w)
    BY <1>3 DEF Claim
  <1>6. [Next]_vars
    BY <1>2, <1>5 DEF Next
  <1>7. TypeOK /\ IndInv /\ LocalTypes /\ PermitsIssued /\ HandlersAtWork /\ Openers
    BY DEF RunnerInv
  <1>8. \A i \in JobIds : Settles(i) /\ Quiet(i)
    BY <1>2, <1>5, <1>7, ClaimMove
  <1>9. TypeOK' /\ IndInv' /\ \A i \in JobIds : job'[i].gen \in Nat
    BY <1>6, QueueKeeps
  <1>10. tx' = tx
    BY <1>3 DEF ClaimJob, ReapAndLease
  <1>11. CASE UNCHANGED <<at, permit>>
    BY <1>4, <1>6, <1>8, <1>10, <1>11, QueueStep DEF local
  <1>12. CASE at' = [at EXCEPT ![p] = "claimed"] /\ permit' = [permit EXCEPT ![p] = <<j, job[j].gen + 1>>]
    <2> DEFINE g == job[j].gen + 1
    <2>1. job[j].gen \in Nat /\ job[j] \in Row
      BY <1>7 DEF TypeOK, Row
    <2>2. j \notin {i \in 1..(j - 1) : Eligible(i)}
      BY DEF JobIds
    <2>3. job'[j] = LeasedRow(job[j], w) /\ attempt'[j] = ClaimedAttempts(j, w)
      BY <1>3, <2>2 DEF ClaimJob, ReapAndLease
    <2>4. job'[j].gen = g
      BY <2>1, <2>3 DEF LeasedRow, Row
    <2>5. g \in 1..MaxAttempts
      <3>1. job'[j].attempts = g /\ job'[j].status = "LEASED"
        <4>1. job'[j].gen = job'[j].attempts
          BY <1>9 DEF IndInv, AttemptLedger
        <4>2. job'[j].status = "LEASED"
          BY <2>1, <2>3 DEF LeasedRow, Row
        <4> QED
          BY <2>4, <4>1, <4>2
      <3>2. job'[j].attempts <= cmd'[j].max /\ cmd'[j] \in Commands
        BY <1>9, <3>1 DEF IndInv, RowConstraints
      <3>3. cmd'[j].max \in 1..MaxAttempts
        BY <3>2, CommandsAssumption DEF Command
      <3> QED
        BY <2>1, <3>1, <3>2, <3>3, BoundsAssumption
    <2>6. attempt'[j][g].worker = w
      <3> DEFINE old == IF job[j].status = "LEASED" THEN CloseAttempt(j, "LEASE_EXPIRED") ELSE attempt[j]
      <3>1. ClaimedAttempts(j, w) = [old EXCEPT ![g] = [worker |-> w, outcome |-> "OPEN"]]
        BY DEF ClaimedAttempts
      <3>2. old \in [1..MaxAttempts -> Attempt]
        BY <1>7, CloseAttemptType DEF Outcomes, TypeOK
      <3> HIDE DEF old, g
      <3> QED
        BY <2>3, <2>5, <3>1, <3>2
    <2> HIDE DEF g
    <2>7. /\ at'[p] = "claimed" /\ permit'[p] = <<j, g>>
          /\ \A r \in Processes \ {p} : at'[r] = at[r] /\ permit'[r] = permit[r]
      BY <1>7, <1>12 DEF LocalTypes, g
    <2>8. LocalTypes'
      <3>1. <<j, g>> \in Permits
        BY <2>5 DEF Permits
      <3>2. permit' = [permit EXCEPT ![p] = <<j, g>>]
        BY <1>12 DEF g
      <3> QED
        BY <1>4, <1>7, <1>12, <3>1, <3>2 DEF LocalTypes, Places
    <2>9. \A r \in Processes : permit[r] # <<j, g>>
      <3> SUFFICES ASSUME NEW r \in Processes, permit[r] = <<j, g>> PROVE FALSE
        OBVIOUS
      <3>1. permit[r] # NoPermit /\ permit[r][1] = j /\ permit[r][2] = g
        BY <2>5 DEF NoPermit, JobIds
      <3>2. g <= job[j].gen
        BY <1>7, <3>1 DEF PermitsIssued, JobOf, GenOf
      <3> QED
        BY <2>1, <3>2 DEF g
    <2>10. PermitsIssued'
      <3>1. ASSUME NEW r \in Processes \ {p}, permit'[r] # NoPermit
            PROVE  /\ permit'[r][2] <= job'[permit'[r][1]].gen
                   /\ attempt'[permit'[r][1]][permit'[r][2]].worker = WorkerOf[r]
        <4> DEFINE i == permit[r][1]
                   h == permit[r][2]
        <4>1. permit'[r] = permit[r] /\ permit[r] # NoPermit
          BY <2>7, <3>1
        <4>2. i \in JobIds /\ h \in 1..MaxAttempts
          BY <4>1, PermitOf DEF JobOf, GenOf
        <4>3. h <= job[i].gen /\ attempt[i][h].worker = WorkerOf[r]
          BY <1>7, <4>1 DEF PermitsIssued, JobOf, GenOf
        <4>4. job[i].gen \in Nat /\ job'[i].gen \in Nat
          BY <1>7, <1>9, <4>2 DEF TypeOK, Row
        <4> HIDE DEF i, h
        <4>5. h <= job'[i].gen /\ attempt'[i][h].worker = WorkerOf[r]
          BY <1>8, <4>2, <4>3, <4>4 DEF Settles
        <4> QED
          BY <4>1, <4>5 DEF i, h
      <3>2. /\ permit'[p][2] <= job'[permit'[p][1]].gen
            /\ attempt'[permit'[p][1]][permit'[p][2]].worker = WorkerOf[p]
        BY <1>9, <2>4, <2>5, <2>6, <2>7 DEF w, g
      <3>3. permit'[p] # NoPermit
        BY <2>7 DEF NoPermit, JobIds
      <3>4. \A r, s \in Processes : r # s /\ permit'[r] # NoPermit => permit'[r] # permit'[s]
        BY <1>7, <2>7, <2>9 DEF PermitsIssued
      <3>5. \A r \in Processes : at'[r] # "idle" => permit'[r] # NoPermit
        BY <1>7, <2>7, <3>3 DEF PermitsIssued
      <3> QED
        BY <3>1, <3>2, <3>4, <3>5 DEF PermitsIssued, JobOf, GenOf
    <2>11. Openers'
      BY <1>4, <1>7, <1>10, <2>7 DEF Openers, JobOf
    <2>12. HandlersAtWork'
      BY <1>4, <1>7, <2>7 DEF HandlersAtWork
    <2>13. SuccessesRest'
      BY <1>4, <1>8, SuccessFrame
    <2> QED
      BY <1>9, <2>8, <2>10, <2>11, <2>12, <2>13 DEF RunnerInv
  <1> QED
    BY <1>1, <1>11, <1>12

\* A transaction ends and its goroutine is told.
LEMMA EndStep ==
    ASSUME RunnerInv, NEW j \in JobIds, EndCommit(j) \/ EndRollback(j)
    PROVE  RunnerInv'
  <1> DEFINE p == by[j].process
             who == by[j].who
             q == <<j, tx[j].permit>>
  <1>1. TypeOK /\ IndInv /\ LocalTypes /\ PermitsIssued /\ HandlersAtWork /\ Openers
    BY DEF RunnerInv
  <1>2. [Next]_vars
    BY DEF EndCommit, EndRollback, Next
  <1>3. TypeOK' /\ IndInv' /\ \A i \in JobIds : job'[i].gen \in Nat
    BY <1>2, QueueKeeps
  <1>4. /\ \A i \in JobIds : Settles(i) /\ Quiet(i)
        /\ tx'[j] = NoTx /\ \A i \in JobIds \ {j} : tx'[i] = tx[i]
    <2>1. CASE Commit(j)
      BY <1>1, <2>1, CommitMove
    <2>2. CASE Rollback(j)
      <3>1. tx'[j] = NoTx /\ \A i \in JobIds \ {j} : tx'[i] = tx[i]
        BY <1>1, <2>2 DEF Rollback, TypeOK
      <3>2. UNCHANGED <<cmd, job, attempt, call, notified>> /\ \A i \in JobIds : tx'[i] \in {NoTx, tx[i]}
        BY <2>2, <3>1 DEF Rollback
      <3>3. \A i \in JobIds : Settles(i) /\ Quiet(i)
        BY <1>1, <3>2, RollbackMove
      <3> QED
        BY <3>1, <3>3
    <2> QED
      BY <2>1, <2>2 DEF EndCommit, EndRollback
  <1>5. /\ by' = [by EXCEPT ![j] = Nobody] /\ UNCHANGED crashes
        /\ accepted' = accepted \/ (who = "handler" /\ accepted' = accepted \cup {q})
        /\ handler' = handler \/ (who = "handler" /\ handler' = [handler EXCEPT ![p][q] = "retryable"])
        /\ \/ who = "main" /\ Idle(p)
           \/ who # "main" /\ UNCHANGED <<at, permit>> /\ (beat' = beat \/ beat' = [beat EXCEPT ![p] = "failed"])
    BY DEF EndCommit, EndRollback, Tell
  <1>6. /\ who \in {"handler", "beat", "main"} => p \in Processes
        /\ who = "handler" => q \in Permits
        /\ who = "main" => at[p] = "calling" /\ JobOf(p) = j
    BY <1>1 DEF Openers, Permits
  <1> HIDE DEF p, who, q
  <1>7. /\ \A r \in Processes : permit'[r] \in {permit[r], NoPermit}
        /\ \A r \in Processes : \/ at'[r] = at[r] /\ permit'[r] = permit[r]
                                \/ r = p /\ who = "main" /\ at[r] = "calling" /\ at'[r] = "idle"
    BY <1>1, <1>5, <1>6 DEF LocalTypes, Idle
  <1>8. handler' \in [Processes -> [Permits -> Results \cup {"none", "running", "stopped"}]]
        /\ \A r \in Processes, s \in Permits : handler'[r][s] \in {handler[r][s], "retryable"}
    <2>1. CASE handler' = handler
      BY <1>1, <2>1 DEF LocalTypes
    <2>2. CASE who = "handler" /\ handler' = [handler EXCEPT ![p][q] = "retryable"]
      <3>1. p \in Processes /\ q \in Permits /\ "retryable" \in Results \cup {"none", "running", "stopped"}
        BY <1>6, <2>2 DEF Results
      <3>2. /\ handler' \in [Processes -> [Permits -> Results \cup {"none", "running", "stopped"}]]
            /\ handler'[p][q] = "retryable" /\ \A s \in Permits \ {q} : handler'[p][s] = handler[p][s]
            /\ \A r \in Processes \ {p} : handler'[r] = handler[r]
        BY <1>1, <2>2, <3>1, HandlerChange
      <3> QED
        BY <3>2
    <2> QED
      BY <1>5, <2>1, <2>2
  <1>9. accepted \subseteq accepted' /\ accepted' \subseteq Permits
    BY <1>1, <1>5, <1>6 DEF LocalTypes
  <1>10. LocalTypes'
    <2>1. at' \in [Processes -> Places] /\ permit' \in [Processes -> Permits \cup {NoPermit}]
      BY <1>1, <1>5 DEF LocalTypes, Idle, Places
    <2>2. beat' \in [Processes -> {"none", "ticking", "failed"}]
      BY <1>1, <1>5 DEF LocalTypes, Idle
    <2>3. by' \in [JobIds -> [process : Processes \cup {NoProcess}, who : Whos]]
      <3>1. Nobody \in [process : Processes \cup {NoProcess}, who : Whos]
        BY DEF Nobody, Opener, Whos
      <3> QED
        BY <1>1, <1>5, <3>1 DEF LocalTypes
    <2> QED
      BY <1>1, <1>5, <1>8, <1>9, <2>1, <2>2, <2>3 DEF LocalTypes
  <1>11. PermitsIssued'
    <2>1. \A r \in Processes : at'[r] # "idle" => permit'[r] # NoPermit
      BY <1>1, <1>7 DEF PermitsIssued
    <2> QED
      BY <1>3, <1>4, <1>7, <2>1, PermitsFrame
  <1>12. Openers'
    <2>1. by'[j] = Nobody /\ Nobody.who = "nobody" /\ \A i \in JobIds \ {j} : by'[i] = by[i]
      BY <1>1, <1>5 DEF LocalTypes, Nobody, Opener
    <2>2. ASSUME NEW i \in JobIds, by'[i].who = "main"
          PROVE  at'[by'[i].process] = "calling" /\ permit'[by'[i].process][1] = i
      <3>1. i # j /\ by'[i] = by[i]
        BY <2>1, <2>2
      <3>2. by[i].process \in Processes /\ at[by[i].process] = "calling" /\ JobOf(by[i].process) = i
        BY <1>1, <2>2, <3>1 DEF Openers
      <3>3. ~(by[i].process = p /\ who = "main")
        BY <1>6, <3>1, <3>2
      <3> QED
        BY <1>7, <3>1, <3>2, <3>3 DEF JobOf
    <2>3. \A i \in JobIds : tx'[i] = NoTx => by'[i] = Nobody
      BY <1>1, <1>4, <2>1 DEF Openers
    <2>4. \A i \in JobIds : /\ by'[i].who \in {"handler", "beat", "main"} => by'[i].process \in Processes
                            /\ by'[i].who = "handler" => tx'[i].permit \in 1..MaxAttempts
      BY <1>1, <1>4, <2>1 DEF Openers
    <2> QED
      BY <2>2, <2>3, <2>4 DEF Openers, JobOf, Nobody, Opener
  <1>13. HandlersAtWork'
    BY <1>1, <1>7, <1>8, <1>9 DEF HandlersAtWork
  <1>14. SuccessesRest'
    BY <1>4, <1>9, SuccessFrame
  <1> QED
    BY <1>3, <1>10, <1>11, <1>12, <1>13, <1>14 DEF RunnerInv

\* A process dies: the database rolls its transactions back.
LEMMA CrashStep ==
    ASSUME RunnerInv, NEW p \in Processes, Crash(p)
    PROVE  RunnerInv'
  <1>1. TypeOK /\ IndInv /\ LocalTypes /\ PermitsIssued /\ HandlersAtWork /\ Openers
    BY DEF RunnerInv
  <1>2. /\ UNCHANGED <<cmd, job, attempt, call, notified>> /\ accepted' = accepted /\ Idle(p)
        /\ \A j \in JobIds : /\ tx'[j] = IF by[j].process = p THEN NoTx ELSE tx[j]
                             /\ by'[j] = IF by[j].process = p THEN Nobody ELSE by[j]
    BY DEF Crash
  <1>3. \A j \in JobIds : Settles(j) /\ Quiet(j)
    BY <1>1, <1>2, RollbackMove
  <1>4. TypeOK'
    BY <1>1, <1>2 DEF TypeOK, Crash
  <1>5. IndInv'
    <2>1. UniqueKeys /\ \A i \in JobIds : JobInv(i)
      BY <1>1, IndInvParts
    <2>2. UniqueKeys'
      BY <1>2, <2>1, KeysFrame
    <2>3. ASSUME NEW j \in JobIds PROVE JobInv(j)'
      <3>1. CASE tx'[j] = tx[j]
        BY <1>2, <2>1, <3>1, JobFrame
      <3>2. CASE tx'[j] = NoTx
        BY <1>2, <2>1, <3>2 DEF JobInv
      <3> QED
        BY <1>2, <3>1, <3>2
    <2> QED
      BY <2>2, <2>3, IndInvParts
  <1>6. /\ at'[p] = "idle" /\ permit'[p] = NoPermit
        /\ \A r \in Processes \ {p} : at'[r] = at[r] /\ permit'[r] = permit[r] /\ handler'[r] = handler[r]
        /\ \A q \in Permits : handler'[p][q] = "none"
    BY <1>1, <1>2 DEF LocalTypes, Idle, Crash
  <1>7. LocalTypes'
    <2>1. Nobody \in [process : Processes \cup {NoProcess}, who : Whos]
      BY DEF Nobody, Opener, Whos
    <2>2. by' \in [JobIds -> [process : Processes \cup {NoProcess}, who : Whos]]
      BY <1>1, <2>1 DEF LocalTypes, Crash
    <2>3. handler' \in [Processes -> [Permits -> Results \cup {"none", "running", "stopped"}]]
      BY <1>1 DEF LocalTypes, Crash
    <2>4. crashes' \in 0..MaxCrashes
      BY <1>1, ProcessesAssumption DEF LocalTypes, Crash
    <2> QED
      BY <1>1, <1>2, <2>2, <2>3, <2>4 DEF LocalTypes, Idle, Places
  <1>8. PermitsIssued'
    <2>1. \A j \in JobIds : job'[j].gen \in Nat
      BY <1>4 DEF TypeOK, Row
    <2>2. /\ \A r \in Processes : permit'[r] \in {permit[r], NoPermit}
          /\ \A r \in Processes : at'[r] # "idle" => permit'[r] # NoPermit
      BY <1>1, <1>6 DEF PermitsIssued
    <2> QED
      BY <1>3, <2>1, <2>2, PermitsFrame
  <1>9. Openers'
    <2>1. Nobody.who = "nobody" /\ NoProcess # p
      BY ProcessesAssumption DEF Nobody, Opener
    <2>2. ASSUME NEW j \in JobIds, by'[j] # Nobody
          PROVE  by'[j] = by[j] /\ tx'[j] = tx[j] /\ by[j].process # p
      BY <1>2, <2>2
    <2>3. \A j \in JobIds : tx'[j] = NoTx => by'[j] = Nobody
      BY <1>1, <1>2 DEF Openers
    <2>4. \A j \in JobIds : /\ by'[j].who \in {"handler", "beat", "main"} => by'[j].process \in Processes
                            /\ by'[j].who = "handler" => tx'[j].permit \in 1..MaxAttempts
      BY <1>1, <2>1, <2>2 DEF Openers
    <2>5. ASSUME NEW j \in JobIds, by'[j].who = "main"
          PROVE  at'[by'[j].process] = "calling" /\ permit'[by'[j].process][1] = j
      <3>1. by'[j] = by[j] /\ by[j].process # p
        BY <2>1, <2>2, <2>5
      <3> QED
        BY <1>1, <1>6, <2>5, <3>1 DEF Openers, JobOf
    <2> QED
      BY <2>3, <2>4, <2>5 DEF Openers, JobOf, Nobody, Opener
  <1>10. HandlersAtWork'
    BY <1>1, <1>2, <1>6 DEF HandlersAtWork
  <1>11. SuccessesRest'
    BY <1>2, <1>3, SuccessFrame
  <1> QED
    BY <1>4, <1>5, <1>7, <1>8, <1>9, <1>10, <1>11 DEF RunnerInv

\* The steps that open a transaction under the permit of a process.  What the
\* handler returned as accepted was accepted, so success is reported for it.
LEMMA HeldStep ==
    ASSUME RunnerInv, NEW p \in Processes, HandlerWrite(p) \/ BeatTick(p) \/ Accept(p) \/ Adopt(p)
    PROVE  RunnerInv'
  <1>1. TypeOK /\ LocalTypes /\ HandlersAtWork /\ PermitsIssued
    BY DEF RunnerInv
  <1>2. at[p] # "idle"
    BY DEF HandlerWrite, BeatTick, Accept, Adopt
  <1>3. permit[p] # NoPermit
    BY <1>1, <1>2 DEF PermitsIssued
  <1>4. PICK j \in JobIds, g \in 1..MaxAttempts : permit[p] = <<j, g>>
    BY <1>3, PermitOf
  <1>5. PICK w \in Workers : w = WorkerOf[p]
    BY ProcessesAssumption
  <1>6. JobOf(p) = j /\ GenOf(p) = g
    BY <1>4 DEF JobOf, GenOf
  <1>7. CASE HandlerWrite(p)
    <2>1. AssertPermit(j, w, g)
      BY <1>5, <1>6, <1>7 DEF HandlerWrite, AssertPermit, lockPermit, Hold
    <2>2. /\ by' = [by EXCEPT ![j] = Opener(p, "handler")] /\ at' = at
          /\ UNCHANGED <<permit, beat, handler, accepted, crashes>>
      BY <1>6, <1>7 DEF HandlerWrite
    <2> QED
      BY <1>4, <1>5, <2>1, <2>2, PermitHoldStep
  <1>8. CASE BeatTick(p)
    <2>1. Heartbeat(j, w, g)
      BY <1>5, <1>6, <1>8 DEF BeatTick, Heartbeat, lockPermit, Hold
    <2>2. /\ by' = [by EXCEPT ![j] = Opener(p, "beat")] /\ at' = at
          /\ UNCHANGED <<permit, beat, handler, accepted, crashes>>
      BY <1>6, <1>8 DEF BeatTick
    <2> QED
      BY <1>4, <1>5, <2>1, <2>2, PermitHoldStep
  <1>9. CASE Accept(p)
    <2>1. \/ CompleteAcceptedResult(j, w, g) /\ handler[p][permit[p]] = "ok"
          \/ Fail(j, w, g) \/ \E delay \in RetryDelays : Retry(j, w, g, delay)
      <3>1. CASE handler[p][permit[p]] = "ok"
        <4>1. CompleteAcceptedResult(JobOf(p), WorkerOf[p], GenOf(p))
          BY <1>9, <3>1 DEF Accept, QueueCall
        <4>2. CompleteAcceptedResult(j, w, g)
          BY <1>5, <1>6, <4>1 DEF CompleteAcceptedResult, lockPermit, finish, Hold
        <4> QED
          BY <3>1, <4>2
      <3>2. CASE handler[p][permit[p]] = "failure"
        <4>1. Fail(JobOf(p), WorkerOf[p], GenOf(p))
          BY <1>9, <3>2 DEF Accept, QueueCall
        <4>2. Fail(j, w, g)
          BY <1>5, <1>6, <4>1 DEF Fail, lockPermit, finish, Hold
        <4> QED
          BY <4>2
      <3>3. CASE handler[p][permit[p]] \notin {"ok", "failure"}
        <4>1. \E delay \in RetryDelays : Retry(JobOf(p), WorkerOf[p], GenOf(p), delay)
          BY <1>9, <3>3 DEF Accept, QueueCall
        <4>2. ASSUME NEW delay \in RetryDelays, Retry(JobOf(p), WorkerOf[p], GenOf(p), delay)
              PROVE  Retry(j, w, g, delay)
          BY <1>5, <1>6, <4>2 DEF Retry, lockPermit, finish, Hold
        <4> QED
          BY <4>1, <4>2
      <3> QED
        BY <3>1, <3>2, <3>3
    <2>2. handler[p][permit[p]] = "ok" => <<j, g>> \in accepted
      BY <1>1, <1>4 DEF HandlersAtWork, Permits
    <2>3. /\ by' = [by EXCEPT ![j] = Opener(p, "main")] /\ at[p] = "accepting"
          /\ at' = [at EXCEPT ![p] = "calling"] /\ UNCHANGED <<permit, beat, handler, accepted, crashes>>
      BY <1>6, <1>9 DEF Accept, Goto
    <2> QED
      BY <1>4, <1>5, <2>1, <2>2, <2>3, PermitHoldStep
  <1>10. CASE Adopt(p)
    <2>1. AcknowledgeCancel(j, w, g)
      BY <1>5, <1>6, <1>10 DEF Adopt, AcknowledgeCancel, lockPermit, cancelLocked, Hold
    <2>2. /\ by' = [by EXCEPT ![j] = Opener(p, "main")] /\ at[p] = "adopting"
          /\ at' = [at EXCEPT ![p] = "calling"] /\ UNCHANGED <<permit, beat, handler, accepted, crashes>>
      BY <1>6, <1>10 DEF Adopt, Goto
    <2> QED
      BY <1>4, <1>5, <2>1, <2>2, PermitHoldStep
  <1> QED
    BY <1>7, <1>8, <1>9, <1>10

\* An operator asks for cancellation.
LEMMA CancelStep ==
    ASSUME RunnerInv, NEW j \in JobIds, RequestCancel(j),
           by' = [by EXCEPT ![j] = Opener(NoProcess, "operator")],
           UNCHANGED <<at, permit, beat, handler, accepted, crashes>>
    PROVE  RunnerInv'
  <1>1. [Next]_vars /\ TypeOK /\ 0 \in Nat /\ "operator" \in Whos
    BY DEF Next, RunnerInv, Whos
  <1>2. tx[j] = NoTx
    BY DEF RequestCancel
  <1>3. PICK row \in Row, outcome \in Outcomes \cup {"OPEN", "NONE"}, notify \in BOOLEAN :
          Hold(j, row, outcome, notify, 0) /\ row.status # "SUCCEEDED"
    BY <1>1, HeldByCancel
  <1>4. Opens(j, row, 0)
    BY <1>1, <1>3, HoldMove
  <1> QED
    BY <1>1, <1>2, <1>3, <1>4, OpenStep

LEMMA RunnerInitInv == RunnerInit => RunnerInv
  <1> SUFFICES ASSUME RunnerInit PROVE RunnerInv
    OBVIOUS
  <1>1. TypeOK /\ IndInv
    BY InitType, InitInv DEF RunnerInit
  <1>2. Nobody \in [process : Processes \cup {NoProcess}, who : Whos] /\ Nobody.who = "nobody"
    BY DEF Nobody, Opener, Whos
  <1>3. LocalTypes
    BY <1>2, ProcessesAssumption DEF RunnerInit, LocalTypes, Places
  <1>4. PermitsIssued
    BY DEF RunnerInit, PermitsIssued
  <1>5. Openers
    BY <1>2 DEF RunnerInit, Openers
  <1>6. HandlersAtWork
    BY DEF RunnerInit, HandlersAtWork
  <1>7. SuccessesRest
    <2>1. AbsentRow.status # "SUCCEEDED"
      BY DEF AbsentRow
    <2> QED
      BY <2>1 DEF RunnerInit, Init, SuccessesRest
  <1> QED
    BY <1>1, <1>3, <1>4, <1>5, <1>6, <1>7 DEF RunnerInv

LEMMA RunnerStepInv == RunnerInv /\ [RunnerNext]_allvars => RunnerInv'
  <1> SUFFICES ASSUME RunnerInv, [RunnerNext]_allvars PROVE RunnerInv'
    OBVIOUS
  <1>1. TypeOK /\ IndInv
    BY DEF RunnerInv
  <1>2. ASSUME NEW c \in Commands, Enqueue(c), UNCHANGED local PROVE RunnerInv'
    <2>1. [Next]_vars /\ tx' = tx
      BY <1>2 DEF Next, Enqueue
    <2>2. \A j \in JobIds : Settles(j) /\ Quiet(j)
      BY <1>1, <1>2, EnqueueMove
    <2> QED
      BY <1>2, <2>1, <2>2, QueueStep
  <1>3. ASSUME NEW j \in JobIds, RequestCancel(j), by' = [by EXCEPT ![j] = Opener(NoProcess, "operator")],
               UNCHANGED <<at, permit, beat, handler, accepted, crashes>>
        PROVE  RunnerInv'
    BY <1>3, CancelStep
  <1>4. ASSUME NEW p \in Processes, PollNothing(p) PROVE RunnerInv'
    <2>1. PICK w \in Workers : w = WorkerOf[p]
      BY ProcessesAssumption
    <2>2. Claim(w) /\ tx' = tx /\ UNCHANGED local
      BY <1>4, <2>1 DEF PollNothing, Claim, ClaimNothing, ReapAndLease
    <2>3. \A j \in JobIds : Settles(j) /\ Quiet(j)
      BY <1>1, <2>2, ClaimMove
    <2>4. [Next]_vars
      BY <2>2 DEF Next
    <2> QED
      BY <2>2, <2>3, <2>4, QueueStep
  <1>5. ASSUME NEW p \in Processes, ProcessStep(p) PROVE RunnerInv'
    BY <1>4, <1>5, PollStep, MainLocal, HeldStep DEF ProcessStep
  <1>6. ASSUME NEW p \in Processes, HandlerWrite(p) \/ BeatTick(p) PROVE RunnerInv'
    BY <1>6, HeldStep
  <1>7. ASSUME NEW p \in Processes, HandlerStale(p) \/ BeatStale(p) PROVE RunnerInv'
    <2>1. at[p] = "executing"
      BY <1>7 DEF HandlerStale, BeatStale
    <2>2. permit[p] # NoPermit
      BY <2>1 DEF RunnerInv, PermitsIssued
    <2>3. PICK q \in Permits : q = permit[p]
      BY <2>2, PermitOf
    <2> QED
      BY <1>7, <2>3, GoroutineLocal
  <1>8. ASSUME NEW p \in Processes, Crash(p) PROVE RunnerInv'
    BY <1>8, CrashStep
  <1>9. ASSUME NEW p \in Processes, NEW q \in Permits, HandlerReturn(p, q) \/ StoppedReturn(p, q)
        PROVE  RunnerInv'
    BY <1>9, GoroutineLocal
  <1>10. ASSUME NEW j \in JobIds, EndCommit(j) \/ EndRollback(j) PROVE RunnerInv'
    BY <1>10, EndStep
  <1>11. CASE Tick /\ UNCHANGED local
    <2>1. [Next]_vars
      BY <1>11 DEF Next
    <2> QED
      BY <1>1, <1>11, <2>1, TickMove, QueueStep
  <1>12. CASE UNCHANGED allvars
    <2>1. UNCHANGED <<cmd, job, attempt, tx, call, notified>> /\ UNCHANGED local
      BY <1>12 DEF allvars, local
    <2>2. [Next]_vars
      BY <2>1 DEF vars
    <2>3. \A j \in JobIds : Settles(j) /\ Quiet(j)
      BY <1>1, <2>1, StaysSettled DEF Quiet
    <2> QED
      BY <2>1, <2>2, <2>3, QueueStep
  <1> QED
    BY <1>2, <1>3, <1>5, <1>6, <1>7, <1>8, <1>9, <1>10, <1>11, <1>12 DEF RunnerNext

-----------------------------------------------------------------------------
(***************************************************************************)
(* Theorems                                                                *)
(***************************************************************************)
\* Two worker processes never hold the same permit, though all of them may
\* run under one WORKER_ID, and a handler runs only in the process that is
\* executing under its permit: what a lost heartbeat leaves behind was told
\* to stop (runner.go, RunOnce).
THEOREM OneHolder == RunnerSpec => []OnePermitHolder
  <1>1. RunnerInv => OnePermitHolder
    BY DEF RunnerInv, PermitsIssued, HandlersAtWork, OnePermitHolder
  <1> QED
    BY <1>1, RunnerInitInv, RunnerStepInv, PTL DEF RunnerSpec

\* A job is reported successful only if its domain write was committed by a
\* handler under the permit of the job's last attempt, whatever crashed, was
\* lost, retried, taken over or cancelled on the way (acceptHandlerResult,
\* CompleteAcceptedResult).
THEOREM SuccessAccepted == RunnerSpec => []SuccessWasAccepted
  <1>1. RunnerInv => SuccessWasAccepted
    BY DEF RunnerInv, SuccessesRest, SuccessWasAccepted
  <1> QED
    BY <1>1, RunnerInitInv, RunnerStepInv, PTL DEF RunnerSpec

\* The variables of the runner keep their types, and the rows of the queue
\* theirs, through crashes of any process.
THEOREM RunnerTypes == RunnerSpec => []RunnerTypeOK
  <1>1. RunnerInv => RunnerTypeOK
    BY DEF RunnerInv, LocalTypes, Places, RunnerTypeOK
  <1> QED
    BY <1>1, RunnerInitInv, RunnerStepInv, PTL DEF RunnerSpec

\* Fencing holds in the composed system as well: whatever goroutine presents
\* the permit, a handler told to stop included, and whichever process dies
\* with transactions open, no transaction under a permit is open on a job that
\* was taken over, cancelled or finished (lockPermit).
THEOREM RunnerFencing == RunnerSpec => []FencedTransaction
  <1>1. RunnerInv => FencedTransaction
    BY InvFences DEF RunnerInv
  <1> QED
    BY <1>1, RunnerInitInv, RunnerStepInv, PTL DEF RunnerSpec
=============================================================================
