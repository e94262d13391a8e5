----------------------------- MODULE WorkerRunner -----------------------------
(***************************************************************************)
(* The worker process of ref0 (internal/worker) on top of JobQueue.  Each  *)
(* process polls, and runs one job at a time with two goroutines, the      *)
(* handler and the heartbeat, and a main goroutine that waits for the      *)
(* first of them.  All three use the queue under the same permit.  A       *)
(* handler the main goroutine gave up on is told to stop but not waited    *)
(* for: it may outlive its job's lease in the same process.                *)
(*                                                                         *)
(* Every call to the queue is a transaction of JobQueue: by[j] remembers   *)
(* whose it is, so that its end is reported to the right goroutine.        *)
(***************************************************************************)
EXTENDS JobQueue

CONSTANTS
    Processes,   \* worker processes
    WorkerOf,    \* WORKER_ID of each, "worker-1" unless configured
    NoProcess,   \* the process of a transaction no worker opened
    Unknown,     \* operation keys of job types no handler is registered for
    MaxCrashes   \* bound: how often a process dies

Permits == JobIds \X (1..MaxAttempts)
NoPermit == <<0, 0>>

ASSUME ProcessesAssumption ==
    /\ WorkerOf \in [Processes -> Workers]
    /\ NoProcess \notin Processes
    /\ MaxCrashes \in Nat

VARIABLES
    at,        \* at[p]: where the main goroutine of p is
    permit,    \* permit[p]: the permit of its current job, or NoPermit
    beat,      \* beat[p]: its heartbeat goroutine
    handler,   \* handler[p][q]: its handler goroutine for permit q
    accepted,  \* permits under which a domain write was committed
    by,        \* by[j]: who opened the transaction on row j
    crashes    \* how many processes died so far

queue == <<cmd, job, attempt, tx, call, notified>>
local == <<at, permit, beat, handler, accepted, by, crashes>>
allvars == <<cmd, job, attempt, tx, call, notified,
             at, permit, beat, handler, accepted, by, crashes>>

Opener(p, who) == [process |-> p, who |-> who]
Nobody == Opener(NoProcess, "nobody")

\* What a handler returns; other errors and panics are retried like a
\* retryable HandlerFailure.
Results == {"ok", "stale", "retryable", "failure"}

RunnerInit ==
    /\ Init
    /\ at = [p \in Processes |-> "idle"]
    /\ permit = [p \in Processes |-> NoPermit]
    /\ beat = [p \in Processes |-> "none"]
    /\ handler = [p \in Processes |-> [q \in Permits |-> "none"]]
    /\ accepted = {}
    /\ by = [j \in JobIds |-> Nobody]
    /\ crashes = 0

-----------------------------------------------------------------------------
JobOf(p) == permit[p][1]
GenOf(p) == permit[p][2]

\* The check of lockPermit fails: ErrStalePermit.  The caller waited for the
\* row lock first.
Stale(p, statuses) ==
    /\ tx[JobOf(p)] = NoTx
    /\ ~lockPermit(JobOf(p), WorkerOf[p], GenOf(p), statuses)

Goto(p, where) == at' = [at EXCEPT ![p] = where]

\* RunOnce returned: the next iteration polls again.
Idle(p) ==
    /\ at' = [at EXCEPT ![p] = "idle"]
    /\ permit' = [permit EXCEPT ![p] = NoPermit]
    /\ beat' = [beat EXCEPT ![p] = "none"]

\* Mutant: the permit carries the generation from before the claim.
Poll_OldGeneration(p) ==
    /\ at[p] = "idle"
    /\ \E j \in JobIds :
        /\ ClaimJob(WorkerOf[p], j)
        /\ Goto(p, "claimed")
        /\ permit' = [permit EXCEPT ![p] = <<j, job[j].gen>>]
    /\ UNCHANGED <<beat, handler, accepted, by, crashes>>

\* Claim answers with a permit, or the answer is lost with the connection
\* after the commit and the lease belongs to nobody.
Poll(p) ==
    /\ at[p] = "idle"
    /\ \E j \in JobIds :
        /\ ClaimJob(WorkerOf[p], j)
        /\ \/ Goto(p, "claimed")
              /\ permit' = [permit EXCEPT ![p] = <<j, job[j].gen + 1>>]
           \/ UNCHANGED <<at, permit>>
    /\ UNCHANGED <<beat, handler, accepted, by, crashes>>

PollNothing(p) ==
    /\ at[p] = "idle"
    /\ ClaimNothing(WorkerOf[p])
    /\ UNCHANGED local

\* GetCommand, then start the handler and the heartbeat, or retry a job type
\* without handler.
Start(p) ==
    /\ at[p] = "claimed"
    /\ lockPermit(JobOf(p), WorkerOf[p], GenOf(p), {"LEASED"})
    /\ IF cmd[JobOf(p)].op \in Unknown
       THEN /\ Goto(p, "accepting")
            /\ handler' = [handler EXCEPT ![p][permit[p]] = "retryable"]
            /\ UNCHANGED beat
       ELSE /\ Goto(p, "executing")
            /\ handler' = [handler EXCEPT ![p][permit[p]] = "running"]
            /\ beat' = [beat EXCEPT ![p] = "ticking"]
    /\ UNCHANGED <<queue, permit, accepted, by, crashes>>

StartStale(p) ==
    /\ at[p] = "claimed"
    /\ Stale(p, {"LEASED"})
    /\ Goto(p, "adopting")
    /\ UNCHANGED <<queue, permit, beat, handler, accepted, by, crashes>>

\* Any other error of GetCommand ends RunOnce; the lease is left to expire.
StartError(p) ==
    /\ at[p] = "claimed"
    /\ Idle(p)
    /\ UNCHANGED <<queue, handler, accepted, by, crashes>>

-----------------------------------------------------------------------------
\* The handler writes to the domain in a transaction that starts with
\* AssertPermit.  Its context is cancelled once it was told to stop.
HandlerWrite(p) ==
    /\ at[p] = "executing" /\ handler[p][permit[p]] = "running"
    /\ AssertPermit(JobOf(p), WorkerOf[p], GenOf(p))
    /\ by' = [by EXCEPT ![JobOf(p)] = Opener(p, "handler")]
    /\ UNCHANGED <<at, permit, beat, handler, accepted, crashes>>

HandlerStale(p) ==
    /\ at[p] = "executing" /\ handler[p][permit[p]] = "running"
    /\ Stale(p, {"LEASED"})
    /\ handler' = [handler EXCEPT ![p][permit[p]] = "stale"]
    /\ UNCHANGED <<queue, at, permit, beat, accepted, by, crashes>>

\* Its transaction is over: the handler returns its result or an error.
InWrite(p, q) == by[q[1]] = Opener(p, "handler") /\ tx[q[1]].permit = q[2]

HandlerReturn(p, q) ==
    /\ handler[p][q] = "running" /\ ~InWrite(p, q)
    /\ \E r \in Results \ {"stale"} :
        /\ r = "ok" => q \in accepted
        /\ handler' = [handler EXCEPT ![p][q] = r]
    /\ UNCHANGED <<queue, at, permit, beat, accepted, by, crashes>>

\* A stopped handler ends; nobody receives its result.
StoppedReturn(p, q) ==
    /\ handler[p][q] = "stopped" /\ ~InWrite(p, q)
    /\ handler' = [handler EXCEPT ![p][q] = "none"]
    /\ UNCHANGED <<queue, at, permit, beat, accepted, by, crashes>>

-----------------------------------------------------------------------------
BeatTick(p) ==
    /\ at[p] = "executing" /\ beat[p] = "ticking"
    /\ Heartbeat(JobOf(p), WorkerOf[p], GenOf(p))
    /\ by' = [by EXCEPT ![JobOf(p)] = Opener(p, "beat")]
    /\ UNCHANGED <<at, permit, beat, handler, accepted, crashes>>

BeatStale(p) ==
    /\ at[p] = "executing" /\ beat[p] = "ticking"
    /\ Stale(p, {"LEASED"})
    /\ beat' = [beat EXCEPT ![p] = "failed"]
    /\ UNCHANGED <<queue, at, permit, handler, accepted, by, crashes>>

-----------------------------------------------------------------------------
\* Mutant: the handler's context is not cancelled.
LoseHeartbeat_Running(p) ==
    /\ at[p] = "executing" /\ beat[p] = "failed"
    /\ Goto(p, "adopting")
    /\ UNCHANGED <<queue, permit, beat, handler, accepted, by, crashes>>

\* select: the heartbeat failed, the handler is told to stop and left behind.
\* When the handler is done as well, either case may be chosen.
LoseHeartbeat(p) ==
    /\ at[p] = "executing" /\ beat[p] = "failed"
    /\ Goto(p, "adopting")
    /\ handler' = [handler EXCEPT ![p][permit[p]] =
                    IF @ = "running" THEN "stopped" ELSE "none"]
    /\ UNCHANGED <<queue, permit, beat, accepted, by, crashes>>

\* select: the handler is done; stop the heartbeat, and wait for it to end.
TakeResult(p) ==
    /\ at[p] = "executing" /\ handler[p][permit[p]] \in Results
    /\ Goto(p, "draining")
    /\ beat' = [beat EXCEPT ![p] = "none"]
    /\ UNCHANGED <<queue, permit, handler, accepted, by, crashes>>

Drained(p) ==
    /\ at[p] = "draining"
    /\ by[JobOf(p)] # Opener(p, "beat")
    /\ Goto(p, "accepting")
    /\ UNCHANGED <<queue, permit, beat, handler, accepted, by, crashes>>

\* Mutant: the error of a handler is dropped.
QueueCall_Swallow(p, result) ==
    CompleteAcceptedResult(JobOf(p), WorkerOf[p], GenOf(p))

\* acceptHandlerResult: the queue operation for each result.
QueueCall(p, result) ==
    LET j == JobOf(p)
        w == WorkerOf[p]
        g == GenOf(p)
    IN  CASE result = "ok" -> CompleteAcceptedResult(j, w, g)
          [] result = "failure" -> Fail(j, w, g)
          [] OTHER -> \E delay \in RetryDelays : Retry(j, w, g, delay)

AcceptedStatuses(result) ==
    IF result = "ok" THEN {"LEASED", "CANCEL_REQUESTED"} ELSE {"LEASED"}

Accept(p) ==
    /\ at[p] = "accepting" /\ handler[p][permit[p]] \in Results \ {"stale"}
    /\ QueueCall(p, handler[p][permit[p]])
    /\ by' = [by EXCEPT ![JobOf(p)] = Opener(p, "main")]
    /\ Goto(p, "calling")
    /\ UNCHANGED <<permit, beat, handler, accepted, crashes>>

\* Mutant: a permit that became stale while the handler returned is not
\* handled.
AcceptStale_Handler(p) ==
    /\ at[p] = "accepting"
    /\ handler[p][permit[p]] = "stale"
    /\ Goto(p, "adopting")
    /\ UNCHANGED <<queue, permit, beat, handler, accepted, by, crashes>>

AcceptStale(p) ==
    /\ at[p] = "accepting"
    /\ \/ handler[p][permit[p]] = "stale"
       \/ Stale(p, AcceptedStatuses(handler[p][permit[p]]))
    /\ Goto(p, "adopting")
    /\ UNCHANGED <<queue, permit, beat, handler, accepted, by, crashes>>

\* adoptCancellation
Adopt(p) ==
    /\ at[p] = "adopting"
    /\ AcknowledgeCancel(JobOf(p), WorkerOf[p], GenOf(p))
    /\ by' = [by EXCEPT ![JobOf(p)] = Opener(p, "main")]
    /\ Goto(p, "calling")
    /\ UNCHANGED <<permit, beat, handler, accepted, crashes>>

AdoptStale(p) ==
    /\ at[p] = "adopting"
    /\ Stale(p, {"CANCEL_REQUESTED"})
    /\ Idle(p)
    /\ UNCHANGED <<queue, handler, accepted, by, crashes>>

-----------------------------------------------------------------------------
\* The end of a transaction, as its goroutine sees it.  An error from the
\* database makes the handler return it, ends the heartbeat, and ends RunOnce.
Tell(j, committed) ==
    LET p == by[j].process
        who == by[j].who
        q == <<j, tx[j].permit>>
    IN  /\ by' = [by EXCEPT ![j] = Nobody]
        /\ accepted' = IF who = "handler" /\ committed THEN accepted \cup {q}
                       ELSE accepted
        /\ handler' = IF who = "handler" /\ ~committed /\ handler[p][q] = "running"
                      THEN [handler EXCEPT ![p][q] = "retryable"] ELSE handler
        /\ IF who = "main" THEN Idle(p)
           ELSE /\ beat' = IF who = "beat" /\ ~committed
                              /\ at[p] = "executing"
                           THEN [beat EXCEPT ![p] = "failed"] ELSE beat
                /\ UNCHANGED <<at, permit>>
        /\ UNCHANGED crashes

EndCommit(j) == Commit(j) /\ Tell(j, TRUE)
EndRollback(j) == Rollback(j) /\ Tell(j, FALSE)

\* A process dies, or is shut down: nothing tells the queue.  The database
\* rolls back the transactions of its connections.
Crash(p) ==
    /\ crashes < MaxCrashes
    /\ crashes' = crashes + 1
    /\ Idle(p)
    /\ tx' = [j \in JobIds |-> IF by[j].process = p THEN NoTx ELSE tx[j]]
    /\ by' = [j \in JobIds |-> IF by[j].process = p THEN Nobody ELSE by[j]]
    /\ handler' = [handler EXCEPT ![p] = [q \in Permits |-> "none"]]
    /\ UNCHANGED <<cmd, job, attempt, call, notified, accepted>>

-----------------------------------------------------------------------------
ProcessStep(p) ==
    \/ Poll(p) \/ PollNothing(p)
    \/ Start(p) \/ StartStale(p) \/ StartError(p)
    \/ LoseHeartbeat(p) \/ TakeResult(p) \/ Drained(p)
    \/ Accept(p) \/ AcceptStale(p)
    \/ Adopt(p) \/ AdoptStale(p)

RunnerNext ==
    \/ \E c \in Commands : Enqueue(c) /\ UNCHANGED local
    \/ \E j \in JobIds :
        /\ RequestCancel(j)
        /\ by' = [by EXCEPT ![j] = Opener(NoProcess, "operator")]
        /\ UNCHANGED <<at, permit, beat, handler, accepted, crashes>>
    \/ \E p \in Processes :
        \/ ProcessStep(p)
        \/ HandlerWrite(p) \/ HandlerStale(p)
        \/ BeatTick(p) \/ BeatStale(p)
        \/ Crash(p)
    \/ \E p \in Processes, q \in Permits : HandlerReturn(p, q) \/ StoppedReturn(p, q)
    \/ \E j \in JobIds : EndCommit(j) \/ EndRollback(j)
    \/ Tick /\ UNCHANGED local

RunnerSpec == RunnerInit /\ [][RunnerNext]_allvars

-----------------------------------------------------------------------------
(***************************************************************************)
(* Properties                                                              *)
(***************************************************************************)
\* The runner's variables have their types.
RunnerTypeOK ==
    /\ TypeOK
    /\ at \in [Processes -> {"idle", "claimed", "executing", "draining",
                              "accepting", "calling", "adopting"}]
    /\ permit \in [Processes -> Permits \cup {NoPermit}]
    /\ beat \in [Processes -> {"none", "ticking", "failed"}]
    /\ handler \in [Processes -> [Permits -> Results \cup {"none", "running", "stopped"}]]
    /\ accepted \subseteq Permits
    /\ crashes \in 0..MaxCrashes

\* A permit is in the hands of one process, whatever the worker IDs are, and
\* a process that is not at work on a permit has no goroutine left for it
\* except a handler told to stop.
OnePermitHolder ==
    /\ \A p, r \in Processes :
        p # r /\ permit[p] # NoPermit => permit[p] # permit[r]
    /\ \A p \in Processes, q \in Permits :
        handler[p][q] = "running" => at[p] = "executing" /\ permit[p] = q

\* A job is reported successful only if a handler committed its result under
\* the permit of the job's last attempt.
SuccessWasAccepted ==
    \A j \in JobIds : job[j].status = "SUCCEEDED" => <<j, job[j].gen>> \in accepted

\* Every goroutine is scheduled, transactions end, the poll loop goes on and
\* the clock advances.  A handler returns after finitely many writes (strong
\* fairness: each write disables the return until it is over).  It is not
\* assumed that the answer to a poll arrives.
RunnerFairness ==
    /\ \A p \in Processes : WF_allvars(ProcessStep(p))
    /\ \A p \in Processes, q \in Permits :
        SF_allvars(HandlerReturn(p, q) \/ StoppedReturn(p, q))
    /\ \A j \in JobIds : WF_allvars(EndCommit(j))
    /\ WF_allvars(Tick /\ UNCHANGED local)

RunnerFairSpec == RunnerSpec /\ RunnerFairness

\* The premise of progress: transactions do not fail for ever.
FailuresStop == <>[][\A j \in JobIds : ~EndRollback(j)]_allvars

\* Every job is settled in spite of crashes, lost answers, failing handlers,
\* lost heartbeats and concurrent cancellations.
EveryJobSettles ==
    FailuresStop =>
        \A j \in JobIds : job[j].status \in Active ~> job[j].status \in Terminal

\* No process is stuck with a job: it always comes back to poll.
ProcessReturns ==
    FailuresStop => \A p \in Processes : at[p] # "idle" ~> at[p] = "idle"
=============================================================================
