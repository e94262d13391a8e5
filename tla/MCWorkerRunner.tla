---------------------------- MODULE MCWorkerRunner ----------------------------
(***************************************************************************)
(* Small instances of the queue and of the worker processes for TLC.  A    *)
(* behaviour is one of the queue alone (MCJobQueue), or has two processes, *)
(* one of which dies once at most, or one process that dies up to          *)
(* MaxCrashes times and that is scheduled fairly.                          *)
(***************************************************************************)
EXTENDS WorkerRunner, MCJobQueue

CONSTANTS r1, r2

\* One job that may be tried twice, and one no handler is registered for.
BothCommands ==
    {[op |-> "a", profile |-> NoProfile, limit |-> 0, max |-> 2, delay |-> Null],
     [op |-> "x", profile |-> NoProfile, limit |-> 0, max |-> 1, delay |-> Null]}

EveryCommand == AllCommands \cup BothCommands

\* Both processes run with the default WORKER_ID.
SameWorker == [p \in Processes |-> w1]

UnknownOps == {"x"}

Runner == INSTANCE WorkerRunner WITH
    Workers <- {w1}, Commands <- BothCommands, Profiles <- {},
    Endpoint <- <<>>, TaskLimit <- <<>>, LateCommit <- TRUE

\* What the processes promise of the only job they have.
OnlyJob == INSTANCE WorkerRunner WITH MaxJobs <- 1

WithRunner == part \in {"two", "one"}

MCInit == RunnerInit /\ part \in {"lifecycle", "admission", "two", "one"}

\* The queue alone has no handlers: a result it takes was written.
MCNext ==
    \/ /\ QueueStep
       /\ accepted' = {<<j, job'[j].gen>> : j \in {i \in JobIds : job'[i].status = "SUCCEEDED"}}
       /\ UNCHANGED <<at, permit, beat, handler, by, crashes>>
    \/ part \in {"two", "one"} /\ UNCHANGED part /\ Runner!RunnerNext

\* A process is named r1, and a worker w1, when it is the first to claim a
\* job.  The processes have one job.
Focus ==
    LET claimed == \E j \in JobIds : job[j].gen > 0
    IN  CASE part = "one" -> at'[r2] = "idle" /\ cmd'[2] = NoCommand
          [] part = "two" -> /\ crashes' <= 1 /\ cmd'[2] = NoCommand
                             /\ at'[r2] # "idle" => claimed
          [] OTHER -> claimed \/ \A j \in JobIds : job'[j].owner # w2

\* RunnerFairness of the one process.
Fairness ==
    /\ WF_allvars(part = "one" /\ Runner!ProcessStep(r1))
    /\ \A q \in OnlyJob!Permits :
        SF_allvars(part = "one" /\ (Runner!HandlerReturn(r1, q) \/ Runner!StoppedReturn(r1, q)))
    /\ \A j \in OnlyJob!JobIds : WF_allvars(part = "one" /\ Runner!EndCommit(j))
    /\ WF_allvars(part = "one" /\ Runner!Tick /\ UNCHANGED local)

MCSpec == MCInit /\ [][MCNext]_<<allvars, part>> /\ Fairness

\* Every job is settled in spite of crashes, lost answers, failing handlers,
\* lost heartbeats and concurrent cancellations, and the process always comes
\* back to poll (Runner.RunOnce, Claim).
WorkIsSettled == part = "one" => OnlyJob!EveryJobSettles /\ OnlyJob!ProcessReturns
=============================================================================
