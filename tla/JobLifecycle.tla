----------------------------- MODULE JobLifecycle -----------------------------
(***************************************************************************)
(* What the job queue promises its clients, without leases, clocks,        *)
(* workers or transactions.  A job is submitted with a budget of runs.  It *)
(* is started at most that often, by one run at a time, and is settled     *)
(* once.  Failure and cancellation are announced to the domain in the very *)
(* step that settles the job.  Several jobs may move in one step.          *)
(***************************************************************************)
EXTENDS Naturals

CONSTANTS Jobs, MaxRuns

VARIABLES
    phase,     \* where the job is in its life
    budget,    \* runs it may still start
    announced  \* how often its failure or cancellation was announced

vars == <<phase, budget, announced>>

Init ==
    /\ phase = [j \in Jobs |-> "none"]
    /\ budget = [j \in Jobs |-> 0]
    /\ announced = [j \in Jobs |-> 0]

Quietly(j) == announced'[j] = announced[j]

Submit(j) ==
    /\ phase[j] = "none" /\ phase'[j] = "queued"
    /\ budget'[j] \in 1..MaxRuns /\ Quietly(j)

\* From the queue, or over from a run that was lost.
StartRun(j) ==
    /\ phase[j] \in {"queued", "running"} /\ phase'[j] = "running"
    /\ budget[j] > 0 /\ budget'[j] = budget[j] - 1 /\ Quietly(j)

\* Only a job that can be started again goes back to the queue.
Requeue(j) ==
    /\ phase[j] = "running" /\ phase'[j] = "queued"
    /\ budget[j] > 0 /\ budget'[j] = budget[j] /\ Quietly(j)

AskToCancel(j) ==
    /\ phase[j] = "running" /\ phase'[j] = "cancelling"
    /\ budget'[j] = budget[j] /\ Quietly(j)

Succeed(j) ==
    /\ phase[j] \in {"running", "cancelling"} /\ phase'[j] = "succeeded"
    /\ budget'[j] = budget[j] /\ Quietly(j)

Fail(j) ==
    /\ phase[j] = "running" /\ phase'[j] = "failed"
    /\ budget'[j] = budget[j] /\ announced'[j] = announced[j] + 1

Cancel(j) ==
    /\ phase[j] \in {"queued", "running", "cancelling"} /\ phase'[j] = "cancelled"
    /\ budget'[j] = budget[j] /\ announced'[j] = announced[j] + 1

Stay(j) == phase'[j] = phase[j] /\ budget'[j] = budget[j] /\ Quietly(j)

Step(j) ==
    \/ Stay(j)
    \/ Submit(j) \/ StartRun(j) \/ Requeue(j) \/ AskToCancel(j)
    \/ Succeed(j) \/ Fail(j) \/ Cancel(j)

Next ==
    /\ \A j \in Jobs : Step(j)
    /\ phase' = [j \in Jobs |-> phase'[j]]
    /\ budget' = [j \in Jobs |-> budget'[j]]
    /\ announced' = [j \in Jobs |-> announced'[j]]

Spec == Init /\ [][Next]_vars
=============================================================================
